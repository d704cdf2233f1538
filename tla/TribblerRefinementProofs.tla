---------------------- MODULE TribblerRefinementProofs ----------------------
(***************************************************************************)
(* Proof that Tribbler servers that share one key-value server of a        *)
(* complete cluster implement SocialNetwork while nothing crashes, for     *)
(* every set of scripts that create users with names of their own and post *)
(* tribbles that can be read back; and, from that, that the sample client  *)
(* gets the right answers when it has the cluster to itself.               *)
(***************************************************************************)
EXTENDS TribblerRefinement, TribblerFeedProofs, FunctionTheorems

-----------------------------------------------------------------------------
(* Feeds of tribbles any two of which can be compared.  R says which of two *)
(* is the older one.                                                        *)

Orders(R, S) ==
    /\ \A a, b \in S : <<a, b>> \in R => <<b, a>> \notin R
    /\ \A a, b, c \in S : <<a, b>> \in R /\ <<b, c>> \in R => <<a, c>> \in R
    /\ \A a, b \in S : a # b => <<a, b>> \in R \/ <<b, a>> \in R

\* Feed!IsCut and Feed!Feeds, for the order R.
CutBy(kept, all, R) ==
    /\ kept \subseteq all
    /\ \A t \in kept, u \in all \ kept : <<t, u>> \notin R
    /\ Cardinality(kept) <= MaxTribbles
    /\ kept # all => Cardinality(kept) = MaxTribbles

ListsBy(shown, kept, R) ==
    /\ shown \in [1..Cardinality(kept) -> kept]
    /\ {shown[i] : i \in DOMAIN shown} = kept
    /\ \A i, j \in DOMAIN shown : shown[i] = shown[j] => i = j
    /\ \A i, j \in DOMAIN shown : i < j => <<shown[i], shown[j]>> \notin R

FeedBy(shown, all, R) == \E kept \in SUBSET all : CutBy(kept, all, R) /\ ListsBy(shown, kept, R)

\* The members of all that are newer than x, and the place that leaves to x.
Newer(x, all, R) == {y \in all : <<x, y>> \in R}

Place(x, all, R) == Cardinality(Newer(x, all, R)) + 1

\* How long a feed is.
Size(all) == IF Cardinality(all) <= MaxTribbles THEN Cardinality(all) ELSE MaxTribbles

\* The newer one of two comes first.
LEMMA NewerFirst ==
    ASSUME NEW all, IsFiniteSet(all), NEW R, Orders(R, all), NEW a \in all, NEW b \in all
    PROVE  /\ Place(a, all, R) \in 1..Cardinality(all)
           /\ <<a, b>> \in R => Place(b, all, R) < Place(a, all, R)
<1>1. \A x \in all : /\ IsFiniteSet(Newer(x, all, R)) /\ Cardinality(Newer(x, all, R)) \in Nat
                     /\ x \notin Newer(x, all, R)
  <2> SUFFICES ASSUME NEW x \in all
               PROVE  /\ IsFiniteSet(Newer(x, all, R)) /\ Cardinality(Newer(x, all, R)) \in Nat
                      /\ x \notin Newer(x, all, R)
    OBVIOUS
  <2>1. Newer(x, all, R) \in SUBSET all /\ x \notin Newer(x, all, R)
    BY DEF Newer, Orders
  <2> QED
    BY <2>1, FS_Subset, FS_CardinalityType
<1>2. Cardinality(all) \in Nat
  BY FS_CardinalityType
<1>3. Place(a, all, R) \in 1..Cardinality(all)
  <2>1. Newer(a, all, R) \in SUBSET (all \ {a}) /\ IsFiniteSet(all \ {a})
        /\ Cardinality(all \ {a}) = Cardinality(all) - 1
    BY <1>1, FS_RemoveElement DEF Newer
  <2>2. Cardinality(Newer(a, all, R)) <= Cardinality(all) - 1
    BY <2>1, FS_Subset
  <2> QED
    BY <1>1, <1>2, <2>2 DEF Place
<1>4. ASSUME <<a, b>> \in R
      PROVE  Place(b, all, R) < Place(a, all, R)
  <2>1. Newer(b, all, R) \in SUBSET Newer(a, all, R)
    BY <1>4 DEF Newer, Orders
  <2>2. b \in Newer(a, all, R) /\ b \notin Newer(b, all, R)
    BY <1>1, <1>4 DEF Newer
  <2>3. /\ Cardinality(Newer(b, all, R)) <= Cardinality(Newer(a, all, R))
        /\ Cardinality(Newer(b, all, R)) # Cardinality(Newer(a, all, R))
    BY <1>1, <2>1, <2>2, FS_Subset
  <2> QED
    BY <1>1, <2>3 DEF Place
<1> QED
  BY <1>3, <1>4

\* In a feed everything has the place that the newer ones leave to it.
LEMMA FeedPlaces ==
    ASSUME NEW all, IsFiniteSet(all), NEW R, Orders(R, all), NEW s, FeedBy(s, all, R)
    PROVE  /\ s \in [1..Size(all) -> all]
           /\ \A i \in 1..Size(all) : Place(s[i], all, R) = i
<1>1. PICK kept \in SUBSET all : CutBy(kept, all, R) /\ ListsBy(s, kept, R)
  BY DEF FeedBy
<1>2. /\ IsFiniteSet(kept) /\ Cardinality(kept) \in Nat /\ Cardinality(all) \in Nat
      /\ Cardinality(kept) <= Cardinality(all)
      /\ Cardinality(kept) = Cardinality(all) => kept = all
  BY FS_Subset, FS_CardinalityType
<1>3. Cardinality(kept) = Size(all)
  BY <1>1, <1>2, ScriptAssumption DEF CutBy, Size
<1>4. s \in [1..Size(all) -> kept] /\ Size(all) \in Nat
  BY <1>1, <1>2, <1>3 DEF ListsBy
<1>5. ASSUME NEW i \in 1..Size(all)
      PROVE  Place(s[i], all, R) = i
  <2> DEFINE f == [j \in 1..(i - 1) |-> s[j]]
  <2>1. i \in Nat /\ i - 1 \in Nat /\ 1..(i - 1) \subseteq 1..Size(all)
    BY <1>4
  <2>2. s[i] \in kept /\ s[i] \in all
    BY <1>4
  <2>3. ASSUME NEW y \in Newer(s[i], all, R)
        PROVE  \E j \in 1..(i - 1) : y = s[j]
    <3>1. y \in all /\ <<s[i], y>> \in R
      BY DEF Newer
    <3>2. y \in kept
      BY <1>1, <2>2, <3>1 DEF CutBy
    <3>3. PICK j \in 1..Size(all) : y = s[j]
      BY <1>1, <1>4, <3>2 DEF ListsBy
    <3>4. ~(i < j)
      BY <1>1, <1>4, <3>1, <3>3 DEF ListsBy
    <3>5. i # j
      BY <2>2, <3>1, <3>3 DEF Orders
    <3>6. j \in 1..(i - 1)
      BY <2>1, <3>3, <3>4, <3>5
    <3> QED
      BY <3>3, <3>6
  <2>4. ASSUME NEW j \in 1..(i - 1)
        PROVE  s[j] \in Newer(s[i], all, R)
    <3>1. j \in 1..Size(all) /\ j < i
      BY <2>1
    <3>2. s[j] \in all /\ s[j] # s[i] /\ <<s[j], s[i]>> \notin R
      <4>1. DOMAIN s = 1..Size(all) /\ s[j] \in kept /\ i # j
        BY <1>4, <2>1, <3>1
      <4> QED
        BY <1>1, <3>1, <4>1 DEF ListsBy
    <3> QED
      BY <2>2, <3>2 DEF Orders, Newer
  <2>5. f \in Bijection(1..(i - 1), Newer(s[i], all, R))
    <3>1. f \in [1..(i - 1) -> Newer(s[i], all, R)]
      BY <2>4
    <3>2. \A a, b \in 1..(i - 1) : f[a] = f[b] => a = b
      BY <1>1, <1>4, <2>1 DEF ListsBy
    <3>3. \A y \in Newer(s[i], all, R) : \E j \in 1..(i - 1) : f[j] = y
      BY <2>3
    <3> QED
      BY <3>1, <3>2, <3>3, Fun_IsBij
  <2>6. IsFiniteSet(1..(i - 1)) /\ Cardinality(1..(i - 1)) = i - 1
    BY <2>1, FS_Interval
  <2>7. Cardinality(Newer(s[i], all, R)) = i - 1
    BY <2>5, <2>6, FS_Bijection DEF ExistsBijection
  <2> QED
    BY <2>1, <2>7 DEF Place
<1> QED
  BY <1>4, <1>5

\* There is only one feed.
LEMMA OneFeed ==
    ASSUME NEW all, IsFiniteSet(all), NEW R, Orders(R, all),
           NEW s, FeedBy(s, all, R), NEW t, FeedBy(t, all, R)
    PROVE  s = t
<1>1. /\ s \in [1..Size(all) -> all] /\ t \in [1..Size(all) -> all]
      /\ \A i \in 1..Size(all) : Place(s[i], all, R) = i /\ Place(t[i], all, R) = i
  BY FeedPlaces
<1>2. ASSUME NEW i \in 1..Size(all)
      PROVE  s[i] = t[i]
  <2>1. /\ s[i] \in all /\ t[i] \in all /\ Place(s[i], all, R) = i /\ Place(t[i], all, R) = i
        /\ i \in Int
    BY <1>1
  <2>2. <<s[i], t[i]>> \notin R /\ <<t[i], s[i]>> \notin R
    BY <2>1, NewerFirst
  <2> QED
    BY <2>1, <2>2 DEF Orders
<1>3. s = [i \in 1..Size(all) |-> s[i]] /\ t = [i \in 1..Size(all) |-> t[i]]
  BY <1>1
<1> QED
  BY <1>2, <1>3

\* There is one.
LEMMA FeedExists ==
    ASSUME NEW all, IsFiniteSet(all), NEW R, Orders(R, all)
    PROVE  \E s : FeedBy(s, all, R)
<1> DEFINE n == Cardinality(all)
           place == [x \in all |-> Place(x, all, R)]
           k == Size(all)
           s == [i \in 1..k |-> CHOOSE x \in all : place[x] = i]
           kept == {x \in all : place[x] <= k}
<1>1. /\ n \in Nat /\ k \in Nat /\ k <= n /\ k <= MaxTribbles
      /\ k # n => k = MaxTribbles
  BY FS_CardinalityType, ScriptAssumption DEF Size
<1>2. /\ place \in [all -> 1..n]
      /\ \A a, b \in all : <<a, b>> \in R => place[b] < place[a]
  BY NewerFirst
<1>3. \A a, b \in all : place[a] = place[b] => a = b
  <2> SUFFICES ASSUME NEW a \in all, NEW b \in all, place[a] = place[b]
               PROVE  a = b
    OBVIOUS
  <2>1. place[a] \in Int /\ ~(place[a] < place[b]) /\ ~(place[b] < place[a])
    BY <1>1, <1>2
  <2> QED
    BY <1>2, <2>1 DEF Orders
<1> HIDE DEF place, k
<1>4. \A i \in 1..n : \E x \in all : place[x] = i
  <2>1. place \in Injection(all, 1..n)
    BY <1>2, <1>3, Fun_IsInj
  <2>2. IsFiniteSet(1..n) /\ Cardinality(1..n) = n
    BY <1>1, FS_Interval
  <2>3. place \in Surjection(all, 1..n)
    BY <2>1, <2>2, FS_Injection
  <2> QED
    BY <2>3 DEF Surjection
<1>5. \A i \in 1..k : s[i] \in all /\ place[s[i]] = i
  BY <1>1, <1>4
<1> HIDE DEF s, n
<1>6. DOMAIN s = 1..k /\ s \in [1..k -> kept]
  <2>1. \A i \in 1..k : s[i] \in kept
    BY <1>1, <1>5
  <2> QED
    BY <2>1 DEF s
<1>7. \A i, j \in 1..k : s[i] = s[j] => i = j
  BY <1>5
<1>8. \A x \in kept : \E i \in 1..k : s[i] = x
  <2> SUFFICES ASSUME NEW x \in kept
               PROVE  s[place[x]] = x /\ place[x] \in 1..k
    OBVIOUS
  <2>1. place[x] \in 1..k
    BY <1>1, <1>2
  <2> QED
    BY <1>3, <1>5, <2>1
<1>9. Cardinality(kept) = k
  <2>1. s \in Bijection(1..k, kept)
    BY <1>6, <1>7, <1>8, Fun_IsBij
  <2>2. IsFiniteSet(1..k) /\ Cardinality(1..k) = k
    BY <1>1, FS_Interval
  <2> QED
    BY <2>1, <2>2, FS_Bijection DEF ExistsBijection
<1>10. CutBy(kept, all, R)
  <2>1. ASSUME NEW t \in kept, NEW u \in all \ kept
        PROVE  <<t, u>> \notin R
    BY <1>1, <1>2
  <2>2. kept # all => k # n
    BY <1>1, <1>9, FS_Subset DEF n
  <2> QED
    BY <1>1, <1>9, <2>1, <2>2 DEF CutBy
<1>11. ListsBy(s, kept, R)
  <2>1. {s[i] : i \in 1..k} = kept
    BY <1>6, <1>8
  <2>2. ASSUME NEW i \in 1..k, NEW j \in 1..k, i < j
        PROVE  <<s[i], s[j]>> \notin R
    <3>1. <<s[i], s[j]>> \in R => j < i
      BY <1>2, <1>5
    <3> QED
      BY <1>1, <2>2, <3>1
  <2> QED
    BY <1>6, <1>7, <1>9, <2>1, <2>2 DEF ListsBy
<1>12. kept \in SUBSET all
  OBVIOUS
<1> QED
  BY <1>10, <1>11, <1>12 DEF FeedBy

\* Renaming what is listed renames the feed.
LEMMA FeedRenamed ==
    ASSUME NEW all, IsFiniteSet(all), NEW R, NEW s, FeedBy(s, all, R), NEW h, DOMAIN h = all,
           NEW Q, \A x, y \in all : <<x, y>> \in R <=> <<h[x], h[y]>> \in Q,
           \A x, y \in all : h[x] = h[y] => x = y
    PROVE  FeedBy([i \in DOMAIN s |-> h[s[i]]], {h[x] : x \in all}, Q)
<1>1. PICK kept \in SUBSET all : CutBy(kept, all, R) /\ ListsBy(s, kept, R)
  BY DEF FeedBy
<1> DEFINE t == [i \in DOMAIN s |-> h[s[i]]]
           same == {h[x] : x \in kept}
           names == {h[x] : x \in all}
           g == [x \in kept |-> h[x]]
<1>2. IsFiniteSet(kept)
  BY FS_Subset
<1>3. Cardinality(same) = Cardinality(kept)
  <2>1. /\ g \in [kept -> same] /\ \A x, y \in kept : g[x] = g[y] => x = y
        /\ \A z \in same : \E x \in kept : g[x] = z
    OBVIOUS
  <2>2. g \in Bijection(kept, same)
    BY <2>1, Fun_IsBij
  <2> QED
    BY <1>2, <2>2, FS_Bijection DEF ExistsBijection
<1>4. /\ DOMAIN s = 1..Cardinality(kept) /\ \A i \in DOMAIN s : s[i] \in kept /\ s[i] \in all
      /\ {s[i] : i \in DOMAIN s} = kept
      /\ \A i, j \in DOMAIN s : s[i] = s[j] => i = j
      /\ \A i, j \in DOMAIN s : i < j => <<s[i], s[j]>> \notin R
  BY <1>1 DEF ListsBy
<1>5. DOMAIN t = DOMAIN s /\ \A i \in DOMAIN s : t[i] = h[s[i]]
  OBVIOUS
<1>6. \A x \in all : h[x] \in same <=> x \in kept
  OBVIOUS
<1> HIDE DEF g
<1>7. CutBy(same, names, Q)
  <2>1. same \subseteq names
    OBVIOUS
  <2>2. ASSUME NEW a \in same, NEW b \in names \ same
        PROVE  <<a, b>> \notin Q
    <3>1. PICK x \in kept : a = h[x]
      OBVIOUS
    <3>2. PICK y \in all \ kept : b = h[y]
      BY <1>6
    <3>3. <<x, y>> \notin R
      BY <1>1, <3>1, <3>2 DEF CutBy
    <3> QED
      BY <3>1, <3>2, <3>3
  <2>3. same # names => kept # all
    OBVIOUS
  <2> QED
    BY <1>1, <1>3, <2>1, <2>2, <2>3 DEF CutBy
<1>8. ListsBy(t, same, Q)
  <2>1. t \in [1..Cardinality(same) -> same]
    BY <1>3, <1>4, <1>5
  <2>2. {t[i] : i \in DOMAIN t} = same
    BY <1>4, <1>5
  <2>3. \A i, j \in DOMAIN t : t[i] = t[j] => i = j
    BY <1>4, <1>5
  <2>4. \A i, j \in DOMAIN t : i < j => <<t[i], t[j]>> \notin Q
    BY <1>4, <1>5
  <2> QED
    BY <2>1, <2>2, <2>3, <2>4 DEF ListsBy
<1> QED
  BY <1>7, <1>8 DEF FeedBy

-----------------------------------------------------------------------------
(* Tribbles and their numbers.                                              *)

\* The later of two tribbles does not come before the earlier one, in a chain neither.
LEMMA StampsSort ==
    ASSUME NEW a \in Stamp, NEW b \in Stamp, PostedLess(a, b)
    PROVE  /\ ~PostedLess(b, a)
           /\ \A c \in Stamp : PostedLess(b, c) => PostedLess(a, c)
<1>1. \A v, w \in Stamp : PostedLess(v, w) <=>
         \E i \in Server : v[i] < w[i] /\ \A j \in Server : j < i => v[j] = w[j]
  BY DEF PostedLess, Stamp
<1>2. \A v \in Stamp : \A i \in Server : v[i] \in Nat
  BY DEF Stamp
<1>3. Server \subseteq Nat
  BY NAssumption DEF Server
<1>4. PICK i \in Server : a[i] < b[i] /\ \A j \in Server : j < i => a[j] = b[j]
  BY <1>1
<1>5. ASSUME PostedLess(b, a)
      PROVE  FALSE
  <2>1. PICK k \in Server : b[k] < a[k] /\ \A j \in Server : j < k => b[j] = a[j]
    BY <1>1, <1>5
  <2>2. i < k \/ k < i \/ i = k
    BY <1>3
  <2> QED
    BY <1>2, <1>4, <2>1, <2>2
<1>6. ASSUME NEW c \in Stamp, PostedLess(b, c)
      PROVE  PostedLess(a, c)
  <2>1. PICK k \in Server : b[k] < c[k] /\ \A j \in Server : j < k => b[j] = c[j]
    BY <1>1, <1>6
  <2>2. CASE i < k
    <3>1. a[i] < c[i] /\ \A j \in Server : j < i => a[j] = c[j]
      BY <1>2, <1>3, <1>4, <2>1, <2>2
    <3> QED
      BY <1>1, <3>1
  <2>3. CASE k < i
    <3>1. a[k] < c[k] /\ \A j \in Server : j < k => a[j] = c[j]
      BY <1>2, <1>3, <1>4, <2>1, <2>3
    <3> QED
      BY <1>1, <3>1
  <2>4. CASE i = k
    <3>1. a[i] < c[i]
      BY <1>2, <1>4, <2>1, <2>4
    <3>2. \A j \in Server : j < i => a[j] = c[j]
      BY <1>4, <2>1, <2>4
    <3> QED
      BY <1>1, <3>1, <3>2
  <2> QED
    BY <1>3, <2>2, <2>3, <2>4
<1> QED
  BY <1>5, <1>6

\* Tribbles of a store, any two of which can be compared.
Sorted(T) ==
    /\ IsFiniteSet(T)
    /\ \A t \in T : t.msg.vt \in Stamp
    /\ \A a, b \in T : a # b => PostedLess(a.msg.vt, b.msg.vt) \/ PostedLess(b.msg.vt, a.msg.vt)

Sooner(T, msg) == {t \in T : PostedLess(t.msg.vt, msg.vt)}

\* Number, Numbered and NetPosts for the tribbles T.
NumberIn(T, msg) == Cardinality(Sooner(T, msg)) + 1

NumberedIn(T, user, msg) == [user |-> user, contents |-> msg.value, no |-> NumberIn(T, msg)]

PostsIn(T) == {NumberedIn(T, t.key[1], t.msg) : t \in T}

\* Numbers go up with the stamps.
LEMMA NumbersSort ==
    ASSUME NEW T, Sorted(T), NEW a \in T, NEW b \in T
    PROVE  /\ NumberIn(T, a.msg) \in Nat /\ NumberIn(T, b.msg) \in Nat
           /\ NumberIn(T, a.msg) < NumberIn(T, b.msg) <=> PostedLess(a.msg.vt, b.msg.vt)
           /\ NumberIn(T, a.msg) = NumberIn(T, b.msg) => a = b
<1>1. \A m : IsFiniteSet(Sooner(T, m)) /\ Cardinality(Sooner(T, m)) \in Nat
  <2> SUFFICES ASSUME NEW m
               PROVE  IsFiniteSet(Sooner(T, m)) /\ Cardinality(Sooner(T, m)) \in Nat
    OBVIOUS
  <2>1. Sooner(T, m) \in SUBSET T
    BY DEF Sooner
  <2> QED
    BY <2>1, FS_Subset, FS_CardinalityType DEF Sorted
<1>2. ASSUME NEW x \in T, NEW y \in T, PostedLess(x.msg.vt, y.msg.vt)
      PROVE  Cardinality(Sooner(T, x.msg)) < Cardinality(Sooner(T, y.msg))
  <2>1. x.msg.vt \in Stamp /\ y.msg.vt \in Stamp
    BY DEF Sorted
  <2>2. ~PostedLess(x.msg.vt, x.msg.vt)
    BY <2>1, StampsSort
  <2>3. Sooner(T, x.msg) \in SUBSET Sooner(T, y.msg)
    <3> SUFFICES ASSUME NEW t \in T, PostedLess(t.msg.vt, x.msg.vt)
                 PROVE  PostedLess(t.msg.vt, y.msg.vt)
      BY DEF Sooner
    <3>1. t.msg.vt \in Stamp
      BY DEF Sorted
    <3> QED
      BY <1>2, <2>1, <3>1, StampsSort
  <2>4. x \in Sooner(T, y.msg) /\ x \notin Sooner(T, x.msg)
    BY <1>2, <2>2 DEF Sooner
  <2>5. /\ Cardinality(Sooner(T, x.msg)) <= Cardinality(Sooner(T, y.msg))
        /\ Cardinality(Sooner(T, x.msg)) = Cardinality(Sooner(T, y.msg)) =>
              Sooner(T, x.msg) = Sooner(T, y.msg)
    BY <1>1, <2>3, FS_Subset
  <2> QED
    BY <1>1, <2>4, <2>5
<1>3. \/ a = b
      \/ PostedLess(a.msg.vt, b.msg.vt) /\ Cardinality(Sooner(T, a.msg)) < Cardinality(Sooner(T, b.msg))
      \/ PostedLess(b.msg.vt, a.msg.vt) /\ Cardinality(Sooner(T, b.msg)) < Cardinality(Sooner(T, a.msg))
  BY <1>2 DEF Sorted
<1>4. PostedLess(a.msg.vt, b.msg.vt) => Cardinality(Sooner(T, a.msg)) < Cardinality(Sooner(T, b.msg))
  BY <1>2
<1>5. a.msg.vt \in Stamp /\ b.msg.vt \in Stamp
  BY DEF Sorted
<1> QED
  BY <1>1, <1>3, <1>4 DEF NumberIn

\* There are as many numbered posts as tribbles.
LEMMA PostsCounted ==
    ASSUME NEW T, Sorted(T)
    PROVE  Cardinality(PostsIn(T)) = Cardinality(T)
<1> DEFINE f == [t \in T |-> NumberedIn(T, t.key[1], t.msg)]
<1>1. f \in [T -> PostsIn(T)]
  BY DEF PostsIn
<1>2. \A a, b \in T : f[a] = f[b] => a = b
  <2> SUFFICES ASSUME NEW a \in T, NEW b \in T, f[a] = f[b]
               PROVE  a = b
    OBVIOUS
  <2>1. NumberIn(T, a.msg) = NumberIn(T, b.msg)
    BY DEF NumberedIn
  <2> QED
    BY <2>1, NumbersSort
<1>3. \A p \in PostsIn(T) : \E t \in T : f[t] = p
  BY DEF PostsIn
<1>4. f \in Bijection(T, PostsIn(T))
  BY <1>1, <1>2, <1>3, Fun_IsBij
<1> QED
  BY <1>4, FS_Bijection DEF ExistsBijection, Sorted

\* The newest tribble gets the next number, and the others keep theirs.
LEMMA NextNumber ==
    ASSUME NEW T, Sorted(T), NEW z, z.msg.vt \in Stamp,
           \A t \in T : PostedLess(t.msg.vt, z.msg.vt)
    PROVE  /\ Sorted(T \cup {z})
           /\ \A t \in T : NumberIn(T \cup {z}, t.msg) = NumberIn(T, t.msg)
           /\ NumberIn(T \cup {z}, z.msg) = Cardinality(T) + 1
           /\ PostsIn(T \cup {z}) =
                 PostsIn(T) \cup {[user |-> z.key[1], contents |-> z.msg.value,
                                   no |-> Cardinality(PostsIn(T)) + 1]}
<1>1. Sorted(T \cup {z})
  <2>1. IsFiniteSet(T \cup {z})
    BY FS_AddElement DEF Sorted
  <2> QED
    BY <2>1 DEF Sorted
<1>2. ~PostedLess(z.msg.vt, z.msg.vt)
  BY StampsSort
<1>3. \A t \in T : NumberIn(T \cup {z}, t.msg) = NumberIn(T, t.msg)
  <2> SUFFICES ASSUME NEW t \in T
               PROVE  Sooner(T \cup {z}, t.msg) = Sooner(T, t.msg)
    BY DEF NumberIn
  <2>1. t.msg.vt \in Stamp /\ PostedLess(t.msg.vt, z.msg.vt)
    BY DEF Sorted
  <2>2. ~PostedLess(z.msg.vt, t.msg.vt)
    BY <2>1, StampsSort
  <2> QED
    BY <2>2 DEF Sooner
<1>4. NumberIn(T \cup {z}, z.msg) = Cardinality(T) + 1
  <2>1. Sooner(T \cup {z}, z.msg) = T
    BY <1>2 DEF Sooner
  <2> QED
    BY <2>1 DEF NumberIn
<1>5. PostsIn(T \cup {z}) = {NumberedIn(T \cup {z}, t.key[1], t.msg) : t \in T}
                            \cup {NumberedIn(T \cup {z}, z.key[1], z.msg)}
  BY DEF PostsIn
<1>6. {NumberedIn(T \cup {z}, t.key[1], t.msg) : t \in T} = PostsIn(T)
  BY <1>3 DEF PostsIn, NumberedIn
<1>7. NumberedIn(T \cup {z}, z.key[1], z.msg) =
         [user |-> z.key[1], contents |-> z.msg.value, no |-> Cardinality(PostsIn(T)) + 1]
  BY <1>4, PostsCounted DEF NumberedIn
<1> QED
  BY <1>1, <1>3, <1>4, <1>5, <1>6, <1>7

-----------------------------------------------------------------------------
(* Feeds of the store and of the network.                                   *)

\* The feeds of Feed are those in the order R, when R is the order it is given.
LEMMA StoreFeeds ==
    ASSUME NEW all, NEW R, \A x, y \in all : <<x, y>> \in R <=> PostedBefore(x, y), NEW s
    PROVE  s \in F!Feeds(all) <=> FeedBy(s, all, R)
<1>1. \A kept \in SUBSET all : F!IsCut(kept, all) <=> CutBy(kept, all, R)
  BY DEF F!IsCut, F!AreNewest, CutBy, F!Cardinality, Cardinality
<1>2. ASSUME NEW kept \in SUBSET all
      PROVE  s \in [1..F!Cardinality(kept) -> kept] /\ F!Lists(s, kept) /\ F!NewestFirst(s)
             <=> ListsBy(s, kept, R)
  <2>1. F!Cardinality(kept) = Cardinality(kept)
    BY DEF F!Cardinality, Cardinality
  <2>2. ASSUME s \in [1..Cardinality(kept) -> kept]
        PROVE  \A i, j \in DOMAIN s : <<s[i], s[j]>> \in R <=> PostedBefore(s[i], s[j])
    BY <2>2
  <2> QED
    BY <2>1, <2>2 DEF ListsBy, F!Lists, F!NewestFirst
<1>3. s \in F!Feeds(all) <=>
         \E kept \in SUBSET all :
            /\ F!IsCut(kept, all)
            /\ s \in [1..F!Cardinality(kept) -> kept] /\ F!Lists(s, kept) /\ F!NewestFirst(s)
  BY DEF F!Feeds
<1> QED
  BY <1>1, <1>2, <1>3 DEF FeedBy

\* So do the feeds of the network, whose tribbles carry numbers in place of stamps.
LEMMA NetFeeds ==
    ASSUME NEW all, NEW R, \A x, y \in all : <<x, y>> \in R <=> x.no < y.no, NEW s
    PROVE  s \in Net!F!Feeds(all) <=> FeedBy(s, all, R)
<1>1. \A kept \in SUBSET all : Net!F!IsCut(kept, all) <=> CutBy(kept, all, R)
  BY DEF Net!F!IsCut, Net!F!AreNewest, Net!PostedBefore, CutBy, Net!F!Cardinality, Cardinality
<1>2. ASSUME NEW kept \in SUBSET all
      PROVE  s \in [1..Net!F!Cardinality(kept) -> kept] /\ Net!F!Lists(s, kept)
             /\ Net!F!NewestFirst(s)
             <=> ListsBy(s, kept, R)
  <2>1. Net!F!Cardinality(kept) = Cardinality(kept)
    BY DEF Net!F!Cardinality, Cardinality
  <2>2. ASSUME s \in [1..Cardinality(kept) -> kept]
        PROVE  \A i, j \in DOMAIN s : <<s[i], s[j]>> \in R <=> s[i].no < s[j].no
    BY <2>2
  <2> QED
    BY <2>1, <2>2 DEF ListsBy, Net!F!Lists, Net!F!NewestFirst, Net!PostedBefore
<1>3. s \in Net!F!Feeds(all) <=>
         \E kept \in SUBSET all :
            /\ Net!F!IsCut(kept, all)
            /\ s \in [1..Net!F!Cardinality(kept) -> kept] /\ Net!F!Lists(s, kept)
            /\ Net!F!NewestFirst(s)
  BY DEF Net!F!Feeds
<1> QED
  BY <1>1, <1>2, <1>3 DEF FeedBy

\* What was found is in the store.
AsStored(t) == [key |-> TribbleKey(t.user), msg |-> t.item]

FromStore(T, all) ==
    /\ IsFiniteSet(all)
    /\ \A t \in all : /\ t = Tribble(t.user, t.item) /\ ToMessage(t.item) = t.item
                      /\ AsStored(t) \in T

\* The same tribbles, as the network has them.
NumberAll(T, all) == {NumberedIn(T, t.user, ToMessage(t.item)) : t \in all}

\* A feed of what was found in the store is, stamps apart, the only one, and the one
\* the network shows.
LEMMA FeedsAgree ==
    ASSUME NEW T, Sorted(T), NEW all, FromStore(T, all)
    PROVE  /\ FeedOf(all) = Net!FeedOf(NumberAll(T, all))
           /\ \A tribbles : Shows(all, tribbles) => Unstamped(tribbles) = FeedOf(all)
<1> DEFINE h == [t \in all |-> NumberedIn(T, t.user, ToMessage(t.item))]
           H == NumberAll(T, all)
           R == {p \in all \X all : PostedBefore(p[1], p[2])}
           Q == {p \in H \X H : p[1].no < p[2].no}
<1>1. /\ \A x, y \in all : <<x, y>> \in R <=> PostedBefore(x, y)
      /\ \A x, y \in H : <<x, y>> \in Q <=> x.no < y.no
  OBVIOUS
<1>2. H = {h[x] : x \in all} /\ \A x \in all : h[x] \in H
  BY DEF NumberAll
<1>3. ASSUME NEW x \in all, NEW y \in all
      PROVE  /\ h[x].no \in Nat /\ h[y].no \in Nat
             /\ h[x].no < h[y].no <=> PostedBefore(x, y)
             /\ h[x].no = h[y].no => x = y
  <2>1. /\ AsStored(x) \in T /\ AsStored(y) \in T
        /\ AsStored(x).msg = x.item /\ AsStored(y).msg = y.item
        /\ ToMessage(x.item) = x.item /\ ToMessage(y.item) = y.item
        /\ x = Tribble(x.user, x.item) /\ y = Tribble(y.user, y.item)
    BY DEF FromStore, AsStored
  <2>2. h[x].no = NumberIn(T, x.item) /\ h[y].no = NumberIn(T, y.item)
    BY <2>1 DEF NumberedIn
  <2>3. AsStored(x) = AsStored(y) => x = y
    BY <2>1 DEF AsStored, TribbleKey, Tribble
  <2> HIDE DEF h
  <2> QED
    BY <2>1, <2>2, <2>3, NumbersSort DEF PostedBefore
<1>4. /\ \A x, y \in all : h[x] = h[y] => x = y
      /\ \A x, y \in all : <<x, y>> \in R <=> <<h[x], h[y]>> \in Q
  BY <1>1, <1>2, <1>3
<1>5. IsFiniteSet(all) /\ IsFiniteSet(H)
  <2>1. IsFiniteSet(all)
    BY DEF FromStore
  <2> HIDE DEF h, H
  <2>2. DOMAIN h = all
    BY DEF h
  <2>3. h \in Bijection(all, H)
    <3>1. h \in [all -> H]
      <4>1. h = [x \in all |-> h[x]]
        BY <2>2 DEF h
      <4> QED
        BY <1>2, <4>1
    <3> QED
      BY <1>2, <1>4, <3>1, Fun_IsBij
  <2> QED
    BY <2>1, <2>3, FS_Bijection DEF ExistsBijection
<1>6. Orders(R, all)
  <2>1. \A x, y \in all : <<x, y>> \in R <=> h[x].no < h[y].no
    BY <1>1, <1>3
  <2> HIDE DEF h, R
  <2> QED
    BY <1>3, <2>1 DEF Orders
<1>7. Orders(Q, H)
  <2> HIDE DEF h, Q, H, R
  <2>1. \A x, y \in H : \E a, b \in all : x = h[a] /\ y = h[b]
    BY <1>2
  <2>2. \A x \in H : x.no \in Nat
    BY <1>2, <1>3
  <2>3. \A x, y \in H : x # y => x.no # y.no
    BY <1>3, <2>1
  <2> QED
    BY <1>1, <2>2, <2>3 DEF Orders
<1> HIDE DEF R, Q, H
<1>8. PICK s : FeedBy(s, all, R)
  BY <1>5, <1>6, FeedExists
<1>9. F!Feeds(all) = {s}
  <2>1. \A t : t \in F!Feeds(all) <=> FeedBy(t, all, R)
    BY <1>1, StoreFeeds
  <2>2. \A t : FeedBy(t, all, R) => t = s
    BY <1>5, <1>6, <1>8, OneFeed
  <2> QED
    BY <1>8, <2>1, <2>2
<1> DEFINE g == [i \in DOMAIN s |-> h[s[i]]]
<1>10. FeedBy(g, H, Q)
  <2>1. DOMAIN h = all
    OBVIOUS
  <2> HIDE DEF h
  <2> QED
    BY <1>2, <1>4, <1>5, <1>8, <2>1, FeedRenamed
<1>11. Net!F!Feeds(H) = {g}
  <2> HIDE DEF g, h
  <2>1. \A t : t \in Net!F!Feeds(H) <=> FeedBy(t, H, Q)
    BY <1>1, NetFeeds
  <2>2. \A t : FeedBy(t, H, Q) => t = g
    BY <1>5, <1>7, <1>10, OneFeed
  <2> QED
    BY <1>10, <2>1, <2>2
<1> DEFINE shown == [i \in DOMAIN s |-> Shown(s[i])]
<1>12. FeedOf(all) = Unstamped(shown)
  <2> DEFINE feed == CHOOSE t \in F!Feeds(all) : TRUE
  <2>1. feed = s
    BY <1>9
  <2>2. FeedOf(all) = Unstamped([n \in DOMAIN feed |-> Shown(feed[n])])
    BY DEF FeedOf
  <2> HIDE DEF feed
  <2> QED
    BY <2>1, <2>2
<1>13. \A tribbles : Shows(all, tribbles) => tribbles = shown
  BY <1>9 DEF Shows
<1>14. \A i \in DOMAIN s : s[i] \in all
  <2>1. s \in [1..Size(all) -> all]
    BY <1>5, <1>6, <1>8, FeedPlaces
  <2> QED
    BY <2>1
<1>15. Net!FeedOf(H) = Unstamped(shown)
  <2>1. (CHOOSE t \in Net!F!Feeds(H) : TRUE) = g
    BY <1>11
  <2>2. Net!FeedOf(H) = [n \in DOMAIN g |-> [user |-> g[n].user, contents |-> g[n].contents]]
    BY <2>1 DEF Net!FeedOf
  <2>3. ASSUME NEW n \in DOMAIN s
        PROVE  /\ g[n].user = shown[n].user
               /\ g[n].contents = shown[n].item.value
    <3>1. s[n] \in all /\ s[n] = Tribble(s[n].user, s[n].item)
      BY <1>14 DEF FromStore
    <3>2. Shown(s[n]).user = s[n].user /\ Shown(s[n]).item = ToMessage(s[n].item)
      BY <3>1 DEF Shown, Tribble
    <3> QED
      BY <3>1, <3>2 DEF NumberedIn
  <2>4. DOMAIN g = DOMAIN s /\ DOMAIN shown = DOMAIN s
    OBVIOUS
  <2> HIDE DEF g, shown
  <2> QED
    BY <2>2, <2>3, <2>4 DEF Unstamped
<1> QED
  BY <1>12, <1>13, <1>15 DEF H

-----------------------------------------------------------------------------
(* What a client waits for, seen through its operation w, its call k, and   *)
(* r, the status that Hub has decided on, "none" before it has.             *)

\* Hub has written for c and is telling its peers.
HubBusy(c) == pc[Hub] = "bcast" /\ job[Hub].from = c

\* What Hub has decided on for c, at the latest when it has answered.
Result(c) == IF Answered(c) THEN call[c].status ELSE IF HubBusy(c) THEN "OK" ELSE "none"

SubsIn(k) == {item.value : item \in k.values}

ListIn(k, u) == {Tribble(u, item) : item \in k.values}

\* LeftOf, FoundBy, AnswerOf and DoingOf of the refinement mapping as functions of w, k, r
\* and of T, the tribbles stored.
LeftIn(w, k, r) ==
    CASE w.stage = "subs" /\ r # "none"  -> SubsIn(k)
      [] w.stage = "posts" /\ r # "none" -> w.subs \ {k.op.key[1]}
      [] OTHER -> w.subs

FoundIn(w, k, r) ==
    w.found \cup (IF w.stage = "posts" /\ r # "none" THEN ListIn(k, k.op.key[1]) ELSE {})

AnswerIn(w, k, r) ==
    LET there == k.status # "EKEYNOTFOUND"
    IN  IF r = "none" THEN Open
        ELSE CASE w.stage = "user" /\ w.task.op = "CreateUser" -> CheckDecides(there, "EEXISTS")
          [] w.stage = "user" /\ w.task.op # "CreateUser" -> CheckDecides(~there, "INVALID_USER")
          [] w.stage = "other" ->
                CheckDecides(~there \/ (w.task.op = "AddSubscription" /\ w.task.user = w.task.arg),
                             "INVALID_SUBSCRIBETO")
          [] w.stage = "write" -> Answering(WriteStatus(w.task.op, r), <<>>, {})
          [] w.stage = "read" -> Answering("OK", FeedOf(ListIn(k, w.task.user)), {})
          [] w.stage = "subs" /\ w.task.op = "GetSubscriptions" ->
                Answering("OK", <<>>, SubsIn(k))
          [] w.stage \in {"subs", "posts"} /\ w.task.op # "GetSubscriptions"
                /\ LeftIn(w, k, r) = {} ->
                Answering("OK", FeedOf(FoundIn(w, k, r)), {})
          [] OTHER -> Open

DoingIn(T, w, k, r) ==
    IF k.st = "idle" THEN Net!Nothing
    ELSE Net!Doing(w.task, w.no, AnswerIn(w, k, r),
                   IF AnswerIn(w, k, r) = Open THEN LeftIn(w, k, r) ELSE {},
                   IF AnswerIn(w, k, r) = Open THEN NumberAll(T, FoundIn(w, k, r)) ELSE {})

\* The server of the mapping is the one of the earlier proofs.
LEMMA HomeIsHub == Home = Hub
  BY DEF Home, Hub

\* That is how the refinement mapping sees it, before a step and after it.
LEMMA DoingSeen ==
    ASSUME NEW c \in Client, TypeOK, TypeOK'
    PROVE  /\ DoingOf(c) = DoingIn(Tribbles(Hub), work[c], call[c], Result(c))
           /\ DoingOf(c)' = DoingIn(Tribbles(Hub)', work'[c], call'[c], Result(c)')
           /\ NetPosts = PostsIn(Tribbles(Hub)) /\ NetPosts' = PostsIn(Tribbles(Hub)')
<1>1. call[c].status # "none" /\ call'[c].status # "none"
  BY DEF TypeOK, Call, Status, Proc
<1>2. /\ IsHandled(c) <=> Result(c) # "none"
      /\ IsHandled(c)' <=> Result(c)' # "none"
  BY <1>1, HomeIsHub DEF IsHandled, Result, HubBusy
<1>3. /\ IsHandled(c) => HandledStatus(c) = Result(c)
      /\ IsHandled(c)' => HandledStatus(c)' = Result(c)'
  BY <1>1, <1>2, HomeIsHub DEF HandledStatus, Result, HubBusy, IsHandled
<1>4. /\ LeftOf(c) = LeftIn(work[c], call[c], Result(c))
      /\ LeftOf(c)' = LeftIn(work'[c], call'[c], Result(c)')
  BY <1>2 DEF LeftOf, LeftIn, Subscriptions, SubsIn
<1>5. /\ FoundBy(c) = FoundIn(work[c], call[c], Result(c))
      /\ FoundBy(c)' = FoundIn(work'[c], call'[c], Result(c)')
  BY <1>2 DEF FoundBy, FoundIn, Listed, ListIn
<1>6. AnswerOf(c) = AnswerIn(work[c], call[c], Result(c))
  BY <1>2, <1>3, <1>4, <1>5
     DEF AnswerOf, AnswerIn, Exists, User, Arg, Subscriptions, SubsIn, Listed, ListIn
<1>7. AnswerOf(c)' = AnswerIn(work'[c], call'[c], Result(c)')
  BY <1>2, <1>3, <1>4, <1>5
     DEF AnswerOf, AnswerIn, Exists, User, Arg, Subscriptions, SubsIn, Listed, ListIn
<1>8. /\ \A msg : Number(msg) = NumberIn(Tribbles(Hub), msg)
      /\ \A msg : Number(msg)' = NumberIn(Tribbles(Hub)', msg)
  BY HomeIsHub DEF Number, NumberIn, Sooner
<1>9. /\ \A user, msg : Numbered(user, msg) = NumberedIn(Tribbles(Hub), user, msg)
      /\ \A user, msg : Numbered(user, msg)' = NumberedIn(Tribbles(Hub)', user, msg)
  BY <1>8 DEF Numbered, NumberedIn
<1>10. /\ {Numbered(t.user, ToMessage(t.item)) : t \in FoundBy(c)} =
             NumberAll(Tribbles(Hub), FoundIn(work[c], call[c], Result(c)))
       /\ {Numbered(t.user, ToMessage(t.item)) : t \in FoundBy(c)}' =
             NumberAll(Tribbles(Hub)', FoundIn(work'[c], call'[c], Result(c)'))
  BY <1>5, <1>9 DEF NumberAll
<1>11. NetPosts = PostsIn(Tribbles(Hub)) /\ NetPosts' = PostsIn(Tribbles(Hub)')
  BY <1>9, HomeIsHub DEF NetPosts, PostsIn
<1>12. /\ Net!Nothing = [task |-> [op |-> "none", user |-> "", arg |-> ""], no |-> 0,
                        answer |-> Open, left |-> {}, found |-> {}]
       /\ \A task, no, answer, left, found :
             Net!Doing(task, no, answer, left, found) =
                [task |-> task, no |-> no, answer |-> answer, left |-> left, found |-> found]
  BY DEF Net!Nothing, Net!Doing, Net!NoAnswer, Net!Status, Net!Answer, Open, Answering
<1>13. DoingOf(c) = DoingIn(Tribbles(Hub), work[c], call[c], Result(c))
  BY <1>4, <1>6, <1>10, <1>12 DEF DoingOf, DoingIn, Idle
<1>14. DoingOf(c)' = DoingIn(Tribbles(Hub)', work'[c], call'[c], Result(c)')
  BY <1>4, <1>7, <1>10, <1>12 DEF DoingOf, DoingIn, Idle
<1> QED
  BY <1>11, <1>13, <1>14

\* Before the answer is decided, and from then on.
LEMMA DoingStages ==
    ASSUME NEW T, NEW w, NEW k, k.st # "idle", NEW r
    PROVE  /\ r = "none" =>
                 DoingIn(T, w, k, r) = Net!Doing(w.task, w.no, Open, w.subs, NumberAll(T, w.found))
           /\ AnswerIn(w, k, r) = Open =>
                 DoingIn(T, w, k, r) = Net!Doing(w.task, w.no, Open, LeftIn(w, k, r),
                                                 NumberAll(T, FoundIn(w, k, r)))
           /\ AnswerIn(w, k, r) # Open =>
                 DoingIn(T, w, k, r) = Net!Doing(w.task, w.no, AnswerIn(w, k, r), {}, {})
<1>1. r = "none" => /\ AnswerIn(w, k, r) = Open /\ LeftIn(w, k, r) = w.subs
                    /\ FoundIn(w, k, r) = w.found
  BY DEF AnswerIn, LeftIn, FoundIn
<1> QED
  BY <1>1 DEF DoingIn

-----------------------------------------------------------------------------
(* A step of a server, by what Hub does for the clients.                    *)

\* Hub writes nothing.
HubKeeps == simple'[Hub] = simple[Hub] /\ lists'[Hub] = lists[Hub]

\* Nothing happens to the calls of clients outside P.
CallsKeep(P) == \A d \in Client \ P : call'[d] = call[d] /\ (HubBusy(d)' <=> HubBusy(d))

\* h is the request that c has sent.
Asking(c, h) ==
    /\ h \in Request /\ h.from = c
    /\ call[c].op.kind = h.kind /\ call[c].op.key = h.key /\ call[c].op.item = h.item

\* It answers c, without a write or because it refuses one.

\* Hub answers c without having written; it writes for c and goes on to tell its peers;
\* it has told them and answers.
HubReplies(c) ==
    /\ HubKeeps /\ CallsKeep({c}) /\ ~HubBusy(c) /\ ~HubBusy(c)'
    /\ \E status, values, h : Gets(c, status, values) /\ Asking(c, h) /\ Says(Hub, h, status, values)

\* It stores what c writes, and has then to tell its peers.
HubTakes(c) ==
    /\ CallsKeep({c}) /\ call'[c] = call[c] /\ Waiting(c) /\ ~HubBusy(c) /\ HubBusy(c)'
    /\ \E h, r : Asking(c, h) /\ Writes(h) /\ Stores(Hub, h, r)

\* It has told them.
HubEnds(c) ==
    /\ HubKeeps /\ CallsKeep({c}) /\ HubBusy(c) /\ ~HubBusy(c)' /\ Gets(c, "OK", {})
    /\ call[c].op.kind \notin {"Get", "GetList"}

\* There are no other steps that matter to a client.
LEMMA HubStep ==
    ASSUME OneEntryOnly, HubInv, faults = 0, faults' = 0,
           NEW s \in Server, Boot(s) \/ ServerStep(s) \/ Crash(s)
    PROVE  \/ HubKeeps /\ CallsKeep({})
           \/ \E c \in Client : HubReplies(c) \/ HubTakes(c) \/ HubEnds(c)
<1>1. /\ CoreInv /\ TypeOK /\ TypeInv /\ Up /\ Rep(AtHub) /\ RoutesInv
      /\ Hub \in Server /\ \A d \in Client : Entry[d] = Hub
  BY HubServes DEF HubInv, BaseInv, UpInv, TribblerInv, CoreInv, TypeInv
<1>2. \A d \in Client : d \in Proc /\ d \notin Server
  BY ClusterAssumption DEF Proc
<1> DEFINE h == Head(inbox[s])
<1>3. CASE Serves(s, h)
  <2>1. /\ pc[s] = "serve" /\ inbox[s] # <<>> /\ Asks(h) /\ h.from # s
        /\ \A t \in Server \ {s} : simple'[t] = simple[t] /\ lists'[t] = lists[t]
        /\ Refuses(s, h) \/ Obeys(s, h) \/ Accepts(s, h)
    BY <1>3 DEF Serves
  <2>2. h.from \in Client => s = Hub
    <3>1. inbox[s] \in Seq(Request) /\ inbox[s] # <<>>
      BY <1>1, <2>1 DEF TypeOK
    <3>2. 1 \in DOMAIN inbox[s] /\ inbox[s][1] = h
      BY <3>1
    <3> QED
      BY <1>1, <3>2 DEF RoutesInv, RouteOK
  <2>3. h.from \in Proc /\ h \in Request
    BY <2>1 DEF Asks, Request
  <2> HIDE DEF h
  <2>4. CASE h.from \in Client /\ Refuses(s, h)
    <3>0. PICK c \in Client : c = h.from
      BY <2>4
    <3>1. UNCHANGED <<pc, job, simple, lists>> /\ OthersKeep({c})
      BY <2>4, <3>0 DEF Refuses
    <3>2. PICK status, values : Gets(c, status, values) /\ Says(s, h, status, values)
      BY <2>4, <3>0 DEF Refuses
    <3>3. ~HubBusy(c)
      BY <2>1, <2>2, <2>4, <3>0 DEF HubBusy
    <3>4. HubReplies(c)
      BY <1>2, <2>1, <2>2, <2>4, <3>0, <3>1, <3>2, <3>3
         DEF HubReplies, HubKeeps, CallsKeep, OthersKeep, Asking, Asks, HubBusy
    <3> QED
      BY <3>4
  <2>5. CASE h.from \in Client /\ Accepts(s, h)
    <3>0. PICK c \in Client : c = h.from
      BY <2>5
    <3>1. /\ pc[Hub] = "serve" /\ pc'[Hub] = "bcast" /\ job'[Hub].from = c
          /\ OthersKeep({}) /\ Waiting(c) /\ Writes(h) /\ Stores(Hub, h, job'[Hub])
      BY <2>1, <2>2, <2>5, <3>0 DEF Accepts, Asks
    <3>2. CallsKeep({c}) /\ call'[c] = call[c] /\ ~HubBusy(c) /\ HubBusy(c)'
      <4>1. \A d \in Client : call'[d] = call[d]
        BY <1>2, <3>1 DEF OthersKeep
      <4>2. \A d \in Client : ~HubBusy(d) /\ (HubBusy(d)' <=> d = c)
        BY <3>1 DEF HubBusy
      <4> QED
        BY <4>1, <4>2 DEF CallsKeep
    <3>3. Asking(c, h)
      BY <2>1, <3>0 DEF Asking, Asks
    <3>4. HubTakes(c)
      BY <3>1, <3>2, <3>3 DEF HubTakes
    <3> QED
      BY <3>4
  <2>6. CASE h.from \in Server
    <3>1. OthersKeep({h.from}) /\ UNCHANGED <<pc, job>>
      BY <1>2, <2>1, <2>6 DEF Refuses, Obeys, Accepts
    <3>2. HubKeeps
      <4>1. CASE Refuses(s, h)
        BY <4>1 DEF Refuses, HubKeeps
      <4>2. CASE Obeys(s, h)
        <5>1. s # Hub
          BY <1>2, <1>3, <2>6, <4>2, HubAsked DEF h
        <5> QED
          BY <1>1, <2>1, <5>1 DEF HubKeeps
      <4>3. ~Accepts(s, h)
        BY <1>2, <2>6 DEF Accepts
      <4> QED
        BY <2>1, <4>1, <4>2, <4>3
    <3>3. CallsKeep({})
      BY <1>2, <2>6, <3>1 DEF CallsKeep, OthersKeep, HubBusy
    <3> QED
      BY <3>2, <3>3
  <2>7. ~(h.from \in Client /\ Obeys(s, h))
    BY <1>2 DEF Obeys
  <2> QED
    BY <2>1, <2>3, <2>4, <2>5, <2>6, <2>7 DEF Proc
<1>4. CASE Calls(s) \/ MovesOn(s)
  BY <1>2, <1>4 DEF Calls, MovesOn, HubKeeps, CallsKeep, OthersKeep, HubBusy
<1>5. ASSUME NEW status, Concludes(s, status),
             \/ Answered(s) /\ status = call[s].status /\ status \notin {"OK", "INTERNAL_FAILURE"}
             \/ idx[s] = End /\ status = "OK"
      PROVE  \E c \in Client : HubEnds(c)
  <2>0. PICK c \in Client : c = job[s].from
    BY <1>5 DEF Concludes
  <2>1. /\ pc[s] = "bcast" /\ pc'[s] = "serve" /\ Gets(c, status, {})
        /\ UNCHANGED <<simple, lists>> /\ OthersKeep({s, c})
    BY <1>5, <2>0 DEF Concludes
  <2>2. s = Hub
    BY <1>1, <2>0, <2>1 DEF RoutesInv, RouteOK
  <2>3. status = "OK"
    BY <1>1, <1>5, <2>1 DEF Rep, AnswersOK
  <2>4. SameWrite(call[c].op, job[s]) /\ Writes(job[s])
    BY <1>1, <2>0, <2>1 DEF Up, JobsAsked
  <2>5. call[c].op.kind \notin {"Get", "GetList"}
    BY <2>4 DEF SameWrite, Writes
  <2>6. HubEnds(c)
    BY <1>2, <2>0, <2>1, <2>2, <2>3, <2>5 DEF HubEnds, HubKeeps, CallsKeep, OthersKeep, HubBusy
  <2> QED
    BY <2>6
<1> QED
  BY <1>1, <1>3, <1>4, <1>5, ServerDoes

-----------------------------------------------------------------------------
(* What a write makes of the users, subscriptions and tribbles of Hub.      *)

\* The tribbles in a map of lists.
TribblesOf(m) ==
    UNION {{[key |-> k, msg |-> item] : item \in {i \in m[k] : IsReadable(i)}} :
              k \in {k \in DOMAIN m : IsTribble(k)}}

\* They are what is listed under the keys of users with a name.
LEMMA TribblesListed ==
    ASSUME NEW m, DOMAIN m \subseteq Key, NEW t
    PROVE  t \in TribblesOf(m) <=>
              \E u, x : /\ Named(u) /\ x \in ItemsAt(m, TribbleKey(u)) /\ IsReadable(x)
                        /\ t = [key |-> TribbleKey(u), msg |-> x]
<1>1. ASSUME NEW k \in Key, IsTribble(k)
      PROVE  k = TribbleKey(k[1]) /\ Named(k[1])
  <2>1. PICK u \in Text, x \in Suffix : k = <<u, x>>
    BY DEF Key
  <2>2. k[1] = u /\ k[2] = x
    BY <2>1
  <2> QED
    BY <1>1, <2>1, <2>2 DEF IsTribble, TribbleKey, Named
<1>2. \A u : Named(u) => IsTribble(TribbleKey(u))
  BY DEF IsTribble, TribbleKey, Named
<1>3. ASSUME t \in TribblesOf(m)
      PROVE  \E u, x : /\ Named(u) /\ x \in ItemsAt(m, TribbleKey(u)) /\ IsReadable(x)
                       /\ t = [key |-> TribbleKey(u), msg |-> x]
  <2>1. PICK k \in DOMAIN m : IsTribble(k) /\ \E x \in m[k] : IsReadable(x) /\ t = [key |-> k, msg |-> x]
    BY <1>3 DEF TribblesOf
  <2>2. PICK x \in m[k] : IsReadable(x) /\ t = [key |-> k, msg |-> x]
    BY <2>1
  <2>3. k = TribbleKey(k[1]) /\ Named(k[1]) /\ ItemsAt(m, k) = m[k]
    BY <1>1, <2>1 DEF ItemsAt
  <2> QED
    BY <2>2, <2>3
<1>4. ASSUME NEW u, NEW x, Named(u), x \in ItemsAt(m, TribbleKey(u)), IsReadable(x),
             t = [key |-> TribbleKey(u), msg |-> x]
      PROVE  t \in TribblesOf(m)
  <2>1. IsTribble(TribbleKey(u)) /\ TribbleKey(u) \in DOMAIN m /\ x \in m[TribbleKey(u)]
    BY <1>2, <1>4 DEF ItemsAt
  <2> HIDE DEF TribbleKey
  <2> QED
    BY <1>4, <2>1 DEF TribblesOf
<1> QED
  BY <1>3, <1>4

\* Nothing new, or one tribble more.
LEMMA TribblesAdded ==
    ASSUME NEW m, DOMAIN m \subseteq Key, NEW n, DOMAIN n \subseteq Key
    PROVE  /\ (\A u : Named(u) => ItemsAt(n, TribbleKey(u)) = ItemsAt(m, TribbleKey(u)))
              => TribblesOf(n) = TribblesOf(m)
           /\ \A v, z : /\ Named(v) /\ IsReadable(z)
                        /\ ItemsAt(n, TribbleKey(v)) = ItemsAt(m, TribbleKey(v)) \cup {z}
                        /\ \A u : u # v => ItemsAt(n, TribbleKey(u)) = ItemsAt(m, TribbleKey(u))
                 => TribblesOf(n) = TribblesOf(m) \cup {[key |-> TribbleKey(v), msg |-> z]}
<1>1. ASSUME \A u : Named(u) => ItemsAt(n, TribbleKey(u)) = ItemsAt(m, TribbleKey(u))
      PROVE  TribblesOf(n) = TribblesOf(m)
  <2>1. \A t : t \in TribblesOf(n) <=> t \in TribblesOf(m)
    <3> SUFFICES ASSUME NEW t
                 PROVE  t \in TribblesOf(n) <=> t \in TribblesOf(m)
      OBVIOUS
    <3>1. t \in TribblesOf(n) <=>
              \E u, x : /\ Named(u) /\ x \in ItemsAt(n, TribbleKey(u)) /\ IsReadable(x)
                        /\ t = [key |-> TribbleKey(u), msg |-> x]
      BY TribblesListed
    <3>2. t \in TribblesOf(m) <=>
              \E u, x : /\ Named(u) /\ x \in ItemsAt(m, TribbleKey(u)) /\ IsReadable(x)
                        /\ t = [key |-> TribbleKey(u), msg |-> x]
      BY TribblesListed
    <3> QED
      BY <1>1, <3>1, <3>2
  <2> QED
    BY <2>1
<1>2. ASSUME NEW v, NEW z, Named(v), IsReadable(z),
             ItemsAt(n, TribbleKey(v)) = ItemsAt(m, TribbleKey(v)) \cup {z},
             \A u : u # v => ItemsAt(n, TribbleKey(u)) = ItemsAt(m, TribbleKey(u))
      PROVE  TribblesOf(n) = TribblesOf(m) \cup {[key |-> TribbleKey(v), msg |-> z]}
  <2>1. \A t : t \in TribblesOf(n) <=>
                  t \in TribblesOf(m) \cup {[key |-> TribbleKey(v), msg |-> z]}
    <3> SUFFICES ASSUME NEW t
                 PROVE  t \in TribblesOf(n) <=>
                  t \in TribblesOf(m) \cup {[key |-> TribbleKey(v), msg |-> z]}
      OBVIOUS
    <3>1. t \in TribblesOf(n) <=>
              \E u, x : /\ Named(u) /\ x \in ItemsAt(n, TribbleKey(u)) /\ IsReadable(x)
                        /\ t = [key |-> TribbleKey(u), msg |-> x]
      BY TribblesListed
    <3>2. t \in TribblesOf(m) <=>
              \E u, x : /\ Named(u) /\ x \in ItemsAt(m, TribbleKey(u)) /\ IsReadable(x)
                        /\ t = [key |-> TribbleKey(u), msg |-> x]
      BY TribblesListed
    <3>3. \A u, x : x \in ItemsAt(n, TribbleKey(u)) <=>
                       x \in ItemsAt(m, TribbleKey(u)) \/ (u = v /\ x = z)
      BY <1>2
    <3> QED
      BY <1>2, <3>1, <3>2, <3>3
  <2> QED
    BY <2>1
<1> QED
  BY <1>1, <1>2

\* c's write, for each operation that writes.
Wrote(c) ==
    LET user == work[c].task.user
        arg  == work[c].task.arg
        op   == work[c].task.op
        key  == call[c].op.key
    IN  /\ \A x : x # key => SameAt(Hub, x)
        /\ \/ /\ work[c].stage = "list" /\ op = "CreateUser" /\ key = UserList
              /\ simple'[Hub] = simple[Hub]
           \/ /\ work[c].stage = "write" /\ op = "CreateUser" /\ key = UserKey(user)
              /\ key \notin DOMAIN simple[Hub] /\ DOMAIN simple'[Hub] = DOMAIN simple[Hub] \cup {key}
              /\ lists'[Hub] = lists[Hub]
           \/ /\ work[c].stage = "write" /\ op = "AddSubscription" /\ key = SubKey(user)
              /\ Plain(arg) \notin ItemsAt(lists[Hub], key)
              /\ ItemsAt(lists'[Hub], key) = ItemsAt(lists[Hub], key) \cup {Plain(arg)}
              /\ simple'[Hub] = simple[Hub]
           \/ /\ work[c].stage = "write" /\ op = "RemoveSubscription" /\ key = SubKey(user)
              /\ Plain(arg) \in ItemsAt(lists[Hub], key)
              /\ ItemsAt(lists'[Hub], key) = ItemsAt(lists[Hub], key) \ {Plain(arg)}
              /\ simple'[Hub] = simple[Hub]
           \/ /\ work[c].stage = "write" /\ op = "PostTribble" /\ key = TribbleKey(user)
              /\ \E z : /\ z \notin ItemsAt(lists[Hub], key) /\ z.value = arg
                        /\ user # "" => z.vt \in Stamp
                        /\ ItemsAt(lists'[Hub], key) = ItemsAt(lists[Hub], key) \cup {z}
              /\ simple'[Hub] = simple[Hub]

\* The write of an operation is the one its task asks for.
LEMMA HubWrites ==
    ASSUME CallsFit, NEW c \in Client, HubTakes(c)
    PROVE  Wrote(c)
<1>1. PICK h, r : Asking(c, h) /\ Writes(h) /\ Stores(Hub, h, r)
  BY DEF HubTakes
<1>2. AskedFor(work[c], call[c].op)
  BY DEF HubTakes, CallsFit, Waiting, Idle
<1>3. \A x : x # call[c].op.key => SameAt(Hub, x)
  BY <1>1, StoresElsewhere DEF Asking
<1>4. PICK item \in Item :
         /\ \/ h.kind = "Put" /\ StoresPut(Hub, h.key)
            \/ h.kind = "AddToList" /\ StoresItem(Hub, h.key, item)
            \/ h.kind = "RemoveFromList" /\ StoresRemoval(Hub, h.key, item)
         /\ item.value = h.item.value
         /\ IsPost(h) /\ h.from \in Client => item.vt \in Stamp
         /\ ~IsPost(h) => item = h.item
  BY <1>1 DEF Stores
<1>5. h.kind = call[c].op.kind /\ h.key = call[c].op.key /\ h.item = call[c].op.item
      /\ h.from = c
  BY <1>1 DEF Asking
<1>6. /\ h.kind = "AddToList" =>
            /\ item \notin ItemsAt(lists[Hub], h.key) /\ simple'[Hub] = simple[Hub]
            /\ ItemsAt(lists'[Hub], h.key) = ItemsAt(lists[Hub], h.key) \cup {item}
      /\ h.kind = "RemoveFromList" =>
            /\ item \in ItemsAt(lists[Hub], h.key) /\ simple'[Hub] = simple[Hub]
            /\ ItemsAt(lists'[Hub], h.key) = ItemsAt(lists[Hub], h.key) \ {item}
      /\ h.kind = "Put" =>
            /\ h.key \notin DOMAIN simple[Hub] /\ DOMAIN simple'[Hub] = DOMAIN simple[Hub] \cup {h.key}
            /\ lists'[Hub] = lists[Hub]
  <2>1. h.kind = "AddToList" => StoresItem(Hub, h.key, item)
    BY <1>4
  <2>2. h.kind = "RemoveFromList" => StoresRemoval(Hub, h.key, item)
    BY <1>4
  <2>3. h.kind = "Put" => StoresPut(Hub, h.key)
    BY <1>4
  <2> QED
    BY <2>1, <2>2, <2>3, ItemHeld, RemovalHeld DEF StoresPut
<1>7. work[c].stage \in {"list", "write"}
  BY <1>1, <1>2, <1>5, StageAsks DEF Writes
<1>8. CASE work[c].stage = "list"
  BY <1>2, <1>3, <1>5, <1>6, <1>8, StageAsks DEF Wrote
<1>9. CASE work[c].stage = "write" /\ work[c].task.op = "CreateUser"
  BY <1>2, <1>3, <1>5, <1>6, <1>9, StageAsks DEF Wrote
<1>10. CASE work[c].stage = "write" /\ work[c].task.op = "AddSubscription"
  <2>1. /\ h.kind = "AddToList" /\ h.key = SubKey(work[c].task.user)
        /\ h.item = Plain(work[c].task.arg)
    BY <1>2, <1>5, <1>10, StageAsks
  <2>2. item = h.item
    BY <1>4, <2>1, KeysApart DEF IsPost
  <2> QED
    BY <1>3, <1>5, <1>6, <1>10, <2>1, <2>2 DEF Wrote
<1>11. CASE work[c].stage = "write" /\ work[c].task.op = "RemoveSubscription"
  <2>1. /\ h.kind = "RemoveFromList" /\ h.key = SubKey(work[c].task.user)
        /\ h.item = Plain(work[c].task.arg)
    BY <1>2, <1>5, <1>11, StageAsks
  <2>2. item = h.item
    BY <1>4, <2>1 DEF IsPost
  <2> QED
    BY <1>3, <1>5, <1>6, <1>11, <2>1, <2>2 DEF Wrote
<1>12. CASE work[c].stage = "write" /\ work[c].task.op = "PostTribble"
  <2>1. /\ h.kind = "AddToList" /\ h.key = TribbleKey(work[c].task.user)
        /\ h.item = Plain(work[c].task.arg)
    BY <1>2, <1>5, <1>12, StageAsks
  <2>2. item.value = work[c].task.arg
    BY <1>4, <2>1 DEF Plain
  <2>3. work[c].task.user # "" => item.vt \in Stamp
    <3>1. work[c].task.user # "" => IsTribble(TribbleKey(work[c].task.user))
      BY DEF IsTribble, TribbleKey
    <3> QED
      BY <1>4, <1>5, <2>1, <3>1 DEF IsPost
  <2> QED
    BY <1>3, <1>5, <1>6, <1>12, <2>1, <2>2, <2>3 DEF Wrote
<1>13. work[c].stage = "write" => work[c].task.op \in Writers
  BY <1>2, StageAsks
<1> QED
  BY <1>7, <1>8, <1>9, <1>10, <1>11, <1>12, <1>13 DEF Writers

-----------------------------------------------------------------------------
(* More of what always holds while nothing crashes.                         *)

\* Scripts that fit stay so, and so do the operations they lead to.
TasksFit ==
    /\ \A c \in Client : \A n \in DOMAIN script[c] : TaskFits(script[c][n])
    /\ \A c \in Client : ~Idle(c) => TaskFits(work[c].task)
    /\ \A a \in told : TaskFits(a.task)

\* The loop has found nothing before it begins.
LoopsBlank ==
    \A c \in Client : work[c].stage # "posts" => work[c].subs = {} /\ work[c].found = {}

\* Who is about to be removed from a list of subscriptions has been looked up.
OthersThere ==
    \A c \in Client : \A v :
        /\ ~Idle(c) /\ work[c].stage = "write"
        /\ work[c].task.op = "RemoveSubscription" /\ work[c].task.arg = v
        => There(v)

\* Subscriptions are stored without a stamp.
SubsPlain == \A u : \A x \in HubSubs(u) : x = Plain(x.value)

\* What the refinement needs beyond the invariants of the other theorems.
NetInv ==
    faults = 0 => TasksFit /\ LoopsBlank /\ OthersThere /\ SubsPlain /\ Sorted(Tribbles(Hub))

\* Each part of it is kept by every step, from scripts that fit on.
LEMMA TasksNext ==
    ASSUME BaseInv, TasksFit, [TNext]_tvars, faults' = 0
    PROVE  TasksFit'
<1>1. CoreInv /\ Up /\ TribblerTypeOK /\ script \in [Client -> Seq(Task)]
  BY TribblerStep DEF BaseInv, TribblerInv, TribblerTypeOK
<1>2. CASE ByServer
  <2>1. UNCHANGED <<script, work, told>> /\ \A c \in Client : Idle(c)' <=> Idle(c)
    BY <1>1, <1>2, ClientOps DEF ByServer
  <2> QED
    BY <2>1 DEF TasksFit
<1>3. ASSUME NEW c \in Client, Alone(c), Begins(c)
      PROVE  TasksFit'
  <2>1. /\ script[c] \in Seq(Task) /\ script[c] # <<>> /\ UNCHANGED told
        /\ script' = [script EXCEPT ![c] = Tail(script[c])]
        /\ work'[c].task = Head(script[c])
        /\ \A d \in Client : d # c => work'[d] = work[d] /\ call'[d] = call[d]
    BY <1>3 DEF Begins, Alone
  <2>2. 1 \in DOMAIN script[c] /\ Head(script[c]) = script[c][1]
    BY <2>1
  <2>3. \A n \in DOMAIN Tail(script[c]) :
           n + 1 \in DOMAIN script[c] /\ Tail(script[c])[n] = script[c][n + 1]
    BY <2>1
  <2>4. script'[c] = Tail(script[c]) /\ \A d \in Client : d # c => script'[d] = script[d]
    BY <1>1, <2>1
  <2>5. \A d \in Client : \A n \in DOMAIN script'[d] : TaskFits(script'[d][n])
    BY <2>3, <2>4 DEF TasksFit
  <2>6. TaskFits(work'[c].task)
    BY <2>1, <2>2 DEF TasksFit
  <2>7. \A d \in Client : d # c /\ ~Idle(d)' => TaskFits(work'[d].task)
    BY <2>1 DEF TasksFit, Idle
  <2> QED
    BY <2>1, <2>5, <2>6, <2>7 DEF TasksFit
<1>4. ASSUME NEW c \in Client, Alone(c), NEW w, Turns(c, w)
      PROVE  TasksFit'
  <2>1. /\ UNCHANGED <<script, told>> /\ work'[c].task = work[c].task /\ ~Idle(c)
        /\ \A d \in Client : d # c => work'[d] = work[d] /\ call'[d] = call[d]
    BY <1>4 DEF Turns, Alone, Answered, Idle
  <2>2. \A d \in Client : ~Idle(d)' => TaskFits(work'[d].task)
    BY <2>1 DEF TasksFit, Idle
  <2> QED
    BY <2>1, <2>2 DEF TasksFit
<1>5. ASSUME NEW c \in Client, Alone(c), NEW a, Tells(c, a)
      PROVE  TasksFit'
  <2>1. /\ ScriptAfter(c, a) /\ told' = told \cup {a} /\ a.task = work[c].task
        /\ ~Idle(c) /\ Idle(c)'
        /\ \A d \in Client : d # c => work'[d] = work[d] /\ call'[d] = call[d]
    BY <1>5 DEF Tells, Alone, Answered, Idle
  <2>2. \A d \in Client : script'[d] = script[d] \/ script'[d] = <<>>
    BY <1>1, <2>1 DEF ScriptAfter
  <2>3. \A d \in Client : \A n \in DOMAIN script'[d] : TaskFits(script'[d][n])
    BY <2>2 DEF TasksFit
  <2>4. \A d \in Client : ~Idle(d)' => TaskFits(work'[d].task)
    BY <2>1 DEF TasksFit, Idle
  <2> QED
    BY <2>1, <2>3, <2>4 DEF TasksFit
<1>6. CASE UNCHANGED tvars
  BY <1>6 DEF TasksFit, Idle, tvars, vars
<1> QED
  BY <1>2, <1>3, <1>4, <1>5, <1>6, TribblerSteps

\* The loop of the feed leaves nothing behind.
LEMMA BlankNext ==
    ASSUME BaseInv, LoopsBlank, [TNext]_tvars, faults' = 0
    PROVE  LoopsBlank'
<1>1. CASE ByServer
  BY <1>1 DEF ByServer, LoopsBlank
<1>2. ASSUME NEW c \in Client, Alone(c), Begins(c)
      PROVE  LoopsBlank'
  BY <1>2 DEF Alone, Begins, LoopsBlank
<1>3. ASSUME NEW c \in Client, Alone(c), NEW w, Turns(c, w)
      PROVE  LoopsBlank'
  <2>1. work'[c] = w /\ \A d \in Client : d # c => work'[d] = work[d]
    BY <1>3 DEF Alone, Turns
  <2>2. w.stage # "posts" => w.subs = work[c].subs /\ w.found = work[c].found
    BY <1>3 DEF Turns, KeepsLoop
  <2>3. w.stage # "posts" => work[c].stage # "posts"
    BY <1>3 DEF Turns, GoesFrom
  <2> QED
    BY <2>1, <2>2, <2>3 DEF LoopsBlank
<1>4. ASSUME NEW c \in Client, Alone(c), NEW a, Tells(c, a)
      PROVE  LoopsBlank'
  <2>1. NoWork.subs = {} /\ NoWork.found = {}
    BY DEF NoWork, Begin
  <2> QED
    BY <1>4, <2>1 DEF Alone, Tells, LoopsBlank
<1>5. CASE UNCHANGED tvars
  BY <1>5 DEF LoopsBlank, tvars
<1> QED
  BY <1>1, <1>2, <1>3, <1>4, <1>5, TribblerSteps

\* A user looked up stays one until the subscription is removed.
LEMMA OthersNext ==
    ASSUME OneEntryOnly, HubInv, AnswersTrue, OthersThere, [TNext]_tvars, faults' = 0
    PROVE  OthersThere'
<1>1. BaseInv /\ CoreInv /\ Up /\ CallsFit /\ Hub \in Server
  BY TribblerStep, HubServes DEF HubInv, BaseInv, TribblerInv
<1>2. \A v : There(v) => There(v)'
  BY <1>1, KeysStay DEF There
<1>3. CASE ByServer
  <2>1. UNCHANGED <<script, work, told>> /\ \A c \in Client : Idle(c)' <=> Idle(c)
    BY <1>1, <1>3, ClientOps DEF ByServer
  <2> QED
    BY <1>2, <2>1 DEF OthersThere
<1>4. ASSUME NEW c \in Client, Alone(c),
             \A v : /\ ~Idle(c)' /\ work'[c].stage = "write"
                    /\ work'[c].task.op = "RemoveSubscription" /\ work'[c].task.arg = v
                    => There(v)
      PROVE  OthersThere'
  <2>1. \A d \in Client : d # c => work'[d] = work[d] /\ (Idle(d)' <=> Idle(d))
    BY <1>4 DEF Alone, Idle
  <2> QED
    BY <1>2, <1>4, <2>1 DEF OthersThere
<1>5. ASSUME NEW c \in Client, Alone(c), Begins(c)
      PROVE  OthersThere'
  BY <1>4, <1>5 DEF Begins
<1>6. ASSUME NEW c \in Client, Alone(c), NEW w, Turns(c, w)
      PROVE  OthersThere'
  <2> SUFFICES ASSUME NEW v, w.stage = "write", w.task.op = "RemoveSubscription", w.task.arg = v
               PROVE  There(v)
    BY <1>4, <1>6 DEF Turns
  <2>1. AskedFor(work[c], call[c].op) /\ Answered(c) /\ w.task = work[c].task /\ GoesFrom(c, w)
    BY <1>1, <1>6 DEF Turns, CallsFit, Answered, Idle
  <2>2. work[c].stage = "other" /\ Exists(c)
    BY <2>1, StageAsks DEF GoesFrom, Does
  <2>3. call[c].op.kind = "Get" /\ call[c].op.key = UserKey(v)
    BY <2>1, <2>2, StageAsks
  <2> QED
    BY <2>1, <2>2, <2>3 DEF AnswersTrue, AnswerTrue, Exists, There
<1>7. ASSUME NEW c \in Client, Alone(c), NEW a, Tells(c, a)
      PROVE  OthersThere'
  BY <1>4, <1>7 DEF Tells
<1>8. CASE UNCHANGED tvars
  BY <1>2, <1>8 DEF OthersThere, Idle, tvars, vars
<1> QED
  BY <1>1, <1>3, <1>5, <1>6, <1>7, <1>8, TribblerSteps

\* Only AddSubscription and the removal touch the lists of subscriptions.
LEMMA SubsNext ==
    ASSUME OneEntryOnly, HubInv, SubsPlain, [TNext]_tvars, faults' = 0
    PROVE  SubsPlain'
<1>1. BaseInv /\ CoreInv /\ Up /\ CallsFit /\ Hub \in Server
  BY TribblerStep, HubServes DEF HubInv, BaseInv, TribblerInv
<1>2. CASE ByServer
  <2>1. PICK s \in Server : Boot(s) \/ ServerStep(s) \/ Crash(s)
    BY <1>2 DEF ByServer
  <2> SUFFICES ASSUME NEW u, NEW x \in HubSubs(u)', x \notin HubSubs(u)
               PROVE  x = Plain(x.value)
    BY DEF SubsPlain
  <2>2. PICK k : k = SubKey(u)
    OBVIOUS
  <2>3. x \in ItemsAt(lists'[Hub], k) /\ x \notin ItemsAt(lists[Hub], k)
    BY <2>2 DEF HubSubs
  <2>4. PICK c \in Client :
              /\ ~Idle(c) /\ AskedFor(work[c], call[c].op)
              /\ call[c].op.kind = "AddToList" /\ call[c].op.key = k
              /\ ~IsTribble(k) => call[c].op.item = x
    BY <1>1, <2>1, <2>3, ItemSource
  <2>5. ~IsTribble(k)
    BY <2>2, KeysApart
  <2>6. call[c].op.item = Plain(work[c].task.arg)
    BY <2>2, <2>4, SubscriptionAsked
  <2> QED
    BY <2>4, <2>5, <2>6 DEF Plain
<1>3. CASE UNCHANGED lists
  BY <1>3 DEF SubsPlain, HubSubs
<1> QED
  BY <1>1, <1>2, <1>3, TribblerSteps DEF Alone, store, tvars, vars

\* Tribbles of servers that serve only scripts that fit are all stamped, and are what
\* their readers make of them.
LEMMA PostsFit ==
    ASSUME OneEntryOnly, HubInv, faults = 0, ListsAsked, TasksFit, NEW u, NEW x \in HubPosts(u)
    PROVE  /\ Named(u) /\ x.vt \in Stamp /\ x.value \notin Unescaped
           /\ IsReadable(x) /\ ToMessage(x) = x /\ ReadEnds(x) = "returns"
           /\ [key |-> TribbleKey(u), msg |-> x] \in Tribbles(Hub)
<1>1. TypeOK /\ TribblerTypeOK /\ Hub \in Server
  BY HubServes DEF HubInv, BaseInv, TribblerInv, CoreInv, TypeInv
<1>2. PICK t \in Begun("PostTribble") : t.user = u /\ t.arg = x.value
  BY DEF ListsAsked, Did
<1>3. t.op = "PostTribble" /\ TaskFits(t) /\ t \in Task
  BY <1>1, <1>2 DEF Begun, TasksFit, TribblerTypeOK
<1>4. Named(u) /\ x.value \notin Unescaped
  BY <1>2, <1>3 DEF TaskFits, Named, Task
<1>5. x.vt \in Stamp
  BY <1>4, PostStamped
<1>6. IsReadable(x)
  BY <1>4, <1>5, StampedStamp DEF IsReadable
<1>7. DOMAIN lists[Hub] \subseteq Key
  BY <1>1 DEF TypeOK, AreMaps, IsMap
<1>8. [key |-> TribbleKey(u), msg |-> x] \in TribblesOf(lists[Hub])
  <2>1. x \in ItemsAt(lists[Hub], TribbleKey(u))
    BY DEF HubPosts
  <2> QED
    BY <1>4, <1>6, <1>7, <2>1, TribblesListed
<1>9. Tribbles(Hub) = TribblesOf(lists[Hub])
  BY DEF Tribbles, TribblesOf
<1> QED
  BY <1>4, <1>5, <1>6, <1>8, <1>9 DEF ToMessage, ReadEnds

\* None of them makes its reader throw.
LEMMA NothingThrows ==
    ASSUME OneEntryOnly, HubInv, faults = 0, ListsAsked, TasksFit,
           NEW c \in Client, AskedFor(work[c], call[c].op), ReadTrue(c)
    PROVE  ~ComesTo(c, "throws")
<1> SUFFICES ASSUME ComesTo(c, "throws") PROVE FALSE
  OBVIOUS
<1>1. PICK x \in call[c].values : ReadEnds(x) = "throws"
  BY DEF ComesTo
<1>2. work[c].stage \in {"read", "posts"}
  BY DEF ComesTo, At
<1>3. PICK u : call[c].op.kind = "GetList" /\ call[c].op.key = TribbleKey(u)
  BY <1>2, StageAsks
<1>4. x \in HubPosts(u)
  BY <1>1, <1>3 DEF ReadTrue
<1> QED
  BY <1>1, <1>4, PostsFit

\* z is newer than every tribble of T.
Newest(T, z) == z.msg.vt \in Stamp /\ \A t \in T : PostedLess(t.msg.vt, z.msg.vt)

\* The write of a post adds one tribble, which is the newest, and no other write adds any.
LEMMA NewTribble ==
    ASSUME OneEntryOnly, HubInv, TypeOK', faults = 0, faults' = 0, ListsAsked, TasksFit,
           NEW s \in Server, Boot(s) \/ ServerStep(s) \/ Crash(s),
           NEW c \in Client, HubTakes(c), Wrote(c)
    PROVE  IF work[c].stage = "write" /\ work[c].task.op = "PostTribble"
           THEN \E z : /\ z.key = TribbleKey(work[c].task.user)
                       /\ z.msg.value = work[c].task.arg /\ Newest(Tribbles(Hub), z)
                       /\ Tribbles(Hub)' = Tribbles(Hub) \cup {z}
           ELSE Tribbles(Hub)' = Tribbles(Hub)
<1> DEFINE m == lists[Hub]
           n == lists'[Hub]
<1>1. TypeOK /\ TribblerTypeOK /\ CallsFit /\ Hub \in Server
  BY HubServes DEF HubInv, BaseInv, Fits, TribblerInv, CoreInv, TypeInv
<1>2. DOMAIN m \subseteq Key /\ DOMAIN n \subseteq Key
  BY <1>1 DEF TypeOK, AreMaps, IsMap
<1>3. Tribbles(Hub) = TribblesOf(m) /\ Tribbles(Hub)' = TribblesOf(n)
  BY DEF Tribbles, TribblesOf
<1>4. \A x : x # call[c].op.key => ItemsAt(n, x) = ItemsAt(m, x)
  BY DEF Wrote, SameAt
<1>5. CASE work[c].stage = "write" /\ work[c].task.op = "PostTribble"
  <2>0. PICK u, arg : u = work[c].task.user /\ arg = work[c].task.arg
    OBVIOUS
  <2>1. PICK z : /\ z \notin ItemsAt(m, TribbleKey(u)) /\ z.value = arg
                 /\ u # "" => z.vt \in Stamp
                 /\ ItemsAt(n, TribbleKey(u)) = ItemsAt(m, TribbleKey(u)) \cup {z}
                 /\ call[c].op.key = TribbleKey(u)
    BY <1>5, <2>0 DEF Wrote
  <2>2. TaskFits(work[c].task) /\ work[c].task \in Task
    BY <1>1 DEF HubTakes, Waiting, Idle, TasksFit, TribblerTypeOK
  <2>3. Named(u) /\ arg \notin Unescaped
    BY <1>5, <2>0, <2>2 DEF TaskFits, Named, Task
  <2>4. IsReadable(z) /\ z.vt \in Stamp
    BY <2>1, <2>3, StampedStamp DEF IsReadable, Named
  <2>5. TribblesOf(n) = TribblesOf(m) \cup {[key |-> TribbleKey(u), msg |-> z]}
    <3>1. \A v : v # u => ItemsAt(n, TribbleKey(v)) = ItemsAt(m, TribbleKey(v))
      BY <1>4, <2>1, KeysApart
    <3> HIDE DEF m, n
    <3>2. /\ Named(u) /\ IsReadable(z)
          /\ ItemsAt(n, TribbleKey(u)) = ItemsAt(m, TribbleKey(u)) \cup {z}
          /\ \A v : v # u => ItemsAt(n, TribbleKey(v)) = ItemsAt(m, TribbleKey(v))
      BY <2>1, <2>3, <2>4, <3>1
    <3> QED
      BY <1>2, <3>2, TribblesAdded
  <2>6. ASSUME NEW t \in TribblesOf(m)
        PROVE  PostedLess(t.msg.vt, z.vt)
    <3>1. PICK v, y : /\ Named(v) /\ y \in ItemsAt(m, TribbleKey(v))
                      /\ t = [key |-> TribbleKey(v), msg |-> y]
      BY <1>2, <2>6, TribblesListed
    <3>2. y \in HubPosts(v)
      BY <3>1 DEF HubPosts
    <3>3. y.value \notin Unescaped
      BY <3>2, PostsFit
    <3>4. z \in HubPosts(u)' /\ z \notin HubPosts(u)
      BY <2>1 DEF HubPosts
    <3>5. PostedLess(y.vt, z.vt)
      BY <2>3, <3>1, <3>2, <3>3, <3>4, NewPostLast
    <3> QED
      BY <3>1, <3>3, <3>5
  <2>7. Newest(Tribbles(Hub), [key |-> TribbleKey(u), msg |-> z])
    BY <1>3, <2>4, <2>6 DEF Newest
  <2> QED
    BY <1>3, <1>5, <2>0, <2>1, <2>5, <2>7
<1>6. CASE ~(work[c].stage = "write" /\ work[c].task.op = "PostTribble")
  <2>1. ASSUME NEW u
        PROVE  ItemsAt(n, TribbleKey(u)) = ItemsAt(m, TribbleKey(u))
    <3>1. PICK k : k = TribbleKey(u)
      OBVIOUS
    <3>2. CASE call[c].op.key # k
      BY <1>4, <3>1, <3>2
    <3>3. CASE call[c].op.key = k
      <4>1. k # UserList /\ \A v : k # SubKey(v)
        BY <3>1, KeysApart
      <4>2. lists'[Hub] = lists[Hub]
        BY <1>6, <3>3, <4>1 DEF Wrote
      <4> QED
        BY <4>2
    <3> QED
      BY <3>2, <3>3
  <2> HIDE DEF m, n
  <2> QED
    BY <1>2, <1>3, <1>6, <2>1, TribblesAdded
<1> QED
  BY <1>5, <1>6

\* All of it.
LEMMA NetNext ==
    ASSUME OneEntryOnly, HubInv, ToldInv, FeedInv, NetInv, [TNext]_tvars
    PROVE  NetInv'
<1> SUFFICES ASSUME faults' = 0
             PROVE  TasksFit' /\ LoopsBlank' /\ OthersThere' /\ SubsPlain' /\ Sorted(Tribbles(Hub))'
  BY DEF NetInv
<1>1. BaseInv /\ faults = 0 /\ CallsFit /\ Hub \in Server
  BY TribblerStep, HubServes DEF HubInv
<1>2. /\ AnswersTrue /\ ListsAsked
      /\ TasksFit /\ LoopsBlank /\ OthersThere /\ SubsPlain /\ Sorted(Tribbles(Hub))
  BY <1>1 DEF ToldInv, FeedInv, NetInv
<1>3. TasksFit' /\ LoopsBlank' /\ OthersThere' /\ SubsPlain'
  BY <1>1, <1>2, TasksNext, BlankNext, OthersNext, SubsNext
<1>4. TypeOK'
  BY HubNext DEF HubInv, BaseInv, TribblerInv, CoreInv, TypeInv
<1>5. CASE Tribbles(Hub)' = Tribbles(Hub)
  BY <1>2, <1>3, <1>5 DEF Sorted
<1>6. CASE ByServer
  <2>1. PICK s \in Server : Boot(s) \/ ServerStep(s) \/ Crash(s)
    BY <1>6 DEF ByServer
  <2>2. CASE HubKeeps
    <3>1. Tribbles(Hub)' = Tribbles(Hub)
      BY <2>2 DEF HubKeeps, Tribbles
    <3> QED
      BY <1>5, <3>1
  <2>3. ASSUME NEW c \in Client, HubTakes(c)
        PROVE  Sorted(Tribbles(Hub))'
    <3>1. Wrote(c)
      BY <1>1, <2>3, HubWrites
    <3>2. \/ Tribbles(Hub)' = Tribbles(Hub)
          \/ \E z : Newest(Tribbles(Hub), z) /\ Tribbles(Hub)' = Tribbles(Hub) \cup {z}
      BY <1>1, <1>2, <1>4, <2>1, <2>3, <3>1, NewTribble
    <3>3. ASSUME NEW z, Newest(Tribbles(Hub), z), Tribbles(Hub)' = Tribbles(Hub) \cup {z}
          PROVE  Sorted(Tribbles(Hub))'
      <4>1. Sorted(Tribbles(Hub) \cup {z})
        BY <1>2, <3>3, NextNumber DEF Newest
      <4> QED
        BY <3>3, <4>1 DEF Sorted
    <3> QED
      BY <1>5, <3>2, <3>3
  <2> QED
    BY <1>1, <1>3, <2>1, <2>2, <2>3, HubStep DEF HubReplies, HubEnds
<1>7. CASE ~ByServer
  <2>1. UNCHANGED lists
    BY <1>1, <1>7, TribblerSteps DEF Alone, store, tvars, vars
  <2>2. Tribbles(Hub)' = Tribbles(Hub)
    BY <2>1 DEF Tribbles
  <2> QED
    BY <1>5, <2>2
<1> QED
  BY <1>3, <1>6, <1>7

\* At the start nothing is stored and no operation runs.
LEMMA InitNet ==
    ASSUME OneEntryOnly, ScriptsFit, TInit
    PROVE  NetInv
<1>1. Hub \in Server
  BY HubServes
<1>2. \A c \in Client : Idle(c) /\ work[c].stage = "idle" /\ work[c].subs = {} /\ work[c].found = {}
  BY DEF TInit, Init, Idle, NoCall, MakeCall, NoWork, Begin, Proc
<1>3. told = {} /\ \A c \in Client : \A n \in DOMAIN script[c] : TaskFits(script[c][n])
  BY DEF TInit, ScriptsFit
<1>4. DOMAIN lists[Hub] = {}
  BY <1>1 DEF TInit, Init, NoMap
<1>5. Tribbles(Hub) = {} /\ \A k : ItemsAt(lists[Hub], k) = {}
  BY <1>4 DEF Tribbles, ItemsAt
<1>6. Sorted({})
  BY FS_EmptySet DEF Sorted
<1> QED
  BY <1>2, <1>3, <1>5, <1>6 DEF NetInv, TasksFit, LoopsBlank, OthersThere, SubsPlain, HubSubs

-----------------------------------------------------------------------------
(* What has been found, and its numbers.                                    *)

\* Hub is busy only with a write, whose client waits for it.
LEMMA BusyWrites ==
    ASSUME OneEntryOnly, HubInv, faults = 0, NEW c \in Client, HubBusy(c)
    PROVE  Waiting(c) /\ work[c].stage \in {"list", "write"}
<1>1. CoreInv /\ Up /\ CallsFit /\ Hub \in Server /\ c \in Proc
  BY HubServes DEF HubInv, BaseInv, UpInv, Fits, TribblerInv, Proc
<1>2. /\ job[Hub].live /\ Writes(job[Hub]) /\ SameWrite(call[c].op, job[Hub])
  BY <1>1 DEF HubBusy, Up, JobsAsked
<1>3. Waiting(c)
  BY <1>1, <1>2, OthersAsk DEF HubBusy
<1>4. AskedFor(work[c], call[c].op)
  BY <1>1, <1>3 DEF CallsFit, Waiting, Idle
<1>5. call[c].op.kind \notin {"Get", "GetList"}
  BY <1>2 DEF SameWrite, Writes
<1> QED
  BY <1>3, <1>4, <1>5, StageAsks

\* The tribbles that an operation has found are in the store.
LEMMA StoredFound ==
    ASSUME OneEntryOnly, HubInv, faults = 0, ListsAsked, TasksFit, NEW all, IsFiniteSet(all),
           \A t \in all : t = Tribble(t.user, t.item) /\ t.item \in HubPosts(t.user)
    PROVE  FromStore(Tribbles(Hub), all)
<1>1. ASSUME NEW t \in all
      PROVE  ToMessage(t.item) = t.item /\ AsStored(t) \in Tribbles(Hub)
  <2>1. PICK u, x : u = t.user /\ x = t.item
    OBVIOUS
  <2>2. x \in HubPosts(u)
    BY <2>1
  <2> QED
    BY <2>1, <2>2, PostsFit DEF AsStored
<1> QED
  BY <1>1 DEF FromStore

\* That holds of what the feed by subscription has found so far and of what it is about to
\* find.
LEMMA LoopStored ==
    ASSUME OneEntryOnly, HubInv, faults = 0, FeedInv, TasksFit, LoopsBlank,
           NEW c \in Client, ~Idle(c)
    PROVE  /\ FromStore(Tribbles(Hub), work[c].found)
           /\ FromStore(Tribbles(Hub), FoundIn(work[c], call[c], Result(c)))
           /\ work[c].stage = "read" /\ Answered(c) =>
                 FromStore(Tribbles(Hub), Listed(c, User(c)))
<1>1. ListsAsked /\ ReadsTrue /\ LoopsTrue /\ CallsFit
  BY DEF FeedInv, HubInv, BaseInv, Fits
<1>2. \A task, known, rest, all : Collects(task, known, rest, all) => FromStore(Tribbles(Hub), all)
  BY <1>1, StoredFound DEF Collects
<1>3. FromStore(Tribbles(Hub), work[c].found)
  <2>1. CASE work[c].stage = "posts"
    BY <1>1, <1>2, <2>1 DEF LoopsTrue, LoopTrue
  <2>2. CASE work[c].stage # "posts"
    BY <2>2, FS_EmptySet DEF LoopsBlank, FromStore
  <2> QED
    BY <2>1, <2>2
<1>4. Answered(c) => ReadTrue(c) /\ (work[c].stage = "posts" => LoopTrue(c))
  BY <1>1 DEF ReadsTrue, LoopsTrue
<1>5. ASSUME work[c].stage = "read", Answered(c)
      PROVE  FromStore(Tribbles(Hub), Listed(c, User(c)))
  <2>1. Collects(work[c].task, work[c].known, {}, Listed(c, User(c)))
    BY <1>1, <1>4, <1>5, Collected
  <2> QED
    BY <1>2, <2>1
<1>6. FromStore(Tribbles(Hub), FoundIn(work[c], call[c], Result(c)))
  <2>1. CASE work[c].stage = "posts" /\ Result(c) # "none"
    <3>1. Answered(c)
      BY <2>1, BusyWrites DEF Result
    <3>2. Collects(work[c].task, work[c].known, work[c].subs \ {Asked(c)},
                   work[c].found \cup Listed(c, Asked(c)))
      BY <1>1, <1>4, <2>1, <3>1, Collected
    <3>3. FoundIn(work[c], call[c], Result(c)) = work[c].found \cup Listed(c, Asked(c))
      BY <2>1 DEF FoundIn, ListIn, Listed, Asked
    <3> QED
      BY <1>2, <3>2, <3>3
  <2>2. CASE ~(work[c].stage = "posts" /\ Result(c) # "none")
    <3>1. FoundIn(work[c], call[c], Result(c)) = work[c].found
      BY <2>2 DEF FoundIn
    <3> QED
      BY <1>3, <3>1
  <2> QED
    BY <2>1, <2>2
<1> QED
  BY <1>3, <1>5, <1>6

\* The list of a user's tribbles, read at once, is what the network shows of the user.
LEMMA ListedPosts ==
    ASSUME OneEntryOnly, HubInv, faults = 0, ListsAsked, TasksFit,
           NEW u, NEW k, k.values = HubPosts(u)
    PROVE  /\ FromStore(Tribbles(Hub), ListIn(k, u))
           /\ NumberAll(Tribbles(Hub), ListIn(k, u)) =
                 {p \in PostsIn(Tribbles(Hub)) : p.user = u}
<1> DEFINE T == Tribbles(Hub)
<1>1. \A t : t \in ListIn(k, u) <=> \E x \in HubPosts(u) : t = Tribble(u, x)
  BY DEF ListIn
<1>2. FromStore(T, ListIn(k, u))
  <2>1. IsFiniteSet(ListIn(k, u))
    <3>1. IsFiniteSet(HubPosts(u))
      BY DEF ListsAsked
    <3> DEFINE h == [x \in HubPosts(u) |-> Tribble(u, x)]
    <3>2. h \in Bijection(HubPosts(u), ListIn(k, u))
      <4>1. h \in [HubPosts(u) -> ListIn(k, u)]
        BY <1>1
      <4>2. \A x, y \in HubPosts(u) : h[x] = h[y] => x = y
        BY DEF Tribble
      <4>3. \A t \in ListIn(k, u) : \E x \in HubPosts(u) : h[x] = t
        BY <1>1
      <4> QED
        BY <4>1, <4>2, <4>3, Fun_IsBij
    <3> QED
      BY <3>1, <3>2, FS_Bijection DEF ExistsBijection
  <2>2. \A t \in ListIn(k, u) : t = Tribble(t.user, t.item) /\ t.item \in HubPosts(t.user)
    BY <1>1 DEF Tribble
  <2> QED
    BY <2>1, <2>2, StoredFound
<1>3. \A x \in HubPosts(u) : ToMessage(x) = x /\ [key |-> TribbleKey(u), msg |-> x] \in T
  BY PostsFit
<1>4. ASSUME NEW p \in NumberAll(T, ListIn(k, u))
      PROVE  p \in PostsIn(T) /\ p.user = u
  <2>1. PICK x \in HubPosts(u) : p = NumberedIn(T, u, ToMessage(x))
    BY <1>1, <1>4 DEF NumberAll, Tribble
  <2>2. PICK t \in T : t = [key |-> TribbleKey(u), msg |-> x]
    BY <1>3
  <2>3. t.key[1] = u /\ t.msg = x
    BY <2>2 DEF TribbleKey
  <2>4. p = NumberedIn(T, t.key[1], t.msg)
    BY <1>3, <2>1, <2>3
  <2> QED
    BY <2>1, <2>4 DEF PostsIn, NumberedIn
<1>5. ASSUME NEW p \in PostsIn(T), p.user = u
      PROVE  p \in NumberAll(T, ListIn(k, u))
  <2>1. PICK t \in T : p = NumberedIn(T, t.key[1], t.msg)
    BY DEF PostsIn
  <2>2. DOMAIN lists[Hub] \subseteq Key
    BY HubServes DEF HubInv, BaseInv, TribblerInv, CoreInv, TypeInv, TypeOK, AreMaps, IsMap
  <2>3. PICK v, x : /\ x \in ItemsAt(lists[Hub], TribbleKey(v))
                    /\ t = [key |-> TribbleKey(v), msg |-> x]
    <3>1. t \in TribblesOf(lists[Hub])
      BY DEF Tribbles, TribblesOf
    <3> QED
      BY <2>2, <3>1, TribblesListed
  <2>4. t.key[1] = v /\ t.msg = x /\ ToMessage(x) = x
    BY <1>3, <2>3, PostsFit DEF TribbleKey, HubPosts
  <2>5. v = u
    BY <1>5, <2>1, <2>4 DEF NumberedIn
  <2>6. PICK f \in ListIn(k, u) : f = Tribble(u, x)
    BY <1>1, <2>3, <2>5 DEF HubPosts
  <2>7. p = NumberedIn(T, f.user, ToMessage(f.item))
    BY <2>1, <2>4, <2>5, <2>6 DEF Tribble
  <2> QED
    BY <2>7 DEF NumberAll
<1> HIDE DEF T
<1>6. \A p : p \in NumberAll(T, ListIn(k, u)) <=> p \in {q \in PostsIn(T) : q.user = u}
  BY <1>4, <1>5
<1> QED
  BY <1>2, <1>6 DEF T

\* A new tribble changes nobody else's number.
Grown(T, U) == U = T \/ \E z : Newest(T, z) /\ U = T \cup {z}

\* Tribbles found earlier keep their numbers.
LEMMA NumbersStay ==
    ASSUME NEW T, Sorted(T), NEW U, Grown(T, U), NEW all, FromStore(T, all)
    PROVE  NumberAll(U, all) = NumberAll(T, all)
<1>1. ASSUME NEW t \in all
      PROVE  NumberIn(U, ToMessage(t.item)) = NumberIn(T, ToMessage(t.item))
  <2>1. PICK x \in T : x = AsStored(t)
    BY DEF FromStore
  <2>2. x.msg = ToMessage(t.item)
    BY <2>1 DEF FromStore, AsStored
  <2>3. NumberIn(U, x.msg) = NumberIn(T, x.msg)
    BY NextNumber DEF Grown, Newest
  <2> QED
    BY <2>2, <2>3
<1> QED
  BY <1>1 DEF NumberAll, NumberedIn

-----------------------------------------------------------------------------
(* What a step leaves as it is.                                             *)

\* The network sees no change in a client whose operation and call stay.
LEMMA DoingStays ==
    ASSUME OneEntryOnly, HubInv, TypeOK', faults = 0, FeedInv, NetInv,
           Grown(Tribbles(Hub), Tribbles(Hub)'), NEW d \in Client,
           work'[d] = work[d], call'[d] = call[d], HubBusy(d)' <=> HubBusy(d)
    PROVE  DoingOf(d)' = DoingOf(d)
<1>1. TypeOK
  BY DEF HubInv, BaseInv, TribblerInv, CoreInv, TypeInv
<1>2. Result(d)' = Result(d)
  BY DEF Result, Answered
<1> DEFINE w == work[d]
           k == call[d]
           r == Result(d)
<1>3. /\ DoingOf(d) = DoingIn(Tribbles(Hub), w, k, r)
      /\ DoingOf(d)' = DoingIn(Tribbles(Hub)', w, k, r)
  BY <1>1, <1>2, DoingSeen
<1>4. CASE k.st = "idle"
  BY <1>3, <1>4 DEF DoingIn
<1>5. CASE k.st # "idle"
  <2>1. FromStore(Tribbles(Hub), FoundIn(w, k, r)) /\ Sorted(Tribbles(Hub))
    BY <1>5, LoopStored DEF NetInv, Idle
  <2>2. NumberAll(Tribbles(Hub)', FoundIn(w, k, r)) = NumberAll(Tribbles(Hub), FoundIn(w, k, r))
    BY <2>1, NumbersStay
  <2> HIDE DEF w, k, r
  <2> QED
    BY <1>3, <2>2 DEF DoingIn
<1> QED
  BY <1>4, <1>5

\* Only c's part of "doing" changes.
LEMMA DoingMoves ==
    ASSUME OneEntryOnly, HubInv, TypeOK', faults = 0, FeedInv, NetInv,
           Grown(Tribbles(Hub), Tribbles(Hub)'), NEW c \in Client,
           \A d \in Client \ {c} :
              work'[d] = work[d] /\ call'[d] = call[d] /\ (HubBusy(d)' <=> HubBusy(d))
    PROVE  /\ NetDoing[c] = DoingIn(Tribbles(Hub), work[c], call[c], Result(c))
           /\ NetDoing' = [NetDoing EXCEPT ![c] =
                              DoingIn(Tribbles(Hub)', work'[c], call'[c], Result(c)')]
<1>1. TypeOK
  BY DEF HubInv, BaseInv, TribblerInv, CoreInv, TypeInv
<1>2. \A d \in Client \ {c} : DoingOf(d)' = DoingOf(d)
  BY DoingStays
<1>3. /\ DoingOf(c) = DoingIn(Tribbles(Hub), work[c], call[c], Result(c))
      /\ DoingOf(c)' = DoingIn(Tribbles(Hub)', work'[c], call'[c], Result(c)')
  BY <1>1, DoingSeen
<1> QED
  BY <1>2, <1>3 DEF NetDoing

\* With that for every client, nobody waits for anything else than before.
LEMMA DoingAllStays ==
    ASSUME OneEntryOnly, HubInv, TypeOK', faults = 0, FeedInv, NetInv,
           Tribbles(Hub)' = Tribbles(Hub), UNCHANGED work, CallsKeep({})
    PROVE  NetDoing' = NetDoing
<1>1. \A d \in Client : DoingOf(d)' = DoingOf(d)
  BY DoingStays DEF Grown, CallsKeep
<1> QED
  BY <1>1 DEF NetDoing

\* Users, subscriptions, tribbles and answers.
LEMMA StoreSeen ==
    /\ \A u : u \in NetUsers <=> u \in Text /\ There(u)
    /\ \A u : u \in NetUsers' <=> u \in Text /\ There(u)'
    /\ \A u, v : <<u, v>> \in NetFollows <=> u \in Text /\ \E x \in HubSubs(u) : v = x.value
    /\ \A p : p \in NetFollows <=> \E u \in Text : \E x \in HubSubs(u) : p = <<u, x.value>>
    /\ \A p : p \in NetFollows' <=> \E u \in Text : \E x \in HubSubs(u)' : p = <<u, x.value>>
    /\ UNCHANGED told => NetTold' = NetTold
<1>1. /\ \A u : u \in NetUsers <=> u \in Text /\ There(u)
      /\ \A u : u \in NetUsers' <=> u \in Text /\ There(u)'
  BY HomeIsHub DEF NetUsers, There
<1>2. \A p : p \in NetFollows <=> \E u \in Text : \E x \in HubSubs(u) : p = <<u, x.value>>
  BY HomeIsHub DEF NetFollows, HubSubs
<1>3. \A p : p \in NetFollows' <=> \E u \in Text : \E x \in HubSubs(u)' : p = <<u, x.value>>
  BY HomeIsHub DEF NetFollows, HubSubs
<1>4. \A u, v : <<u, v>> \in NetFollows <=> u \in Text /\ \E x \in HubSubs(u) : v = x.value
  BY <1>2
<1>5. UNCHANGED told => NetTold' = NetTold
  BY DEF NetTold, ToldOf, Unstamped
<1> QED
  BY <1>1, <1>2, <1>3, <1>4, <1>5

\* When Hub writes nothing, users, subscriptions and posts stay.
LEMMA NetKeeps ==
    ASSUME OneEntryOnly, TypeOK, TypeOK', HubKeeps
    PROVE  /\ NetUsers' = NetUsers /\ NetFollows' = NetFollows /\ NetPosts' = NetPosts
           /\ Tribbles(Hub)' = Tribbles(Hub)
<1>1. Tribbles(Hub)' = Tribbles(Hub)
  BY DEF HubKeeps, Tribbles
<1>2. NetUsers' = NetUsers /\ NetFollows' = NetFollows
  BY HomeIsHub DEF HubKeeps, NetUsers, NetFollows
<1>3. NetPosts' = NetPosts
  BY <1>1, HomeIsHub DEF NetPosts, Numbered, Number
<1> QED
  BY <1>1, <1>2, <1>3

\* An operation that is not decided.
LEMMA Undecided ==
    ASSUME NEW c \in Client, NEW t, NEW n, NEW left, NEW found,
           NetDoing[c] = Net!Doing(t, n, Open, left, found)
    PROVE  /\ NetDoing[c].task = t /\ NetDoing[c].left = left /\ NetDoing[c].found = found
           /\ NetDoing[c].answer = Net!NoAnswer /\ Net!User(c) = t.user /\ Net!Arg(c) = t.arg
<1>1. Net!NoAnswer = Open
  BY DEF Net!NoAnswer, Net!Status, Net!Answer, Open, Answering
<1> QED
  BY <1>1 DEF Net!Doing, Net!User, Net!Arg

\* An answer is decided.
LEMMA Decides ==
    ASSUME NEW c \in Client, NEW t, NEW n, NEW left, NEW found, NEW answer,
           NetDoing[c] = Net!Doing(t, n, Open, left, found),
           NetDoing' = [NetDoing EXCEPT ![c] = Net!Doing(t, n, answer, {}, {})],
           UNCHANGED <<script, told>>
    PROVE  Net!Decide(c, answer)
<1>1. NetTold' = NetTold
  BY StoreSeen
<1>2. [NetDoing EXCEPT ![c].answer = answer, ![c].left = {}, ![c].found = {}] =
         [NetDoing EXCEPT ![c] = Net!Doing(t, n, answer, {}, {})]
  <2> DEFINE f == NetDoing
             g == [f EXCEPT ![c].answer = answer, ![c].left = {}, ![c].found = {}]
             h == [f EXCEPT ![c] = Net!Doing(t, n, answer, {}, {})]
  <2>1. /\ f = [d \in Client |-> f[d]] /\ DOMAIN f = Client
        /\ f[c] = Net!Doing(t, n, Open, left, found)
    BY DEF NetDoing
  <2> HIDE DEF f
  <2>2. /\ g = [d \in Client |-> g[d]] /\ h = [d \in Client |-> h[d]]
        /\ h[c] = Net!Doing(t, n, answer, {}, {}) /\ \A d \in Client \ {c} : g[d] = f[d] /\ h[d] = f[d]
    BY <2>1
  <2>3. g[c] = Net!Doing(t, n, answer, {}, {})
    <3> DEFINE r == [task |-> t, no |-> n, answer |-> Open, left |-> left, found |-> found]
    <3>1. f[c] = r /\ Net!Doing(t, n, answer, {}, {}) =
             [task |-> t, no |-> n, answer |-> answer, left |-> {}, found |-> {}]
      BY <2>1 DEF Net!Doing
    <3>2. [r EXCEPT !.answer = answer, !.left = {}, !.found = {}] =
             [task |-> t, no |-> n, answer |-> answer, left |-> {}, found |-> {}]
      <4> DEFINE r1 == [task |-> t, no |-> n, answer |-> answer, left |-> left, found |-> found]
                 r2 == [task |-> t, no |-> n, answer |-> answer, left |-> {}, found |-> found]
      <4>1. [r EXCEPT !.answer = answer] = r1
        OBVIOUS
      <4>2. [r1 EXCEPT !.left = {}] = r2
        OBVIOUS
      <4>3. [r2 EXCEPT !.found = {}] =
               [task |-> t, no |-> n, answer |-> answer, left |-> {}, found |-> {}]
        OBVIOUS
      <4> HIDE DEF r, r1, r2
      <4>4. [r EXCEPT !.answer = answer, !.left = {}, !.found = {}] =
               [[[r EXCEPT !.answer = answer] EXCEPT !.left = {}] EXCEPT !.found = {}]
        OBVIOUS
      <4> QED
        BY <4>1, <4>2, <4>3, <4>4
    <3>3. g[c] = [f[c] EXCEPT !.answer = answer, !.left = {}, !.found = {}]
      BY <2>1
    <3> HIDE DEF r, g
    <3> QED
      BY <3>1, <3>2, <3>3
  <2>4. g = h
    <3> HIDE DEF g, h
    <3> QED
      BY <2>2, <2>3
  <2> QED
    BY <2>4 DEF f
<1> QED
  BY <1>1, <1>2 DEF Net!Decide

-----------------------------------------------------------------------------
(* Steps of a Tribbler server: an operation begins, goes on or ends.        *)

\* A step of one operation leaves the store and the other clients as they are.
LEMMA AloneSeen ==
    ASSUME OneEntryOnly, HubInv, TypeOK', faults = 0, FeedInv, NetInv, NEW c \in Client, Alone(c)
    PROVE  /\ NetUsers' = NetUsers /\ NetFollows' = NetFollows /\ NetPosts' = NetPosts
           /\ NetDoing[c] = DoingIn(Tribbles(Hub), work[c], call[c], Result(c))
           /\ NetDoing' = [NetDoing EXCEPT ![c] =
                              DoingIn(Tribbles(Hub), work'[c], call'[c], Result(c)')]
           /\ ~Waiting(c) => Result(c)' = "none"
<1>1. TypeOK
  BY DEF HubInv, BaseInv, TribblerInv, CoreInv, TypeInv
<1>2. UNCHANGED <<pc, job, simple, lists>>
  BY DEF Alone, store
<1>3. Tribbles(Hub)' = Tribbles(Hub) /\ HubKeeps
  BY <1>2 DEF Tribbles, HubKeeps
<1>4. \A d \in Client : HubBusy(d)' <=> HubBusy(d)
  BY <1>2 DEF HubBusy
<1>5. ~Waiting(c) => Result(c)' = "none"
  BY <1>4, BusyWrites DEF Alone, Result
<1>6. /\ NetDoing[c] = DoingIn(Tribbles(Hub), work[c], call[c], Result(c))
      /\ NetDoing' = [NetDoing EXCEPT ![c] =
                         DoingIn(Tribbles(Hub)', work'[c], call'[c], Result(c)')]
  BY <1>3, <1>4, DoingMoves DEF Alone, Grown
<1> QED
  BY <1>1, <1>3, <1>5, <1>6, NetKeeps

\* The first step of an operation is Begin of the network.
LEMMA BeginsSeen ==
    ASSUME OneEntryOnly, HubInv, TypeOK', faults = 0, FeedInv, NetInv, NEW c \in Client, Alone(c),
           Begins(c)
    PROVE  Net!Next
<1>1. Idle(c) /\ ~Waiting(c) /\ ~Idle(c)' /\ UNCHANGED told
  BY DEF Begins, Idle, Waiting
<1>2. NetDoing[c] = Net!Nothing
  BY <1>1, AloneSeen DEF DoingIn, Idle
<1>3. NumberAll(Tribbles(Hub), {}) = {}
  BY DEF NumberAll
<1>4. /\ work'[c].task = Head(script[c]) /\ work'[c].no = Len(script[c])
      /\ work'[c].subs = {} /\ work'[c].found = {} /\ script[c] # <<>>
      /\ script' = [script EXCEPT ![c] = Tail(script[c])]
  BY DEF Begins
<1>5. DoingIn(Tribbles(Hub), work'[c], call'[c], "none") =
         Net!Doing(Head(script[c]), Len(script[c]), Open, {}, {})
  <2>1. PICK w, k : w = work'[c] /\ k = call'[c]
    OBVIOUS
  <2>2. k.st # "idle"
    BY <1>1, <2>1 DEF Idle
  <2>3. DoingIn(Tribbles(Hub), w, k, "none") =
           Net!Doing(w.task, w.no, Open, w.subs, NumberAll(Tribbles(Hub), w.found))
    BY <2>2, DoingStages
  <2> QED
    BY <1>3, <1>4, <2>1, <2>3
<1>6. NetDoing' = [NetDoing EXCEPT ![c] =
                      Net!Doing(Head(script[c]), Len(script[c]), Open, {}, {})]
  BY <1>1, <1>5, AloneSeen
<1>7. Net!NoAnswer = Open
  BY DEF Net!NoAnswer, Net!Status, Net!Answer, Open, Answering
<1>8. NetTold' = NetTold
  BY <1>1, StoreSeen
<1>9. Net!Begin(c)
  BY <1>2, <1>4, <1>6, <1>7, <1>8, AloneSeen DEF Net!Begin
<1> QED
  BY <1>9 DEF Net!Next

\* What the next call is made for was decided by the answer to the last one.
LEMMA TurnsSame ==
    ASSUME NEW c \in Client, AskedFor(work[c], call[c].op), NEW r, r # "none", LoopsBlank,
           NEW w, Turns(c, w)
    PROVE  /\ AnswerIn(work[c], call[c], r) = Open
           /\ LeftIn(work[c], call[c], r) = w.subs /\ FoundIn(work[c], call[c], r) = w.found
<1> DEFINE v == work[c]
           k == call[c]
           op == work[c].task.op
<1>1. /\ GoesFrom(c, w) /\ KeepsLoop(c, w) /\ w.task = v.task
      /\ AskedFor(w, call'[c].op)
  BY DEF Turns
<1>2. v.stage # "posts" => v.subs = {} /\ v.found = {}
  BY DEF LoopsBlank
<1>3. CASE w.stage # "posts"
  <2>1. w.subs = v.subs /\ w.found = v.found
    BY <1>1, <1>3 DEF KeepsLoop
  <2>2. /\ v.stage \notin {"subs", "posts", "write", "read", "idle"}
        /\ v.stage = "user" /\ op = "CreateUser" => ~Exists(c)
        /\ v.stage = "user" /\ op # "CreateUser" => Exists(c)
        /\ v.stage = "other" => Exists(c) /\ ~(op = "AddSubscription" /\ User(c) = Arg(c))
    <3>1. w.stage = "list" => op = "CreateUser"
      BY <1>1, StageAsks
    <3>2. w.stage = "write" /\ v.stage = "user" => op # "CreateUser"
      BY <1>1, <1>3 DEF GoesFrom, Does
    <3> QED
      BY <1>1, <1>3, <3>1, <3>2 DEF GoesFrom, Does
  <2>3. LeftIn(v, k, r) = v.subs /\ FoundIn(v, k, r) = v.found
    BY <2>2 DEF LeftIn, FoundIn
  <2>4. AnswerIn(v, k, r) = Open
    <3>1. CASE v.stage = "user"
      BY <2>2, <3>1 DEF AnswerIn, CheckDecides, Exists
    <3>2. CASE v.stage = "other"
      BY <2>2, <3>2 DEF AnswerIn, CheckDecides, Exists, User, Arg
    <3>3. CASE v.stage \notin {"user", "other"}
      BY <2>2, <3>3 DEF AnswerIn
    <3> QED
      BY <3>1, <3>2, <3>3
  <2> QED
    BY <2>1, <2>3, <2>4
<1>4. CASE w.stage = "posts"
  <2>1. op = "GetTribblesBySubscription" /\ w.subs # {}
    BY <1>1, <1>4, StageAsks
  <2>2. CASE v.stage = "subs" /\ w.subs = Subscriptions(c) /\ w.found = {}
    <3>1. LeftIn(v, k, r) = w.subs /\ FoundIn(v, k, r) = w.found
      BY <1>2, <2>2 DEF LeftIn, FoundIn, Subscriptions, SubsIn
    <3>2. AnswerIn(v, k, r) = Open
      BY <2>1, <2>2, <3>1 DEF AnswerIn
    <3> QED
      BY <3>1, <3>2
  <2>3. CASE /\ v.stage = "posts" /\ w.subs = v.subs \ {Asked(c)}
             /\ w.found = v.found \cup Listed(c, Asked(c))
    <3>1. LeftIn(v, k, r) = w.subs /\ FoundIn(v, k, r) = w.found
      BY <2>3 DEF LeftIn, FoundIn, Listed, ListIn, Asked
    <3>2. AnswerIn(v, k, r) = Open
      BY <2>1, <2>3, <3>1 DEF AnswerIn
    <3> QED
      BY <3>1, <3>2
  <2> QED
    BY <1>1, <1>4, <2>2, <2>3 DEF GoesFrom
<1> QED
  BY <1>3, <1>4

\* An operation that goes on to its next call decides nothing: what the network sees of it
\* has been there since Hub handled the call before.
LEMMA TurnsSeen ==
    ASSUME OneEntryOnly, HubInv, TypeOK', faults = 0, FeedInv, NetInv, NEW c \in Client, Alone(c),
           NEW w, Turns(c, w)
    PROVE  UNCHANGED Net!vars
<1>1. /\ Answered(c) /\ ~Idle(c) /\ ~Waiting(c) /\ ~Idle(c)' /\ work'[c] = w
      /\ UNCHANGED <<script, told>> /\ w.task = work[c].task /\ w.no = work[c].no
  BY DEF Turns, Answered, Idle, Waiting
<1>2. AskedFor(work[c], call[c].op) /\ LoopsBlank /\ TypeOK
  BY <1>1 DEF HubInv, BaseInv, Fits, CallsFit, NetInv, TribblerInv, CoreInv, TypeInv
<1>3. Result(c) = call[c].status /\ call[c].status # "none"
  BY <1>1, <1>2 DEF Result, TypeOK, Call, Status, Proc
<1>4. DoingIn(Tribbles(Hub), work[c], call[c], Result(c)) =
         Net!Doing(w.task, w.no, Open, w.subs, NumberAll(Tribbles(Hub), w.found))
  <2> DEFINE v == work[c]
             k == call[c]
             r == Result(c)
  <2>1. AnswerIn(v, k, r) = Open /\ LeftIn(v, k, r) = w.subs /\ FoundIn(v, k, r) = w.found
    BY <1>2, <1>3, TurnsSame
  <2>2. k.st # "idle" /\ v.task = w.task /\ v.no = w.no
    BY <1>1 DEF Idle
  <2> HIDE DEF v, k, r
  <2>3. DoingIn(Tribbles(Hub), v, k, r) =
           Net!Doing(v.task, v.no, Open, LeftIn(v, k, r),
                     NumberAll(Tribbles(Hub), FoundIn(v, k, r)))
    BY <2>1, <2>2, DoingStages
  <2> QED
    BY <2>1, <2>2, <2>3 DEF v, k, r
<1>5. DoingIn(Tribbles(Hub), work'[c], call'[c], Result(c)') =
         Net!Doing(w.task, w.no, Open, w.subs, NumberAll(Tribbles(Hub), w.found))
  BY <1>1, AloneSeen, DoingStages DEF Idle
<1>6. NetDoing' = NetDoing
  BY <1>4, <1>5, AloneSeen DEF NetDoing
<1>7. NetTold' = NetTold
  BY <1>1, StoreSeen
<1> QED
  BY <1>1, <1>6, <1>7, AloneSeen DEF Net!vars

\* The answer that is told is the one that was decided when Hub had handled the call.
LEMMA AnswerDecided ==
    ASSUME NEW c \in Client, AskedFor(work[c], call[c].op), AnswerTrue(c), LoopsBlank,
           work[c].stage = "again" => Exists(c), call[c].status # "none", Sorted(Tribbles(Hub)),
           FromStore(Tribbles(Hub), FoundIn(work[c], call[c], call[c].status)),
           work[c].stage = "read" => FromStore(Tribbles(Hub), Listed(c, User(c))),
           NEW status, NEW tribbles, NEW subscriptions, ~ComesTo(c, "throws"),
           Answers(c, status, tribbles), Carries(c, tribbles, subscriptions)
    PROVE  /\ AnswerIn(work[c], call[c], call[c].status) =
                 Answering(status, Unstamped(tribbles), subscriptions)
           /\ status # "none"
<1> DEFINE v == work[c]
           k == call[c]
           r == call[c].status
           op == work[c].task.op
<1>1. Unstamped(<<>>) = <<>>
  BY DEF Unstamped
<1>2. ~ReadsFeed(c) => tribbles = <<>> /\ Unstamped(tribbles) = <<>>
  BY <1>1 DEF Carries
<1>3. subscriptions = IF ReadsSubs(c) THEN Subscriptions(c) ELSE {}
  BY DEF Carries
<1>4. \A all : FromStore(Tribbles(Hub), all) /\ Shows(all, tribbles) =>
         Unstamped(tribbles) = FeedOf(all)
  BY FeedsAgree
<1>5. FromStore(Tribbles(Hub), {})
  BY FS_EmptySet DEF FromStore
<1>6. v.stage \in {"user", "again", "other", "list", "write", "read", "subs", "posts"}
  BY StageAsks
<1>7. /\ v.stage \in {"read", "subs"} => ReadStatus(r) = "OK" /\ k.op.kind = "GetList"
      /\ v.stage = "other" => op # "CreateUser"
      /\ v.stage = "read" => op = "GetTribbles"
      /\ v.stage = "subs" => op \in {"GetSubscriptions", "GetTribblesBySubscription"}
      /\ v.stage = "posts" => op = "GetTribblesBySubscription"
  <2>1. v.stage \in {"read", "subs"} => k.op.kind = "GetList"
    BY StageAsks
  <2>2. v.stage \in {"read", "subs"} => ReadStatus(r) = "OK"
    BY <2>1 DEF AnswerTrue, ReadStatus
  <2> QED
    BY <2>1, <2>2, StageAsks
<1>8. CASE v.stage = "user"
  <2>1. ~ReadsFeed(c) /\ ~ReadsSubs(c)
    BY <1>8 DEF ReadsFeed, ReadsSubs
  <2>2. \/ op = "CreateUser" /\ Exists(c) /\ status = "EEXISTS"
        \/ op # "CreateUser" /\ ~Exists(c) /\ status = "INVALID_USER"
    BY <1>8 DEF Answers, Does
  <2> QED
    BY <1>2, <1>3, <1>8, <2>1, <2>2 DEF AnswerIn, CheckDecides, Exists
<1>9. CASE v.stage = "other"
  <2>1. ~ReadsFeed(c) /\ ~ReadsSubs(c)
    BY <1>9 DEF ReadsFeed, ReadsSubs
  <2>2. status = "INVALID_SUBSCRIBETO" /\ (~Exists(c) \/ (op = "AddSubscription" /\ User(c) = Arg(c)))
    BY <1>9 DEF Answers, Does
  <2> QED
    BY <1>2, <1>3, <1>9, <2>1, <2>2 DEF AnswerIn, CheckDecides, Exists, User, Arg
<1>10. CASE v.stage = "write"
  <2>1. ~ReadsFeed(c) /\ ~ReadsSubs(c)
    BY <1>10 DEF ReadsFeed, ReadsSubs
  <2>2. status = WriteStatus(op, r)
    BY <1>10 DEF Answers
  <2>3. status # "none"
    BY <2>2 DEF WriteStatus
  <2> QED
    BY <1>2, <1>3, <1>10, <2>1, <2>2, <2>3 DEF AnswerIn
<1>11. CASE v.stage = "read"
  <2>1. status = "OK" /\ Shows(Listed(c, User(c)), tribbles) /\ ~ReadsSubs(c)
    BY <1>7, <1>11 DEF Answers, ReadsSubs
  <2>2. Unstamped(tribbles) = FeedOf(Listed(c, User(c)))
    BY <1>4, <1>11, <2>1
  <2> QED
    BY <1>3, <1>11, <2>1, <2>2 DEF AnswerIn, Listed, ListIn, User
<1>12. CASE v.stage = "subs" /\ op = "GetSubscriptions"
  <2>1. status = "OK" /\ ReadsSubs(c) /\ ~ReadsFeed(c)
    BY <1>7, <1>12 DEF Answers, ReadsSubs, ReadsFeed, Does
  <2> QED
    BY <1>2, <1>3, <1>12, <2>1 DEF AnswerIn, Subscriptions, SubsIn
<1>13. CASE v.stage = "subs" /\ op # "GetSubscriptions"
  <2>1. status = "OK" /\ ~ReadsSubs(c) /\ Subscriptions(c) = {} /\ Shows({}, tribbles)
    BY <1>7, <1>13 DEF Answers, ReadsSubs, Does
  <2>2. Unstamped(tribbles) = FeedOf({})
    BY <1>4, <1>5, <2>1
  <2>3. LeftIn(v, k, r) = {} /\ FoundIn(v, k, r) = {}
    BY <1>13, <2>1 DEF LeftIn, FoundIn, Subscriptions, SubsIn, LoopsBlank
  <2> QED
    BY <1>3, <1>13, <2>1, <2>2, <2>3 DEF AnswerIn
<1>14. CASE v.stage = "posts"
  <2>1. /\ status = "OK" /\ ~ReadsSubs(c) /\ v.subs \ {Asked(c)} = {}
        /\ Shows(v.found \cup Listed(c, Asked(c)), tribbles)
    BY <1>14 DEF Answers, ReadsSubs
  <2>2. FoundIn(v, k, r) = v.found \cup Listed(c, Asked(c)) /\ LeftIn(v, k, r) = {}
    BY <1>14, <2>1 DEF FoundIn, LeftIn, Asked, Listed, ListIn
  <2>3. Unstamped(tribbles) = FeedOf(FoundIn(v, k, r))
    BY <1>4, <2>1, <2>2
  <2> QED
    BY <1>3, <1>7, <1>14, <2>1, <2>2, <2>3 DEF AnswerIn
<1>15. CASE v.stage \in {"again", "list"}
  BY <1>15 DEF Answers
<1> QED
  BY <1>6, <1>8, <1>9, <1>10, <1>11, <1>12, <1>13, <1>14, <1>15

\* The answer is told.
LEMMA TellsSeen ==
    ASSUME OneEntryOnly, HubInv, TypeOK', faults = 0, ToldInv, StatusInv, FeedInv, NetInv,
           NEW c \in Client, Alone(c), NEW a, Tells(c, a)
    PROVE  Net!Next
<1>1. /\ Answered(c) /\ ~Idle(c) /\ ~Waiting(c) /\ Idle(c)' /\ told' = told \cup {a}
      /\ ScriptAfter(c, a) /\ a.by = c /\ a.no = work[c].no /\ a.task = work[c].task
      /\ Answers(c, a.status, a.tribbles) /\ Carries(c, a.tribbles, a.subscriptions)
  BY DEF Tells, Answered, Idle, Waiting
<1>2. /\ AskedFor(work[c], call[c].op) /\ LoopsBlank /\ TasksFit /\ Sorted(Tribbles(Hub))
      /\ TypeOK /\ AnswerTrue(c) /\ MissesTrue
  BY <1>1 DEF HubInv, BaseInv, Fits, CallsFit, NetInv, TribblerInv, CoreInv, TypeInv, ToldInv,
              AnswersTrue, StatusInv
<1>3. Result(c) = call[c].status /\ call[c].status # "none"
  BY <1>1, <1>2 DEF Result, TypeOK, Call, Status, Proc
<1>4. work[c].stage = "again" => Exists(c)
  BY <1>1, <1>2, StageAsks DEF MissesTrue, Exists
<1>5. /\ FromStore(Tribbles(Hub), FoundIn(work[c], call[c], call[c].status))
      /\ work[c].stage = "read" => FromStore(Tribbles(Hub), Listed(c, User(c)))
  BY <1>1, <1>2, <1>3, LoopStored
<1> DEFINE answer == Answering(a.status, Unstamped(a.tribbles), a.subscriptions)
<1>6. ~ComesTo(c, "throws") /\ UNCHANGED script
  <2>1. ~ComesTo(c, "throws")
    BY <1>1, <1>2, NothingThrows DEF FeedInv, ReadsTrue
  <2>2. WriteStatus(work[c].task.op, call[c].status) # "exception"
    BY DEF WriteStatus
  <2> QED
    BY <1>1, <2>1, <2>2 DEF Answers, ScriptAfter
<1>7. AnswerIn(work[c], call[c], Result(c)) = answer /\ a.status # "none"
  BY <1>1, <1>2, <1>3, <1>4, <1>5, <1>6, AnswerDecided
<1>8. answer # Open
  BY <1>7 DEF Open, Answering
<1>9. NetDoing[c] = Net!Doing(work[c].task, work[c].no, answer, {}, {})
  <2> DEFINE v == work[c]
             k == call[c]
             r == Result(c)
  <2>1. AnswerIn(v, k, r) = answer /\ answer # Open /\ k.st # "idle"
    BY <1>1, <1>7, <1>8 DEF Idle
  <2>2. NetDoing[c] = DoingIn(Tribbles(Hub), v, k, r)
    BY AloneSeen
  <2> HIDE DEF v, k, r, answer
  <2>3. DoingIn(Tribbles(Hub), v, k, r) = Net!Doing(v.task, v.no, AnswerIn(v, k, r), {}, {})
    BY <2>1, DoingStages
  <2> QED
    BY <2>1, <2>2, <2>3 DEF v
<1> HIDE DEF answer
<1>10. NetDoing' = [NetDoing EXCEPT ![c] = Net!Nothing]
  BY <1>1, AloneSeen DEF DoingIn, Idle
<1>11. ToldOf(a) = [by |-> c, no |-> work[c].no, task |-> work[c].task, answer |-> answer]
  BY <1>1 DEF ToldOf, answer
<1>12. NetTold' = NetTold \cup {ToldOf(a)}
  BY <1>1 DEF NetTold, ToldOf
<1>13. Net!NoAnswer = Open
  BY DEF Net!NoAnswer, Net!Status, Net!Answer, Open, Answering
<1>14. /\ NetDoing[c].task = work[c].task /\ NetDoing[c].no = work[c].no
       /\ NetDoing[c].answer = answer
  BY <1>9 DEF Net!Doing
<1>15. Net!Tell(c)
  BY <1>1, <1>6, <1>8, <1>10, <1>11, <1>12, <1>13, <1>14, AloneSeen DEF Net!Tell
<1> QED
  BY <1>15 DEF Net!Next

-----------------------------------------------------------------------------
(* What Hub does for a client, seen by the network. *)

\* All that is known while nothing crashes.
LEMMA KnownNow ==
    ASSUME OneEntryOnly, ServedInv, FeedInv, NetInv, faults = 0
    PROVE  /\ HubInv /\ BaseInv /\ TypeOK /\ TribblerTypeOK /\ CallsFit /\ Rep(AtHub)
           /\ AnswersTrue /\ UsersThere /\ PairsWritten /\ PairsStored /\ ListsAsked
           /\ TasksFit /\ LoopsBlank /\ OthersThere /\ SubsPlain /\ Sorted(Tribbles(Hub))
  BY DEF ServedInv, HubInv, BaseInv, Fits, TribblerInv, CoreInv, TypeInv, ToldInv, PairInv,
         FeedInv, NetInv

\* The operation of c before and after a step that decides on r with the call k.
Moved(c, k, r) ==
    LET w == work[c]
    IN  /\ NetDoing[c] = Net!Doing(w.task, w.no, Open, w.subs, NumberAll(Tribbles(Hub), w.found))
        /\ AnswerIn(w, k, r) # Open =>
              NetDoing' = [NetDoing EXCEPT ![c] =
                              Net!Doing(w.task, w.no, AnswerIn(w, k, r), {}, {})]
        /\ AnswerIn(w, k, r) = Open =>
              NetDoing' = [NetDoing EXCEPT ![c] =
                              Net!Doing(w.task, w.no, Open, LeftIn(w, k, r),
                                        NumberAll(Tribbles(Hub)', FoundIn(w, k, r)))]

\* A step that decides for c, and that no other client sees, moves its operation.
LEMMA HandledMoves ==
    ASSUME OneEntryOnly, HubInv, TypeOK', faults = 0, FeedInv, NetInv,
           Grown(Tribbles(Hub), Tribbles(Hub)'), NEW c \in Client, UNCHANGED work,
           CallsKeep({c}), ~Idle(c), Result(c) = "none",
           NEW k, k = call'[c], k.st # "idle", NEW r, r = Result(c)'
    PROVE  Moved(c, k, r)
<1>1. /\ NetDoing[c] = DoingIn(Tribbles(Hub), work[c], call[c], Result(c))
      /\ NetDoing' = [NetDoing EXCEPT ![c] =
                         DoingIn(Tribbles(Hub)', work'[c], call'[c], Result(c)')]
  BY DoingMoves DEF CallsKeep
<1>2. PICK w, j, U : w = work[c] /\ j = call[c] /\ U = Tribbles(Hub)'
  OBVIOUS
<1>3. j.st # "idle"
  BY <1>2 DEF Idle
<1>4. DoingIn(Tribbles(Hub), w, j, "none") =
         Net!Doing(w.task, w.no, Open, w.subs, NumberAll(Tribbles(Hub), w.found))
  BY <1>3, DoingStages
<1>5. /\ AnswerIn(w, k, r) = Open =>
            DoingIn(U, w, k, r) = Net!Doing(w.task, w.no, Open, LeftIn(w, k, r),
                                            NumberAll(U, FoundIn(w, k, r)))
      /\ AnswerIn(w, k, r) # Open =>
            DoingIn(U, w, k, r) = Net!Doing(w.task, w.no, AnswerIn(w, k, r), {}, {})
  BY DoingStages
<1>6. NetDoing[c] = DoingIn(Tribbles(Hub), w, j, "none")
  BY <1>1, <1>2
<1>7. NetDoing' = [NetDoing EXCEPT ![c] = DoingIn(U, w, k, r)]
  BY <1>1, <1>2
<1> QED
  BY <1>2, <1>4, <1>5, <1>6, <1>7 DEF Moved

\* What Hub replies to a call, by what the call is for.
ReplyTrue(w, k, r) ==
    /\ AskedFor(w, k.op) /\ r # "none"
    /\ w.stage \in {"user", "again"} => (k.status # "EKEYNOTFOUND" <=> There(w.task.user))
    /\ w.stage = "other" => (k.status # "EKEYNOTFOUND" <=> There(w.task.arg))
    /\ w.stage = "write" =>
          /\ w.task.op # "PostTribble"
          /\ w.task.op = "CreateUser" => r = "EPUTFAILED" /\ There(w.task.user)
          /\ w.task.op = "AddSubscription" =>
                r = "EITEMEXISTS" /\ Plain(w.task.arg) \in HubSubs(w.task.user)
          /\ w.task.op = "RemoveSubscription" =>
                r # "OK" /\ Plain(w.task.arg) \notin HubSubs(w.task.user)
    /\ w.stage = "subs" => k.values = HubSubs(w.task.user)
    /\ \A u : w.stage \in {"read", "posts"} /\ k.op.key = TribbleKey(u) => k.values = HubPosts(u)

\* A call that is answered without storing anything.
LEMMA RepliesTrue ==
    ASSUME OneEntryOnly, ServedInv, TypeOK', faults = 0, FeedInv, NetInv,
           NEW c \in Client, HubReplies(c), UNCHANGED work
    PROVE  \E k, r : Moved(c, k, r) /\ ReplyTrue(work[c], k, r)
<1>1. /\ HubInv /\ TypeOK /\ TribblerTypeOK /\ CallsFit /\ Rep(AtHub) /\ TasksFit
      /\ Hub \in Server /\ \A x \in Key : AtHub[x] = Hub
  BY KnownNow, HubServes
<1>2. PICK r, values, h : Gets(c, r, values) /\ Asking(c, h) /\ Says(Hub, h, r, values)
  BY DEF HubReplies
<1>3. PICK k : k = call'[c]
  OBVIOUS
<1>4. /\ k.op = call[c].op /\ k.status = r /\ k.values = values /\ k.st = "done"
      /\ Waiting(c) /\ ~Idle(c)
  BY <1>2, <1>3 DEF Gets, Waiting, Idle
<1>5. r # "none"
  <2>1. call'[c] \in Call
    BY DEF TypeOK, Proc
  <2> QED
    BY <1>3, <1>4, <2>1 DEF Call, Status
<1>6. AskedFor(work[c], k.op) /\ work[c].task \in Task /\ TaskFits(work[c].task)
  BY <1>1, <1>4 DEF CallsFit, TasksFit, TribblerTypeOK
<1>7. h.kind = k.op.kind /\ h.key = k.op.key /\ h.item = k.op.item /\ h.from = c
  BY <1>2, <1>4 DEF Asking
<1>8. Moved(c, k, r)
  <2>1. CallsKeep({c}) /\ HubKeeps /\ ~HubBusy(c) /\ ~HubBusy(c)'
    BY DEF HubReplies
  <2>2. Grown(Tribbles(Hub), Tribbles(Hub)')
    BY <1>1, <2>1, NetKeeps DEF Grown
  <2>3. Result(c) = "none"
    BY <1>4, <2>1 DEF Result, Answered, Waiting
  <2>4. Result(c)' = r
    BY <1>3, <1>4 DEF Result, Answered
  <2> QED
    BY <1>1, <1>3, <1>4, <2>1, <2>2, <2>3, <2>4, HandledMoves
<1> DEFINE w == work[c]
<1>9. h.kind = "Get" => (r # "EKEYNOTFOUND" <=> h.key \in DOMAIN simple[Hub])
  BY <1>2 DEF Says, StoreGet
<1>10. h.kind = "GetList" => values = ItemsAt(lists[Hub], h.key)
  BY <1>2 DEF Says, StoreGetList, ItemsAt
<1>11. h.kind = "Put" /\ h.key # ServerSyscmd => r = "EPUTFAILED" /\ h.key \in DOMAIN simple[Hub]
  BY <1>2 DEF Says
<1>12. h.kind = "AddToList" /\ ~IsTribble(h.key) =>
          r = "EITEMEXISTS" /\ h.item \in ItemsAt(lists[Hub], h.key)
  BY <1>2 DEF Says, IsPost
<1>13. ~(h.kind = "AddToList" /\ IsTribble(h.key))
  <2> SUFFICES ASSUME h.kind = "AddToList", IsTribble(h.key)
               PROVE  FALSE
    OBVIOUS
  <2>1. PICK item \in ItemsAt(lists[Hub], h.key) : item.vt[Hub] = vt[Hub][Hub] + 1
    BY <1>2, <1>7 DEF Says, IsPost
  <2>2. h.key \in Key
    BY <1>2 DEF Asking, Request
  <2>3. item.vt \in Stamp /\ item.vt[Hub] <= vt[Hub][Hub]
    BY <1>1, <2>1, <2>2 DEF Rep, WriterStamps
  <2>4. vt[Hub][Hub] \in Nat
    BY <1>1 DEF TypeOK, Stamp
  <2> QED
    BY <2>1, <2>3, <2>4
<1>14. h.kind = "RemoveFromList" => r # "OK" /\ h.item \notin ItemsAt(lists[Hub], h.key)
  BY <1>2 DEF Says, ItemsAt
<1>15. w.stage \in {"user", "again"} => (k.status # "EKEYNOTFOUND" <=> There(w.task.user))
  BY <1>4, <1>6, <1>7, <1>9, StageAsks DEF There
<1>16. w.stage = "other" => (k.status # "EKEYNOTFOUND" <=> There(w.task.arg))
  BY <1>4, <1>6, <1>7, <1>9, StageAsks DEF There
<1>17. w.stage = "write" /\ w.task.op = "CreateUser" => r = "EPUTFAILED" /\ There(w.task.user)
  BY <1>6, <1>7, <1>11, StageAsks, NameKeys DEF There, TaskFits, Task
<1>18. w.stage = "write" => w.task.op # "PostTribble"
  <2> SUFFICES ASSUME w.stage = "write", w.task.op = "PostTribble"
               PROVE  FALSE
    OBVIOUS
  <2>1. h.kind = "AddToList" /\ h.key = TribbleKey(w.task.user)
    BY <1>6, <1>7, StageAsks
  <2>2. w.task.user # ""
    BY <1>6 DEF TaskFits
  <2> QED
    <3>1. \A u : u # "" => IsTribble(TribbleKey(u))
      BY DEF IsTribble, TribbleKey
    <3>2. IsTribble(h.key)
      BY <2>1, <2>2, <3>1
    <3> QED
      BY <1>13, <2>1, <3>2
<1>19. w.stage = "write" /\ w.task.op = "AddSubscription" =>
          r = "EITEMEXISTS" /\ Plain(w.task.arg) \in HubSubs(w.task.user)
  BY <1>6, <1>7, <1>12, <1>13, StageAsks DEF HubSubs
<1>20. w.stage = "write" /\ w.task.op = "RemoveSubscription" =>
          r # "OK" /\ Plain(w.task.arg) \notin HubSubs(w.task.user)
  BY <1>6, <1>7, <1>14, StageAsks DEF HubSubs
<1>21. w.stage = "subs" => k.values = HubSubs(w.task.user)
  BY <1>4, <1>6, <1>7, <1>10, StageAsks DEF HubSubs
<1>22. ASSUME NEW u, w.stage \in {"read", "posts"}, k.op.key = TribbleKey(u)
       PROVE  k.values = HubPosts(u)
  BY <1>4, <1>6, <1>7, <1>10, <1>22, StageAsks DEF HubPosts
<1>23. ReplyTrue(w, k, r)
  BY <1>5, <1>6, <1>15, <1>16, <1>17, <1>18, <1>19, <1>20, <1>21, <1>22 DEF ReplyTrue
<1> QED
  BY <1>8, <1>23

\* Nothing is decided, and nobody else looked at.
LEMMA NothingMoves ==
    ASSUME NEW c \in Client, NEW k, NEW r, Moved(c, k, r), AnswerIn(work[c], k, r) = Open,
           LeftIn(work[c], k, r) = work[c].subs, FoundIn(work[c], k, r) = work[c].found,
           work[c].found = {} \/ Tribbles(Hub)' = Tribbles(Hub)
    PROVE  NetDoing' = NetDoing
<1> DEFINE d == NetDoing
<1>1. NumberAll(Tribbles(Hub)', work[c].found) = NumberAll(Tribbles(Hub), work[c].found)
  <2>1. \A T : NumberAll(T, {}) = {}
    BY DEF NumberAll
  <2>2. CASE work[c].found = {}
    BY <2>1, <2>2
  <2>3. CASE Tribbles(Hub)' = Tribbles(Hub)
    <3>1. PICK T : T = Tribbles(Hub)
      OBVIOUS
    <3>2. Tribbles(Hub)' = T
      BY <2>3, <3>1
    <3> QED
      BY <3>1, <3>2
  <2> QED
    BY <2>2, <2>3
<1>2. NetDoing' = [d EXCEPT ![c] = d[c]]
  BY <1>1 DEF Moved
<1>3. d = [e \in Client |-> d[e]]
  BY DEF NetDoing
<1> HIDE DEF d
<1>4. [d EXCEPT ![c] = d[c]] = d
  BY <1>3
<1> QED
  BY <1>2, <1>4 DEF d

\* Somebody is looked at.
LEMMA Looks ==
    ASSUME NEW c \in Client, NEW t, NEW n, NEW left, NEW found, NEW rest, NEW all,
           NetDoing[c] = Net!Doing(t, n, Open, left, found),
           NetDoing' = [NetDoing EXCEPT ![c] = Net!Doing(t, n, Open, rest, all)],
           rest # {}, UNCHANGED <<script, told>>,
           NetUsers' = NetUsers, NetFollows' = NetFollows, NetPosts' = NetPosts
    PROVE  Net!Look(c, rest, all)
<1> DEFINE f == NetDoing
           g == [f EXCEPT ![c].left = rest, ![c].found = all]
           h == [f EXCEPT ![c] = Net!Doing(t, n, Open, rest, all)]
<1>1. /\ f = [d \in Client |-> f[d]] /\ DOMAIN f = Client
      /\ f[c] = Net!Doing(t, n, Open, left, found) /\ NetDoing' = h
  BY DEF NetDoing
<1> HIDE DEF f
<1>2. /\ g = [d \in Client |-> g[d]] /\ h = [d \in Client |-> h[d]]
      /\ h[c] = Net!Doing(t, n, Open, rest, all) /\ \A d \in Client \ {c} : g[d] = f[d] /\ h[d] = f[d]
  BY <1>1
<1>3. g[c] = Net!Doing(t, n, Open, rest, all)
  <2> DEFINE r == [task |-> t, no |-> n, answer |-> Open, left |-> left, found |-> found]
             r1 == [task |-> t, no |-> n, answer |-> Open, left |-> rest, found |-> found]
             r2 == [task |-> t, no |-> n, answer |-> Open, left |-> rest, found |-> all]
  <2>1. f[c] = r /\ Net!Doing(t, n, Open, rest, all) = r2
    BY <1>1 DEF Net!Doing
  <2>2. [r EXCEPT !.left = rest] = r1
    OBVIOUS
  <2>3. [r1 EXCEPT !.found = all] = r2
    OBVIOUS
  <2>4. g[c] = [f[c] EXCEPT !.left = rest, !.found = all]
    BY <1>1
  <2> HIDE DEF r, r1, r2, g
  <2>5. [r EXCEPT !.left = rest, !.found = all] =
           [[r EXCEPT !.left = rest] EXCEPT !.found = all]
    OBVIOUS
  <2> QED
    BY <2>1, <2>2, <2>3, <2>4, <2>5
<1>4. g = h
  <2> HIDE DEF g, h
  <2> QED
    BY <1>2, <1>3
<1>5. NetTold' = NetTold
  BY StoreSeen
<1> QED
  BY <1>1, <1>4, <1>5 DEF f, Net!Look

\* What a step decides for c, with the call k and the status r, is all it decides.
Settles(c, k, r) == Moved(c, k, r) /\ ~Idle(c) /\ UNCHANGED <<script, told>>

\* c gets the reply r, in the call k, and nothing else happens.
Replied(c, k, r) ==
    /\ Settles(c, k, r) /\ ReplyTrue(work[c], k, r)
    /\ NetUsers' = NetUsers /\ NetFollows' = NetFollows /\ NetPosts' = NetPosts
    /\ Tribbles(Hub)' = Tribbles(Hub)

\* What the network knows of the operation of c then.
LEMMA SettledSeen ==
    ASSUME OneEntryOnly, ServedInv, FeedInv, NetInv, faults = 0,
           NEW c \in Client, NEW k, NEW r, Settles(c, k, r)
    PROVE  /\ work[c].task \in Task /\ NetDoing[c].task = work[c].task
           /\ NetDoing[c].left = work[c].subs /\ NetDoing[c].answer = Net!NoAnswer
           /\ NetDoing[c].found = NumberAll(Tribbles(Hub), work[c].found)
           /\ NetDoing[c] # Net!Nothing
           /\ Net!User(c) = work[c].task.user /\ Net!Arg(c) = work[c].task.arg
           /\ work[c].task.user \in NetUsers <=> There(work[c].task.user)
           /\ work[c].task.arg \in NetUsers <=> There(work[c].task.arg)
           /\ work[c].stage # "user" /\ work[c].task.op # "CreateUser" =>
                 work[c].task.user \in NetUsers
<1>1. TribblerTypeOK /\ UsersThere /\ ~Idle(c)
  BY KnownNow DEF Settles
<1>2. work[c].task \in Task
  BY <1>1 DEF TribblerTypeOK
<1>3. work[c].task.user \in Text /\ work[c].task.arg \in Text /\ work[c].task.op # "none"
  BY <1>2 DEF Task, Operation
<1>4. /\ work[c].task.user \in NetUsers <=> There(work[c].task.user)
      /\ work[c].task.arg \in NetUsers <=> There(work[c].task.arg)
  BY <1>3, StoreSeen
<1>5. work[c].stage # "user" /\ work[c].task.op # "CreateUser" => There(work[c].task.user)
  BY <1>1 DEF UsersThere
<1>6. PICK t, n, left, found :
         /\ t = work[c].task /\ n = work[c].no /\ left = work[c].subs
         /\ found = NumberAll(Tribbles(Hub), work[c].found)
  OBVIOUS
<1>7. NetDoing[c] = Net!Doing(t, n, Open, left, found)
  BY <1>6 DEF Settles, Moved
<1>8. /\ NetDoing[c].task = t /\ NetDoing[c].left = left /\ NetDoing[c].found = found
      /\ NetDoing[c].answer = Net!NoAnswer /\ Net!User(c) = t.user /\ Net!Arg(c) = t.arg
  BY <1>7, Undecided
<1>9. Net!Nothing.task.op = "none"
  BY DEF Net!Nothing, Net!Doing
<1>10. NetDoing[c] # Net!Nothing
  BY <1>3, <1>6, <1>8, <1>9
<1> QED
  BY <1>2, <1>4, <1>5, <1>6, <1>8, <1>10

\* What it decides then.
LEMMA SettledDecides ==
    ASSUME NEW c \in Client, NEW k, NEW r, Settles(c, k, r),
           NEW answer, AnswerIn(work[c], k, r) = answer, answer # Open
    PROVE  Net!Decide(c, answer)
<1>1. PICK t, n, left, found :
         /\ t = work[c].task /\ n = work[c].no /\ left = work[c].subs
         /\ found = NumberAll(Tribbles(Hub), work[c].found)
  OBVIOUS
<1>2. NetDoing[c] = Net!Doing(t, n, Open, left, found)
  BY <1>1 DEF Settles, Moved
<1>3. NetDoing' = [NetDoing EXCEPT ![c] = Net!Doing(t, n, answer, {}, {})]
  BY <1>1 DEF Settles, Moved
<1> QED
  BY <1>2, <1>3, Decides DEF Settles

\* The look-up of the user.
LEMMA UserReplies ==
    ASSUME OneEntryOnly, ServedInv, FeedInv, NetInv, faults = 0,
           NEW c \in Client, NEW k, NEW r, Replied(c, k, r), work[c].stage = "user"
    PROVE  NetDoing' = NetDoing \/ Net!Next
<1> DEFINE w == work[c]
<1>1. r # "none" /\ (k.status # "EKEYNOTFOUND" <=> There(w.task.user))
  BY DEF Replied, ReplyTrue
<1>2. LeftIn(w, k, r) = w.subs /\ FoundIn(w, k, r) = w.found
  BY DEF LeftIn, FoundIn
<1>3. AnswerIn(w, k, r) =
         IF w.task.op = "CreateUser" THEN CheckDecides(There(w.task.user), "EEXISTS")
         ELSE CheckDecides(~There(w.task.user), "INVALID_USER")
  BY <1>1 DEF AnswerIn, CheckDecides
<1>4. CASE AnswerIn(w, k, r) = Open
  BY <1>2, <1>4, NothingMoves DEF Replied, Settles
<1>5. CASE AnswerIn(w, k, r) # Open
  <2>0. PICK answer : answer = AnswerIn(w, k, r)
    OBVIOUS
  <2>1. \/ /\ w.task.op = "CreateUser" /\ There(w.task.user)
           /\ answer = Net!Status("EEXISTS")
        \/ /\ w.task.op # "CreateUser" /\ ~There(w.task.user)
           /\ answer = Net!Status("INVALID_USER")
    BY <1>3, <1>5, <2>0 DEF CheckDecides, Net!Status, Net!Answer, Answering
  <2>2. Net!Decide(c, answer)
    BY <1>5, <2>0, SettledDecides DEF Replied
  <2>3. CASE /\ w.task.op = "CreateUser" /\ There(w.task.user)
             /\ answer = Net!Status("EEXISTS")
    <3>1. Net!Asks(c, {"CreateUser"}, TRUE)
      BY <2>3, SettledSeen DEF Replied, Net!Asks
    <3>2. Net!Taken(c)
      BY <2>2, <2>3, <3>1 DEF Net!Taken, Replied
    <3> QED
      BY <3>2 DEF Net!Next
  <2>4. CASE /\ w.task.op # "CreateUser" /\ ~There(w.task.user)
             /\ answer = Net!Status("INVALID_USER")
    <3>1. Net!Asks(c, {NetDoing[c].task.op}, FALSE)
      BY <2>4, SettledSeen DEF Replied, Net!Asks
    <3>2. NetDoing[c] # Net!Nothing /\ NetDoing[c].task.op # "CreateUser"
      BY <2>4, SettledSeen DEF Replied
    <3>3. Net!Refuse(c)
      BY <2>2, <2>4, <3>1, <3>2 DEF Net!Refuse, Replied
    <3> QED
      BY <3>3 DEF Net!Next
  <2> QED
    BY <2>1, <2>3, <2>4
<1> QED
  BY <1>4, <1>5

\* The look-up of the user to be subscribed to.
LEMMA OtherReplies ==
    ASSUME OneEntryOnly, ServedInv, FeedInv, NetInv, faults = 0,
           NEW c \in Client, NEW k, NEW r, Replied(c, k, r), work[c].stage = "other"
    PROVE  NetDoing' = NetDoing \/ Net!Next
<1> DEFINE w == work[c]
           bad == ~There(w.task.arg) \/ (w.task.op = "AddSubscription" /\ w.task.user = w.task.arg)
<1>1. /\ r # "none" /\ (k.status # "EKEYNOTFOUND" <=> There(w.task.arg))
      /\ AskedFor(w, k.op)
  BY DEF Replied, ReplyTrue
<1>2. LeftIn(w, k, r) = w.subs /\ FoundIn(w, k, r) = w.found
  BY DEF LeftIn, FoundIn
<1>3. w.task.op \in {"AddSubscription", "RemoveSubscription"}
  BY <1>1, StageAsks
<1>4. AnswerIn(w, k, r) = CheckDecides(bad, "INVALID_SUBSCRIBETO")
  BY <1>1 DEF AnswerIn, CheckDecides
<1>5. CASE AnswerIn(w, k, r) = Open
  BY <1>2, <1>5, NothingMoves DEF Replied, Settles
<1>6. CASE AnswerIn(w, k, r) # Open
  <2>0. PICK answer : answer = AnswerIn(w, k, r)
    OBVIOUS
  <2>1. bad /\ answer = Net!Status("INVALID_SUBSCRIBETO")
    BY <1>4, <1>6, <2>0 DEF CheckDecides, Net!Status, Net!Answer, Answering
  <2>2. Net!Decide(c, answer)
    BY <1>6, <2>0, SettledDecides DEF Replied
  <2>3. Net!Asks(c, {"AddSubscription", "RemoveSubscription"}, TRUE)
    BY <1>3, SettledSeen DEF Replied, Net!Asks
  <2>4. \/ Net!Arg(c) \notin NetUsers
        \/ NetDoing[c].task.op = "AddSubscription" /\ Net!Arg(c) = Net!User(c)
    BY <2>1, SettledSeen DEF Replied
  <2>5. Net!RefuseOther(c)
    BY <2>1, <2>2, <2>3, <2>4 DEF Net!RefuseOther, Replied
  <2> QED
    BY <2>5 DEF Net!Next
<1> QED
  BY <1>5, <1>6

\* A write that the store refuses.
LEMMA WriteReplies ==
    ASSUME OneEntryOnly, ServedInv, FeedInv, NetInv, faults = 0,
           NEW c \in Client, NEW k, NEW r, Replied(c, k, r), work[c].stage = "write"
    PROVE  Net!Next
<1> DEFINE w == work[c]
           user == work[c].task.user
           arg == work[c].task.arg
<1>1. ReplyTrue(w, k, r) /\ w.task.op \in Writers /\ r # "none"
  BY StageAsks DEF Replied, ReplyTrue
<1>2. PairsWritten /\ OthersThere /\ SubsPlain /\ ~Idle(c)
  BY KnownNow DEF Replied, Settles
<1>3. AnswerIn(w, k, r) = Answering(WriteStatus(w.task.op, r), <<>>, {})
  BY <1>1 DEF AnswerIn
<1>4. ASSUME NEW status, WriteStatus(w.task.op, r) = status, status # "none",
             NEW answer, answer = Net!Status(status)
      PROVE  Net!Decide(c, answer)
  <2>1. AnswerIn(w, k, r) = answer /\ answer # Open
    BY <1>3, <1>4 DEF Net!Status, Net!Answer, Answering, Open
  <2> QED
    BY <2>1, SettledDecides DEF Replied
<1>5. user \in Text /\ arg \in Text
  BY SettledSeen DEF Replied, Task
<1>6. <<user, arg>> \in NetFollows <=> Plain(arg) \in HubSubs(user)
  <2>1. <<user, arg>> \in NetFollows <=> \E x \in HubSubs(user) : arg = x.value
    BY <1>5, StoreSeen
  <2>2. \A x \in HubSubs(user) : arg = x.value => x = Plain(arg)
    BY <1>2 DEF SubsPlain
  <2>3. Plain(arg).value = arg
    BY DEF Plain
  <2> QED
    BY <2>1, <2>2, <2>3
<1>7. CASE w.task.op = "CreateUser"
  <2>1. r = "EPUTFAILED" /\ There(user)
    BY <1>1, <1>7 DEF ReplyTrue
  <2>2. PICK answer : answer = Net!Status("STORE_FAILED")
    OBVIOUS
  <2>3. Net!Decide(c, answer)
    BY <1>4, <1>7, <2>1, <2>2 DEF WriteStatus
  <2>4. Net!Asks(c, {"CreateUser"}, TRUE)
    BY <1>7, <2>1, SettledSeen DEF Replied, Net!Asks
  <2>5. Net!Taken(c)
    BY <2>2, <2>3, <2>4 DEF Net!Taken, Replied
  <2> QED
    BY <2>5 DEF Net!Next
<1>8. CASE w.task.op = "AddSubscription"
  <2>1. r = "EITEMEXISTS" /\ Plain(arg) \in HubSubs(user)
    BY <1>1, <1>8 DEF ReplyTrue
  <2>2. PICK answer : answer = Net!Status("EEXISTS")
    OBVIOUS
  <2>3. Net!Decide(c, answer)
    BY <1>4, <1>8, <2>1, <2>2 DEF WriteStatus
  <2>4. Net!Asks(c, {"AddSubscription"}, TRUE)
    BY <1>8, SettledSeen DEF Replied, Net!Asks
  <2>5. Pair(user, arg)
    BY <1>2, <1>8 DEF PairsWritten
  <2>6. Net!Arg(c) \in NetUsers \ {Net!User(c)}
    BY <2>5, SettledSeen DEF Replied, Pair
  <2>7. /\ <<Net!User(c), Net!Arg(c)>> \in NetFollows
        /\ NetFollows' = NetFollows \cup {<<Net!User(c), Net!Arg(c)>>}
    BY <1>6, <2>1, SettledSeen DEF Replied
  <2>8. Net!Subscribe(c)
    BY <2>2, <2>3, <2>4, <2>6, <2>7 DEF Net!Subscribe, Replied
  <2> QED
    BY <2>8 DEF Net!Next
<1>9. CASE w.task.op = "RemoveSubscription"
  <2>1. r # "OK" /\ Plain(arg) \notin HubSubs(user)
    BY <1>1, <1>9 DEF ReplyTrue
  <2>2. PICK answer : answer = Net!Status("STORE_FAILED")
    OBVIOUS
  <2>3. Net!Decide(c, answer)
    BY <1>4, <1>9, <2>1, <2>2 DEF WriteStatus
  <2>4. Net!Asks(c, {"RemoveSubscription"}, TRUE)
    BY <1>9, SettledSeen DEF Replied, Net!Asks
  <2>5. There(arg)
    BY <1>2, <1>9 DEF OthersThere
  <2>6. Net!Arg(c) \in NetUsers
    BY <2>5, SettledSeen DEF Replied
  <2>7. /\ <<Net!User(c), Net!Arg(c)>> \notin NetFollows
        /\ NetFollows' = NetFollows \ {<<Net!User(c), Net!Arg(c)>>}
    BY <1>6, <2>1, SettledSeen DEF Replied
  <2>8. Net!Unsubscribe(c)
    BY <2>2, <2>3, <2>4, <2>6, <2>7 DEF Net!Unsubscribe, Replied
  <2> QED
    BY <2>8 DEF Net!Next
<1> QED
  BY <1>1, <1>7, <1>8, <1>9 DEF Writers, ReplyTrue

\* The list of one user's tribbles, for GetTribbles.
LEMMA ReadReplies ==
    ASSUME OneEntryOnly, ServedInv, FeedInv, NetInv, faults = 0,
           NEW c \in Client, NEW k, NEW r, Replied(c, k, r), work[c].stage = "read"
    PROVE  Net!Next
<1>1. /\ r # "none" /\ k.op.key = TribbleKey(work[c].task.user)
      /\ work[c].task.op = "GetTribbles" /\ k.values = HubPosts(work[c].task.user)
  BY StageAsks DEF Replied, ReplyTrue
<1>2. HubInv /\ TypeOK /\ ListsAsked /\ TasksFit /\ Sorted(Tribbles(Hub))
  BY KnownNow
<1>3. PICK T, u, all : T = Tribbles(Hub) /\ u = work[c].task.user /\ all = ListIn(k, u)
  OBVIOUS
<1>4. FromStore(T, all) /\ NumberAll(T, all) = {p \in PostsIn(T) : p.user = u}
  BY <1>1, <1>2, <1>3, ListedPosts
<1>5. NetPosts = PostsIn(T)
  BY <1>3, HomeIsHub DEF NetPosts, PostsIn, Numbered, NumberedIn, Number, NumberIn, Sooner
<1>6. FeedOf(all) = Net!FeedOf(Net!PostsOf(u))
  <2>1. FeedOf(all) = Net!FeedOf(NumberAll(T, all))
    BY <1>2, <1>3, <1>4, FeedsAgree
  <2>2. NumberAll(T, all) = Net!PostsOf(u)
    BY <1>4, <1>5 DEF Net!PostsOf
  <2> QED
    BY <2>1, <2>2
<1>7. PICK answer : answer = Answering("OK", FeedOf(all), {})
  OBVIOUS
<1>8. AnswerIn(work[c], k, r) = answer /\ answer # Open
  BY <1>1, <1>3, <1>7 DEF AnswerIn, Answering, Open
<1>9. Net!Decide(c, answer)
  BY <1>8, SettledDecides DEF Replied
<1>10. answer = Net!Answer("OK", Net!FeedOf(Net!PostsOf(Net!User(c))), {})
  <2>1. Net!User(c) = u
    BY <1>3, SettledSeen DEF Replied
  <2> QED
    BY <1>6, <1>7, <2>1 DEF Answering, Net!Answer
<1>11. Net!Asks(c, {"GetTribbles"}, TRUE)
  BY <1>1, SettledSeen DEF Replied, Net!Asks
<1>12. Net!Show(c)
  BY <1>9, <1>10, <1>11 DEF Net!Show, Replied
<1> QED
  BY <1>12 DEF Net!Next

\* A list of subscriptions is the one the network knows.
LEMMA SubsSeen ==
    ASSUME OneEntryOnly, ServedInv, FeedInv, NetInv, faults = 0,
           NEW u \in Text, NEW k, k.values = HubSubs(u)
    PROVE  SubsIn(k) = Net!FollowedBy(u)
<1>1. TypeOK /\ SubsPlain /\ PairsStored /\ Hub \in Server
  BY KnownNow, HubServes
<1>2. \A v : v \in SubsIn(k) <=> \E x \in HubSubs(u) : v = x.value
  BY DEF SubsIn
<1>3. \A v : <<u, v>> \in NetFollows <=> v \in SubsIn(k)
  BY <1>2, StoreSeen
<1>4. ASSUME NEW v \in SubsIn(k)
      PROVE  v \in NetUsers
  <2>1. PICK x \in HubSubs(u) : v = x.value
    BY <1>2
  <2>2. Plain(v) \in ItemsAt(lists[Hub], SubKey(u))
    BY <1>1, <2>1 DEF SubsPlain, HubSubs
  <2>3. There(v)
    BY <1>1, <2>2 DEF PairsStored, Pair
  <2>4. UserKey(v) \in Key
    BY <1>1, <2>3 DEF There, TypeOK, AreMaps, IsMap
  <2>5. v \in Text
    BY <2>4 DEF Key, UserKey
  <2> QED
    BY <2>3, <2>5, StoreSeen
<1> QED
  BY <1>3, <1>4 DEF Net!FollowedBy

\* The list of one user's subscriptions, for GetSubscriptions.
LEMMA SubsReplies ==
    ASSUME OneEntryOnly, ServedInv, FeedInv, NetInv, faults = 0,
           NEW c \in Client, NEW k, NEW r, Replied(c, k, r), work[c].stage = "subs",
           work[c].task.op = "GetSubscriptions"
    PROVE  Net!Next
<1>1. PICK u : u = work[c].task.user
  OBVIOUS
<1>2. r # "none" /\ k.values = HubSubs(u)
  BY <1>1 DEF Replied, ReplyTrue
<1>3. u \in Text /\ Net!User(c) = u
  BY <1>1, SettledSeen DEF Replied, Task
<1>4. SubsIn(k) = Net!FollowedBy(u)
  BY <1>2, <1>3, SubsSeen
<1>5. PICK answer : answer = Answering("OK", <<>>, SubsIn(k))
  OBVIOUS
<1>6. AnswerIn(work[c], k, r) = answer /\ answer # Open
  BY <1>2, <1>5 DEF AnswerIn, Answering, Open
<1>7. Net!Decide(c, answer)
  BY <1>6, SettledDecides DEF Replied
<1>8. answer = Net!Answer("OK", <<>>, Net!FollowedBy(Net!User(c)))
  BY <1>3, <1>4, <1>5 DEF Answering, Net!Answer
<1>9. Net!Asks(c, {"GetSubscriptions"}, TRUE)
  BY SettledSeen DEF Replied, Net!Asks
<1>10. Net!List(c)
  BY <1>7, <1>8, <1>9 DEF Net!List, Replied
<1> QED
  BY <1>10 DEF Net!Next

\* A round of GetTribblesBySubscription, which leaves the rest and has found all.
LEMMA FeedLooks ==
    ASSUME OneEntryOnly, ServedInv, FeedInv, NetInv, faults = 0,
           NEW c \in Client, NEW k, NEW r, Replied(c, k, r), work[c].stage \in {"subs", "posts"},
           work[c].task.op = "GetTribblesBySubscription",
           FromStore(Tribbles(Hub), FoundIn(work[c], k, r))
    PROVE  \E rest, all : /\ rest = LeftIn(work[c], k, r)
                          /\ all = NumberAll(Tribbles(Hub), FoundIn(work[c], k, r))
                          /\ Net!Look(c, rest, all)
<1>1. PICK t, n, left, found, rest, all :
         /\ t = work[c].task /\ n = work[c].no /\ left = work[c].subs
         /\ found = NumberAll(Tribbles(Hub), work[c].found)
         /\ rest = LeftIn(work[c], k, r)
         /\ all = NumberAll(Tribbles(Hub), FoundIn(work[c], k, r))
  OBVIOUS
<1>2. NetDoing[c] = Net!Doing(t, n, Open, left, found)
  BY <1>1 DEF Replied, Settles, Moved
<1>3. r # "none" /\ Sorted(Tribbles(Hub))
  BY KnownNow DEF Replied, ReplyTrue
<1>4. FeedOf(FoundIn(work[c], k, r)) = Net!FeedOf(all)
  <2>1. PICK T, f : T = Tribbles(Hub) /\ f = FoundIn(work[c], k, r)
    OBVIOUS
  <2>2. FeedOf(f) = Net!FeedOf(NumberAll(T, f))
    BY <1>3, <2>1, FeedsAgree
  <2> QED
    BY <1>1, <2>1, <2>2
<1>5. PICK answer : answer = Net!Answer("OK", Net!FeedOf(all), {})
  OBVIOUS
<1>6. answer = Answering("OK", FeedOf(FoundIn(work[c], k, r)), {}) /\ answer # Open
  BY <1>4, <1>5 DEF Answering, Net!Answer, Open
<1>7. /\ rest = {} => AnswerIn(work[c], k, r) = answer
      /\ rest # {} => AnswerIn(work[c], k, r) = Open
  BY <1>1, <1>3, <1>6 DEF AnswerIn
<1>8. rest # {} => NetDoing' = [NetDoing EXCEPT ![c] = Net!Doing(t, n, Open, rest, all)]
  <2>1. PICK T : T = Tribbles(Hub)
    OBVIOUS
  <2>2. Tribbles(Hub)' = T
    BY <2>1 DEF Replied
  <2> QED
    BY <1>1, <1>7, <2>1, <2>2 DEF Replied, Settles, Moved
<1>9. CASE rest = {}
  <2>1. Net!Decide(c, answer)
    BY <1>6, <1>7, <1>9, SettledDecides DEF Replied
  <2>2. Net!Look(c, rest, all)
    BY <1>5, <1>9, <2>1 DEF Net!Look, Replied
  <2> QED
    BY <1>1, <2>2
<1>10. CASE rest # {}
  <2>1. /\ UNCHANGED <<script, told>>
        /\ NetUsers' = NetUsers /\ NetFollows' = NetFollows /\ NetPosts' = NetPosts
    BY DEF Replied, Settles
  <2>2. NetDoing' = [NetDoing EXCEPT ![c] = Net!Doing(t, n, Open, rest, all)]
    BY <1>8, <1>10
  <2>3. Net!Look(c, rest, all)
    BY <1>2, <1>10, <2>1, <2>2, Looks
  <2> QED
    BY <1>1, <2>3
<1> QED
  BY <1>9, <1>10

\* The list of subscriptions, for GetTribblesBySubscription.
LEMMA LoopBegins ==
    ASSUME OneEntryOnly, ServedInv, FeedInv, NetInv, faults = 0,
           NEW c \in Client, NEW k, NEW r, Replied(c, k, r), work[c].stage = "subs",
           work[c].task.op = "GetTribblesBySubscription"
    PROVE  Net!Next
<1>1. PICK u : u = work[c].task.user
  OBVIOUS
<1>2. r # "none" /\ k.values = HubSubs(u)
  BY <1>1 DEF Replied, ReplyTrue
<1>3. u \in Text /\ Net!User(c) = u /\ NetDoing[c].left = work[c].subs
  BY <1>1, SettledSeen DEF Replied, Task
<1>4. work[c].subs = {} /\ work[c].found = {}
  BY KnownNow DEF LoopsBlank
<1>5. LeftIn(work[c], k, r) = SubsIn(k) /\ FoundIn(work[c], k, r) = {}
  BY <1>2, <1>4 DEF LeftIn, FoundIn
<1>6. FromStore(Tribbles(Hub), {}) /\ NumberAll(Tribbles(Hub), {}) = {}
  BY FS_EmptySet DEF FromStore, NumberAll
<1>7. PICK rest, all : /\ rest = LeftIn(work[c], k, r)
                       /\ all = NumberAll(Tribbles(Hub), FoundIn(work[c], k, r))
                       /\ Net!Look(c, rest, all)
  BY <1>5, <1>6, FeedLooks
<1>8. rest = Net!FollowedBy(Net!User(c)) /\ all = {}
  BY <1>2, <1>3, <1>5, <1>6, <1>7, SubsSeen
<1>9. Net!Asks(c, {"GetTribblesBySubscription"}, TRUE) /\ NetDoing[c].left = {}
  BY <1>3, <1>4, SettledSeen DEF Replied, Net!Asks
<1>10. Net!LookUp(c)
  BY <1>7, <1>8, <1>9 DEF Net!LookUp
<1> QED
  BY <1>10 DEF Net!Next

\* The tribbles of one of the users subscribed to.
LEMMA LoopGoesOn ==
    ASSUME OneEntryOnly, ServedInv, FeedInv, NetInv, faults = 0,
           NEW c \in Client, NEW k, NEW r, Replied(c, k, r), work[c].stage = "posts"
    PROVE  Net!Next
<1>1. PICK u \in work[c].subs : k.op.key = TribbleKey(u)
  BY StageAsks DEF Replied, ReplyTrue
<1>2. /\ r # "none" /\ k.values = HubPosts(u) /\ k.op.key[1] = u
      /\ work[c].task.op = "GetTribblesBySubscription" /\ ~Idle(c)
  BY <1>1, StageAsks DEF Replied, Settles, ReplyTrue, TribbleKey
<1>3. HubInv /\ ListsAsked /\ TasksFit /\ LoopsBlank
  BY KnownNow
<1>4. PICK T, found, new : T = Tribbles(Hub) /\ found = work[c].found /\ new = ListIn(k, u)
  OBVIOUS
<1>5. LeftIn(work[c], k, r) = work[c].subs \ {u} /\ FoundIn(work[c], k, r) = found \cup new
  BY <1>2, <1>4 DEF LeftIn, FoundIn
<1>6. FromStore(T, new) /\ NumberAll(T, new) = {p \in PostsIn(T) : p.user = u}
  BY <1>2, <1>3, <1>4, ListedPosts
<1>7. FromStore(T, found)
  BY <1>2, <1>3, <1>4, LoopStored
<1>8. FromStore(T, found \cup new)
  BY <1>6, <1>7, FS_Union DEF FromStore
<1>9. NetPosts = PostsIn(T)
  BY <1>4, HomeIsHub DEF NetPosts, PostsIn, Numbered, NumberedIn, Number, NumberIn, Sooner
<1>10. NumberAll(T, found \cup new) = NumberAll(T, found) \cup Net!PostsOf(u)
  <2>1. NumberAll(T, found \cup new) = NumberAll(T, found) \cup NumberAll(T, new)
    BY DEF NumberAll
  <2> QED
    BY <1>6, <1>9, <2>1 DEF Net!PostsOf
<1>11. PICK rest, all : /\ rest = LeftIn(work[c], k, r)
                        /\ all = NumberAll(Tribbles(Hub), FoundIn(work[c], k, r))
                        /\ Net!Look(c, rest, all)
  BY <1>2, <1>4, <1>5, <1>8, FeedLooks
<1>12. NetDoing[c].left = work[c].subs /\ NetDoing[c].found = NumberAll(T, found)
  BY <1>4, SettledSeen DEF Replied
<1>13. /\ rest = NetDoing[c].left \ {u} /\ all = NetDoing[c].found \cup Net!PostsOf(u)
       /\ u \in NetDoing[c].left
  BY <1>4, <1>5, <1>10, <1>11, <1>12
<1>14. Net!LookAt(c, u)
  BY <1>11, <1>13 DEF Net!LookAt
<1> QED
  BY <1>13, <1>14 DEF Net!Next

\* A reply is what the network decides, or nothing to it.
LEMMA RepliesSeen ==
    ASSUME OneEntryOnly, ServedInv, TypeOK', FeedInv, NetInv, faults = 0,
           NEW c \in Client, HubReplies(c), UNCHANGED <<script, work, told>>
    PROVE  Net!Next \/ UNCHANGED Net!vars
<1>1. PICK k, r : Moved(c, k, r) /\ ReplyTrue(work[c], k, r)
  BY RepliesTrue
<1>2. /\ NetUsers' = NetUsers /\ NetFollows' = NetFollows /\ NetPosts' = NetPosts
      /\ Tribbles(Hub)' = Tribbles(Hub)
  BY KnownNow, NetKeeps DEF HubReplies
<1>3. ~Idle(c)
  BY DEF HubReplies, Gets, Waiting, Idle
<1>4. Replied(c, k, r)
  BY <1>1, <1>2, <1>3 DEF Replied, Settles
<1>5. /\ r # "none" /\ AskedFor(work[c], k.op)
  BY <1>1 DEF ReplyTrue
<1>6. NetTold' = NetTold
  BY StoreSeen
<1>7. NetDoing' = NetDoing => UNCHANGED Net!vars
  BY <1>2, <1>6 DEF Net!vars
<1>8. CASE work[c].stage \in {"list", "again"}
  <2>1. LeftIn(work[c], k, r) = work[c].subs /\ FoundIn(work[c], k, r) = work[c].found
    BY <1>8 DEF LeftIn, FoundIn
  <2>2. AnswerIn(work[c], k, r) = Open
    BY <1>8 DEF AnswerIn
  <2> QED
    BY <1>1, <1>2, <1>7, <2>1, <2>2, NothingMoves
<1>9. CASE work[c].stage = "user"
  BY <1>4, <1>7, <1>9, UserReplies
<1>10. CASE work[c].stage = "other"
  BY <1>4, <1>7, <1>10, OtherReplies
<1>11. CASE work[c].stage = "write"
  BY <1>4, <1>11, WriteReplies
<1>12. CASE work[c].stage = "read"
  BY <1>4, <1>12, ReadReplies
<1>13. CASE work[c].stage = "subs"
  BY <1>4, <1>5, <1>13, StageAsks, SubsReplies, LoopBegins
<1>14. CASE work[c].stage = "posts"
  BY <1>4, <1>14, LoopGoesOn
<1> QED
  BY <1>5, <1>8, <1>9, <1>10, <1>11, <1>12, <1>13, <1>14, StageAsks

\* A write that the peers have been told of is answered as it was decided.
LEMMA EndsSeen ==
    ASSUME OneEntryOnly, ServedInv, TypeOK', FeedInv, NetInv, faults = 0,
           NEW c \in Client, HubEnds(c), UNCHANGED <<script, work, told>>
    PROVE  UNCHANGED Net!vars
<1>1. HubInv /\ TypeOK
  BY KnownNow
<1>2. HubBusy(c) /\ ~HubBusy(c)' /\ HubKeeps /\ CallsKeep({c}) /\ Gets(c, "OK", {})
  BY DEF HubEnds
<1>3. Waiting(c) /\ work[c].stage \in {"list", "write"}
  BY <1>1, <1>2, BusyWrites
<1>4. Result(c) = "OK" /\ Result(c)' = "OK"
  BY <1>2, <1>3 DEF Result, Answered, Waiting, Gets
<1>5. PICK T, w, k, j : T = Tribbles(Hub) /\ w = work[c] /\ k = call[c] /\ j = call'[c]
  OBVIOUS
<1>6. /\ NetUsers' = NetUsers /\ NetFollows' = NetFollows /\ NetPosts' = NetPosts
      /\ Tribbles(Hub)' = T
  BY <1>1, <1>2, <1>5, NetKeeps
<1>7. /\ NetDoing[c] = DoingIn(T, w, k, "OK")
      /\ NetDoing' = [NetDoing EXCEPT ![c] = DoingIn(T, w, j, "OK")]
  BY <1>1, <1>2, <1>4, <1>5, <1>6, DoingMoves DEF Grown, CallsKeep
<1>8. k.st # "idle" /\ j.st # "idle" /\ w.stage \in {"list", "write"}
  BY <1>2, <1>3, <1>5 DEF Waiting, Gets
<1>9. /\ AnswerIn(w, k, "OK") = AnswerIn(w, j, "OK")
      /\ LeftIn(w, k, "OK") = LeftIn(w, j, "OK") /\ FoundIn(w, k, "OK") = FoundIn(w, j, "OK")
  BY <1>8 DEF AnswerIn, LeftIn, FoundIn
<1>10. DoingIn(T, w, j, "OK") = NetDoing[c]
  BY <1>7, <1>8, <1>9 DEF DoingIn
<1>11. NetDoing' = NetDoing
  BY <1>7, <1>10 DEF NetDoing
<1>12. NetTold' = NetTold
  BY StoreSeen
<1> QED
  BY <1>6, <1>11, <1>12 DEF Net!vars

\* What a write makes of users and subscriptions.
LEMMA WriteSeen ==
    ASSUME OneEntryOnly, TypeOK, TypeOK', NEW c \in Client, Wrote(c), SubsPlain
    PROVE  LET user == work[c].task.user
               arg  == work[c].task.arg
               op   == work[c].task.op
           IN  /\ NetUsers' = IF work[c].stage = "write" /\ op = "CreateUser" /\ user \in Text
                              THEN NetUsers \cup {user} ELSE NetUsers
               /\ user \in Text =>
                    NetFollows' = IF work[c].stage = "write" /\ op = "AddSubscription"
                                  THEN NetFollows \cup {<<user, arg>>}
                                  ELSE IF work[c].stage = "write" /\ op = "RemoveSubscription"
                                  THEN NetFollows \ {<<user, arg>>}
                                  ELSE NetFollows
<1>1. PICK user, arg, op, key, stage :
         /\ user = work[c].task.user /\ arg = work[c].task.arg /\ op = work[c].task.op
         /\ key = call[c].op.key /\ stage = work[c].stage
  OBVIOUS
<1>2. NetUsers' = IF stage = "write" /\ op = "CreateUser" /\ user \in Text
                  THEN NetUsers \cup {user} ELSE NetUsers
  <2>1. CASE simple'[Hub] = simple[Hub] /\ ~(stage = "write" /\ op = "CreateUser")
    BY <2>1, HomeIsHub DEF NetUsers
  <2>2. CASE /\ stage = "write" /\ op = "CreateUser" /\ key = UserKey(user)
             /\ DOMAIN simple'[Hub] = DOMAIN simple[Hub] \cup {key}
    <3>1. \A u : UserKey(u) = UserKey(user) => u = user
      BY DEF UserKey
    <3>2. \A u : There(u)' <=> There(u) \/ u = user
      BY <2>2, <3>1 DEF There
    <3>3. \A u : u \in NetUsers' <=> u \in NetUsers \/ (u = user /\ user \in Text)
      BY <3>2, StoreSeen
    <3>4. CASE user \in Text
      BY <2>2, <3>3, <3>4
    <3>5. CASE user \notin Text
      BY <2>2, <3>3, <3>5
    <3> QED
      BY <3>4, <3>5
  <2> QED
    BY <1>1, <2>1, <2>2 DEF Wrote
<1>3. ASSUME user \in Text
      PROVE  NetFollows' = IF stage = "write" /\ op = "AddSubscription"
                           THEN NetFollows \cup {<<user, arg>>}
                           ELSE IF stage = "write" /\ op = "RemoveSubscription"
                           THEN NetFollows \ {<<user, arg>>}
                           ELSE NetFollows
  <2>1. \A u : SubKey(u) # key => HubSubs(u)' = HubSubs(u)
    BY <1>1 DEF Wrote, SameAt, HubSubs
  <2>2. \A u : (\A x \in HubSubs(u) : x = Plain(x.value)) /\ Plain(u).value = u
    BY DEF SubsPlain, Plain
  <2>3. CASE /\ stage = "write" /\ op = "AddSubscription" /\ key = SubKey(user)
             /\ ItemsAt(lists'[Hub], key) = ItemsAt(lists[Hub], key) \cup {Plain(arg)}
    <3>1. HubSubs(user)' = HubSubs(user) \cup {Plain(arg)}
      BY <2>3 DEF HubSubs
    <3>2. \A u : u # user => HubSubs(u)' = HubSubs(u)
      BY <2>1, <2>3, KeysApart
    <3>3. \A p : p \in NetFollows' <=> p \in NetFollows \/ p = <<user, arg>>
      BY <1>3, <2>2, <3>1, <3>2, StoreSeen
    <3> QED
      BY <2>3, <3>3
  <2>4. CASE /\ stage = "write" /\ op = "RemoveSubscription" /\ key = SubKey(user)
             /\ ItemsAt(lists'[Hub], key) = ItemsAt(lists[Hub], key) \ {Plain(arg)}
    <3>1. HubSubs(user)' = HubSubs(user) \ {Plain(arg)}
      BY <2>4 DEF HubSubs
    <3>2. \A u : u # user => HubSubs(u)' = HubSubs(u)
      BY <2>1, <2>4, KeysApart
    <3>3. \A p : p \in NetFollows' <=> p \in NetFollows /\ p # <<user, arg>>
      BY <1>3, <2>2, <3>1, <3>2, StoreSeen
    <3> QED
      BY <2>4, <3>3
  <2>5. CASE /\ ~(stage = "write" /\ op \in {"AddSubscription", "RemoveSubscription"})
             /\ \A u : key # SubKey(u) \/ lists'[Hub] = lists[Hub]
    <3>1. \A u : HubSubs(u)' = HubSubs(u)
      BY <2>1, <2>5 DEF HubSubs
    <3>2. \A p : p \in NetFollows' <=> p \in NetFollows
      BY <3>1, StoreSeen
    <3> QED
      BY <2>5, <3>2
  <2>6. \/ /\ ~(stage = "write" /\ op \in {"AddSubscription", "RemoveSubscription"})
           /\ key = UserList \/ key = TribbleKey(user) \/ lists'[Hub] = lists[Hub]
        \/ /\ stage = "write" /\ op = "AddSubscription" /\ key = SubKey(user)
           /\ ItemsAt(lists'[Hub], key) = ItemsAt(lists[Hub], key) \cup {Plain(arg)}
        \/ /\ stage = "write" /\ op = "RemoveSubscription" /\ key = SubKey(user)
           /\ ItemsAt(lists'[Hub], key) = ItemsAt(lists[Hub], key) \ {Plain(arg)}
    BY <1>1 DEF Wrote
  <2>7. \A u : SubKey(u) # UserList /\ SubKey(u) # TribbleKey(user)
    BY KeysApart
  <2>8. CASE /\ ~(stage = "write" /\ op \in {"AddSubscription", "RemoveSubscription"})
             /\ key = UserList \/ key = TribbleKey(user) \/ lists'[Hub] = lists[Hub]
    <3>1. \A u : key # SubKey(u) \/ lists'[Hub] = lists[Hub]
      BY <2>7, <2>8
    <3> QED
      BY <2>5, <2>8, <3>1
  <2> QED
    BY <2>3, <2>4, <2>6, <2>8
<1> QED
  BY <1>1, <1>2, <1>3

\* A write that Hub takes is decided, although the peers are still to be told.
LEMMA TakesSeen ==
    ASSUME OneEntryOnly, ServedInv, TypeOK', FeedInv, NetInv, faults = 0, faults' = 0,
           NEW s \in Server, Boot(s) \/ ServerStep(s) \/ Crash(s),
           NEW c \in Client, HubTakes(c), UNCHANGED <<script, work, told>>
    PROVE  Net!Next \/ UNCHANGED Net!vars
<1> DEFINE w == work[c]
           user == work[c].task.user
           arg == work[c].task.arg
           op == work[c].task.op
<1>1. /\ HubInv /\ TypeOK /\ TribblerTypeOK /\ CallsFit /\ ListsAsked /\ TasksFit /\ LoopsBlank
      /\ PairsWritten /\ OthersThere /\ SubsPlain /\ Sorted(Tribbles(Hub))
  BY KnownNow
<1>2. /\ CallsKeep({c}) /\ call'[c] = call[c] /\ Waiting(c) /\ ~HubBusy(c) /\ HubBusy(c)'
      /\ ~Idle(c)
  BY DEF HubTakes, Waiting, Idle
<1>3. Wrote(c)
  BY <1>1, HubWrites
<1>4. IF w.stage = "write" /\ op = "PostTribble"
      THEN \E z : /\ z.key = TribbleKey(user) /\ z.msg.value = arg /\ Newest(Tribbles(Hub), z)
                  /\ Tribbles(Hub)' = Tribbles(Hub) \cup {z}
      ELSE Tribbles(Hub)' = Tribbles(Hub)
  BY <1>1, <1>3, NewTribble
<1>5. PICK k : k = call'[c] /\ k.st # "idle"
  BY <1>2 DEF Waiting
<1>6. Result(c) = "none" /\ Result(c)' = "OK"
  BY <1>2 DEF Result, Answered, Waiting
<1>7. Settles(c, k, "OK")
  <2>1. Grown(Tribbles(Hub), Tribbles(Hub)')
    BY <1>4 DEF Grown
  <2>2. Moved(c, k, "OK")
    BY <1>1, <1>2, <1>5, <1>6, <2>1, HandledMoves
  <2> QED
    BY <1>2, <2>2 DEF Settles
<1>8. w.stage \in {"list", "write"}
  BY <1>3 DEF Wrote
<1>9. user \in Text /\ arg \in Text
  BY <1>7, SettledSeen DEF Task
<1>10. /\ NetUsers' = IF w.stage = "write" /\ op = "CreateUser" THEN NetUsers \cup {user}
                      ELSE NetUsers
       /\ NetFollows' = IF w.stage = "write" /\ op = "AddSubscription"
                        THEN NetFollows \cup {<<user, arg>>}
                        ELSE IF w.stage = "write" /\ op = "RemoveSubscription"
                        THEN NetFollows \ {<<user, arg>>} ELSE NetFollows
  BY <1>1, <1>3, <1>9, WriteSeen
<1>11. NetPosts = PostsIn(Tribbles(Hub)) /\ NetPosts' = PostsIn(Tribbles(Hub)')
  BY <1>1, DoingSeen
<1>12. ~(w.stage = "write" /\ op = "PostTribble") => NetPosts' = NetPosts
  BY <1>4, <1>11 DEF PostsIn, NumberedIn, NumberIn, Sooner
<1>13. NetTold' = NetTold
  BY StoreSeen
<1>14. CASE w.stage = "list"
  <2>1. AnswerIn(w, k, "OK") = Open /\ LeftIn(w, k, "OK") = w.subs /\ FoundIn(w, k, "OK") = w.found
    BY <1>14 DEF AnswerIn, LeftIn, FoundIn
  <2>2. w.found = {}
    BY <1>1, <1>14 DEF LoopsBlank
  <2>3. NetDoing' = NetDoing
    BY <1>7, <2>1, <2>2, NothingMoves DEF Settles
  <2>4. NetUsers' = NetUsers /\ NetFollows' = NetFollows /\ NetPosts' = NetPosts
    BY <1>10, <1>12, <1>14
  <2> QED
    BY <1>13, <2>3, <2>4 DEF Net!vars
<1>15. CASE w.stage = "write"
  <2>0. PICK answer : answer = Net!Status("OK")
    OBVIOUS
  <2>1. op \in Writers
    BY <1>3, <1>15 DEF Wrote, Writers
  <2>2. AnswerIn(w, k, "OK") = answer /\ answer # Open
    <3>1. WriteStatus(op, "OK") = "OK"
      BY DEF WriteStatus
    <3>2. AnswerIn(w, k, "OK") = Answering("OK", <<>>, {})
      BY <1>15, <3>1 DEF AnswerIn
    <3> QED
      BY <2>0, <3>2 DEF Net!Status, Net!Answer, Answering, Open
  <2>3. Net!Decide(c, answer)
    BY <1>7, <2>2, SettledDecides
  <2>4. Net!User(c) = user /\ Net!Arg(c) = arg
    BY <1>7, SettledSeen
  <2>5. CASE op = "CreateUser"
    <3>1. ~There(user)
      BY <1>3, <1>15, <2>5 DEF Wrote, There
    <3>2. Net!Asks(c, {"CreateUser"}, FALSE)
      BY <1>7, <2>5, <3>1, SettledSeen DEF Net!Asks
    <3>3. /\ NetUsers' = NetUsers \cup {Net!User(c)}
          /\ NetFollows' = NetFollows /\ NetPosts' = NetPosts
      BY <1>10, <1>12, <1>15, <2>4, <2>5
    <3>4. Net!Create(c)
      BY <2>0, <2>3, <3>2, <3>3 DEF Net!Create
    <3> QED
      BY <3>4 DEF Net!Next
  <2>6. CASE op = "AddSubscription"
    <3>1. Plain(arg) \notin HubSubs(user)
      BY <1>3, <1>15, <2>6 DEF Wrote, HubSubs
    <3>2. <<user, arg>> \notin NetFollows
      BY <1>1, <3>1, StoreSeen DEF SubsPlain
    <3>3. Net!Asks(c, {"AddSubscription"}, TRUE)
      BY <1>7, <1>15, <2>6, SettledSeen DEF Net!Asks
    <3>4. Pair(user, arg)
      BY <1>1, <1>2, <1>15, <2>6 DEF PairsWritten
    <3>5. Net!Arg(c) \in NetUsers \ {Net!User(c)}
      BY <1>7, <3>4, SettledSeen DEF Pair
    <3>6. /\ NetUsers' = NetUsers /\ NetPosts' = NetPosts
          /\ NetFollows' = NetFollows \cup {<<Net!User(c), Net!Arg(c)>>}
          /\ <<Net!User(c), Net!Arg(c)>> \notin NetFollows
      BY <1>10, <1>12, <1>15, <2>4, <2>6, <3>2
    <3>7. Net!Subscribe(c)
      BY <2>0, <2>3, <3>3, <3>5, <3>6 DEF Net!Subscribe
    <3> QED
      BY <3>7 DEF Net!Next
  <2>7. CASE op = "RemoveSubscription"
    <3>1. Plain(arg) \in HubSubs(user)
      BY <1>3, <1>15, <2>7 DEF Wrote, HubSubs
    <3>2. <<user, arg>> \in NetFollows
      <4>1. Plain(arg).value = arg
        BY DEF Plain
      <4> QED
        BY <1>9, <3>1, <4>1, StoreSeen
    <3>3. Net!Asks(c, {"RemoveSubscription"}, TRUE)
      BY <1>7, <1>15, <2>7, SettledSeen DEF Net!Asks
    <3>4. There(arg)
      BY <1>1, <1>2, <1>15, <2>7 DEF OthersThere
    <3>5. Net!Arg(c) \in NetUsers
      BY <1>7, <3>4, SettledSeen
    <3>6. /\ NetUsers' = NetUsers /\ NetPosts' = NetPosts
          /\ NetFollows' = NetFollows \ {<<Net!User(c), Net!Arg(c)>>}
          /\ <<Net!User(c), Net!Arg(c)>> \in NetFollows
      BY <1>10, <1>12, <1>15, <2>4, <2>7, <3>2
    <3>7. Net!Unsubscribe(c)
      BY <2>0, <2>3, <3>3, <3>5, <3>6 DEF Net!Unsubscribe
    <3> QED
      BY <3>7 DEF Net!Next
  <2>8. CASE op = "PostTribble"
    <3>1. PICK z : /\ z.key = TribbleKey(user) /\ z.msg.value = arg /\ Newest(Tribbles(Hub), z)
                   /\ Tribbles(Hub)' = Tribbles(Hub) \cup {z}
      BY <1>4, <1>15, <2>8
    <3>2. PICK T : T = Tribbles(Hub)
      OBVIOUS
    <3>3. PostsIn(T \cup {z}) = PostsIn(T) \cup {[user |-> z.key[1], contents |-> z.msg.value,
                                                  no |-> Cardinality(PostsIn(T)) + 1]}
      BY <1>1, <3>1, <3>2, NextNumber DEF Newest
    <3>4. z.key[1] = user
      BY <3>1 DEF TribbleKey
    <3>5. NetPosts' = NetPosts \cup {[user |-> Net!User(c), contents |-> Net!Arg(c),
                                      no |-> Cardinality(NetPosts) + 1]}
      BY <1>11, <2>4, <3>1, <3>2, <3>3, <3>4
    <3>6. Net!Cardinality(NetPosts) = Cardinality(NetPosts)
      BY DEF Net!Cardinality, Cardinality
    <3>7. Net!Asks(c, {"PostTribble"}, TRUE)
      BY <1>7, <1>15, <2>8, SettledSeen DEF Net!Asks
    <3>8. Net!Decide(c, Net!Status("OK"))
      BY <2>0, <2>3
    <3>9. NetUsers' = NetUsers /\ NetFollows' = NetFollows
      BY <1>10, <2>8
    <3>10. Net!Post(c)
      BY <3>5, <3>6, <3>7, <3>8, <3>9 DEF Net!Post
    <3> QED
      BY <3>10 DEF Net!Next
  <2> QED
    BY <2>1, <2>5, <2>6, <2>7, <2>8 DEF Writers
<1> QED
  BY <1>8, <1>14, <1>15

\* Every step of the key-value servers is one of the network or changes nothing there.
LEMMA ServerSeen ==
    ASSUME OneEntryOnly, ServedInv, TypeOK', FeedInv, NetInv, faults = 0, faults' = 0,
           NEW s \in Server, Boot(s) \/ ServerStep(s) \/ Crash(s), UNCHANGED <<script, work, told>>
    PROVE  Net!Next \/ UNCHANGED Net!vars
<1>1. HubInv /\ TypeOK
  BY KnownNow
<1>2. CASE HubKeeps /\ CallsKeep({})
  <2>1. NetUsers' = NetUsers /\ NetFollows' = NetFollows /\ NetPosts' = NetPosts
    BY <1>1, <1>2, NetKeeps
  <2>2. NetDoing' = NetDoing
    <3>1. Tribbles(Hub)' = Tribbles(Hub)
      BY <1>1, <1>2, NetKeeps
    <3> QED
      BY <1>1, <1>2, <3>1, DoingAllStays
  <2>3. NetTold' = NetTold
    BY StoreSeen
  <2> QED
    BY <2>1, <2>2, <2>3 DEF Net!vars
<1>3. ASSUME NEW c \in Client, HubReplies(c) \/ HubTakes(c) \/ HubEnds(c)
      PROVE  Net!Next \/ UNCHANGED Net!vars
  <2>1. CASE HubReplies(c)
    BY <2>1, RepliesSeen
  <2>2. CASE HubTakes(c)
    BY <2>2, TakesSeen
  <2>3. CASE HubEnds(c)
    BY <2>3, EndsSeen
  <2> QED
    BY <1>3, <2>1, <2>2, <2>3
<1> QED
  BY <1>1, <1>2, <1>3, HubStep

-----------------------------------------------------------------------------
(* The refinement. *)

\* The network begins with the names that the servers have taken for themselves and
\* with nothing else.
LEMMA InitNetwork ==
    ASSUME B = N, OneEntryOnly, TInit
    PROVE  Net!Init
<1>1. Hub \in Server /\ Hub <= B
  BY HubServes, NAssumption DEF Server
<1>2. simple[Hub] = RunningInfo /\ lists[Hub] = NoMap
  BY <1>1 DEF TInit, Init
<1>3. NetUsers = {"server_id", "server_status"}
  <2>1. DOMAIN simple[Hub] = {ServerId, ServerStatus}
    BY <1>2 DEF RunningInfo, BootInfo, SetServerInfo, Bind, NoMap
  <2>2. \A u : UserKey(u) \in DOMAIN simple[Hub] <=> u \in {"server_id", "server_status"}
    BY <2>1 DEF UserKey, ServerId, ServerStatus
  <2>3. "server_id" \in Text /\ "server_status" \in Text
    BY TextAssumption DEF Reserved
  <2> QED
    BY <2>2, <2>3, HomeIsHub DEF NetUsers
<1>4. NetFollows = {} /\ NetPosts = {}
  <2>1. DOMAIN lists[Hub] = {}
    BY <1>2 DEF NoMap
  <2> QED
    BY <2>1, HomeIsHub DEF NetFollows, NetPosts, ItemsAt, Tribbles
<1>5. NetDoing = [c \in Client |-> Net!Nothing]
  <2>1. \A c \in Client : Idle(c)
    BY DEF TInit, Init, Idle, NoCall, MakeCall, Proc
  <2> QED
    BY <2>1 DEF NetDoing, DoingOf, Net!Nothing, Net!Doing, Net!NoAnswer, Net!Status, Net!Answer,
                Open, Answering
<1>6. script \in Scripts /\ NetTold = {}
  BY DEF TInit, NetTold
<1> QED
  BY <1>3, <1>4, <1>5, <1>6 DEF Net!Init

\* What the steps are judged by.
LinkInv == ServedInv /\ FeedInv /\ NetInv

\* Until something crashes, every step is one of the network or changes nothing there.
LEMMA StepSeen ==
    ASSUME OneEntryOnly, LinkInv, [TNext]_tvars, faults' = 0
    PROVE  Net!Next \/ UNCHANGED Net!vars
<1>1. ServedInv /\ FeedInv /\ NetInv /\ HubInv /\ BaseInv /\ ToldInv /\ StatusInv
  BY DEF LinkInv, ServedInv, HubInv
<1>2. faults = 0 /\ TypeOK'
  <2>1. HubInv'
    BY <1>1, HubNext
  <2> QED
    <3>1. TypeOK'
      BY <2>1 DEF HubInv, BaseInv, TribblerInv, CoreInv, TypeInv
    <3>2. faults = 0
      BY <1>1, TribblerStep
    <3> QED
      BY <3>1, <3>2
<1>3. CASE ByServer
  BY <1>1, <1>2, <1>3, ServerSeen DEF ByServer
<1>4. ASSUME NEW c \in Client, Alone(c), Begins(c) PROVE Net!Next
  BY <1>1, <1>2, <1>4, BeginsSeen
<1>5. ASSUME NEW c \in Client, Alone(c), NEW w, Turns(c, w) PROVE UNCHANGED Net!vars
  BY <1>1, <1>2, <1>5, TurnsSeen
<1>6. ASSUME NEW c \in Client, Alone(c), NEW a, Tells(c, a) PROVE Net!Next
  BY <1>1, <1>2, <1>6, TellsSeen
<1>7. CASE UNCHANGED tvars
  <2>1. HubKeeps /\ CallsKeep({}) /\ UNCHANGED <<script, work, told>> /\ TypeOK
    BY <1>1, <1>7, KnownNow, <1>2 DEF tvars, vars, HubKeeps, CallsKeep, HubBusy
  <2>2. /\ NetUsers' = NetUsers /\ NetFollows' = NetFollows /\ NetPosts' = NetPosts
        /\ Tribbles(Hub)' = Tribbles(Hub)
    BY <1>2, <2>1, NetKeeps
  <2>3. NetDoing' = NetDoing
    BY <1>1, <1>2, <2>1, <2>2, DoingAllStays
  <2>4. NetTold' = NetTold
    BY <2>1, StoreSeen
  <2> QED
    BY <2>1, <2>2, <2>3, <2>4 DEF Net!vars
<1> QED
  BY <1>1, <1>3, <1>4, <1>5, <1>6, <1>7, TribblerSteps

\* Tribbler servers that share one key-value server of a complete cluster do what
\* Tribbler.thrift promises of one program without servers: every operation but the feed
\* by subscription takes effect and decides its answer at one moment between its call and
\* its answer, which is when that server handles its last call, although other servers
\* hear of it later and other operations are served in between.
THEOREM NetworkImplemented ==
    ASSUME B = N, OneEntryOnly, ScriptsFit
    PROVE  TSpec => ImplementsSocialNetwork
<1>1. TInit => LinkInv /\ Net!Init
  BY InitServed, InitFeed, InitNet, InitNetwork DEF LinkInv
<1>2. LinkInv /\ [TNext]_tvars => LinkInv'
  BY ServedNext, FeedNext, NetNext DEF LinkInv, ServedInv
<1>3. LinkInv /\ [TNext]_tvars => (faults' = 0 => [Net!Next]_(Net!vars))
  BY StepSeen
<1> QED
  BY <1>1, <1>2, <1>3, PTL DEF TSpec, ImplementsSocialNetwork

-----------------------------------------------------------------------------
(* The sample client.  The network tells what the state is after each call. *)

\* One client is to run the script, and nobody else to do anything.
SampleAlone ==
    \E c \in Client : script = [d \in Client |-> IF d = c THEN ClientScript ELSE <<>>]

\* The users, subscriptions and tribbles when m calls of the script have taken effect.
UsersAfter(m) ==
    \A u : u \in NetUsers <=>
        \/ u \in {"server_id", "server_status"}
        \/ u = "alice" /\ m >= 1
        \/ u = "bob" /\ m >= 2
        \/ u = "cindy" /\ m >= 3

FollowsAfter(m) ==
    \A u, v : <<u, v>> \in NetFollows <=>
        \/ u = "alice" /\ v = "bob" /\ m >= 4
        \/ u = "alice" /\ v = "cindy" /\ m >= 5 /\ m < 11
        \/ u = "bob" /\ v = "cindy" /\ m >= 6
        \/ u = "cindy" /\ v = "alice" /\ m >= 7

SamplePost == [user |-> "alice", contents |-> Beautiful, no |-> 1]

PostsAfter(m) == NetPosts = IF m >= 13 THEN {SamplePost} ELSE {}

\* What the n-th call is answered.
RightAnswer(n, answer) ==
    /\ answer.status = "OK"
    /\ n = 8 => answer.subscriptions = {"bob", "cindy"}
    /\ n = 12 => answer.subscriptions = {"bob"}
    /\ n = 14 => answer.tribbles = <<[user |-> "alice", contents |-> Beautiful]>>
    /\ n = 15 => answer.tribbles = <<>>

\* c is between two calls, waits for the n-th one to be decided, or to be told.
LeftAt(n, left) == left = {} \/ (n = 15 /\ left = {"cindy"})

Runs(c, n, m) ==
    \/ NetDoing[c] = Net!Nothing /\ m = n
    \/ \E left : /\ NetDoing[c] = Net!Doing(ClientScript[n], 16 - n, Open, left, {})
                 /\ n >= 1 /\ m = n - 1 /\ LeftAt(n, left)
    \/ \E answer : /\ NetDoing[c] = Net!Doing(ClientScript[n], 16 - n, answer, {}, {})
                   /\ n >= 1 /\ m = n /\ RightAnswer(n, answer)

SampleRuns(c, n, m) ==
    /\ n \in 0..15 /\ m \in 0..15
    /\ Len(script[c]) = 15 - n
    /\ \A i \in 1..(15 - n) : script[c][i] = ClientScript[n + i]
    /\ \A d \in Client \ {c} : script[d] = <<>> /\ NetDoing[d] = Net!Nothing
    /\ UsersAfter(m) /\ FollowsAfter(m) /\ PostsAfter(m) /\ Runs(c, n, m)
    /\ \A a \in NetTold : a.no \in 1..15 /\ RightAnswer(16 - a.no, a.answer)

\* The calls of the script.
LEMMA SampleCalls ==
    /\ Len(ClientScript) = 15
    /\ \A n \in 1..15 :
          LET t == ClientScript[n]
          IN  /\ t.op = "CreateUser" <=> n \in 1..3
              /\ t.op = "AddSubscription" <=> n \in 4..7
              /\ t.op = "GetSubscriptions" <=> n \in {8, 9, 10, 12}
              /\ t.op = "RemoveSubscription" <=> n = 11
              /\ t.op = "PostTribble" <=> n = 13
              /\ t.op = "GetTribbles" <=> n = 14
              /\ t.op = "GetTribblesBySubscription" <=> n = 15
              /\ t.op # "none"
              /\ n \in {1, 4, 5, 8, 11, 12, 13, 14} => t.user = "alice"
              /\ n \in {2, 6, 9, 15} => t.user = "bob"
              /\ n \in {3, 7, 10} => t.user = "cindy"
              /\ n = 4 => t.arg = "bob"
              /\ n \in {5, 6, 11} => t.arg = "cindy"
              /\ n = 7 => t.arg = "alice"
              /\ n = 13 => t.arg = Beautiful
<1>1. \A n \in 1..15 : n \in {1, 2, 3, 4, 5, 6, 7, 8, 9, 10, 11, 12, 13, 14, 15}
  OBVIOUS
<1> SUFFICES ASSUME NEW n \in {1, 2, 3, 4, 5, 6, 7, 8, 9, 10, 11, 12, 13, 14, 15}
             PROVE  /\ Len(ClientScript) = 15
                    /\ LET t == ClientScript[n]
                       IN  /\ t.op = "CreateUser" <=> n \in 1..3
                           /\ t.op = "AddSubscription" <=> n \in 4..7
                           /\ t.op = "GetSubscriptions" <=> n \in {8, 9, 10, 12}
                           /\ t.op = "RemoveSubscription" <=> n = 11
                           /\ t.op = "PostTribble" <=> n = 13
                           /\ t.op = "GetTribbles" <=> n = 14
                           /\ t.op = "GetTribblesBySubscription" <=> n = 15
                           /\ t.op # "none"
                           /\ n \in {1, 4, 5, 8, 11, 12, 13, 14} => t.user = "alice"
                           /\ n \in {2, 6, 9, 15} => t.user = "bob"
                           /\ n \in {3, 7, 10} => t.user = "cindy"
                           /\ n = 4 => t.arg = "bob"
                           /\ n \in {5, 6, 11} => t.arg = "cindy"
                           /\ n = 7 => t.arg = "alice"
                           /\ n = 13 => t.arg = Beautiful
  BY <1>1
<1>2. Len(ClientScript) = 15
  BY DEF ClientScript
<1>3. /\ ClientScript[1] = Does1("CreateUser", "alice")
      /\ ClientScript[2] = Does1("CreateUser", "bob")
      /\ ClientScript[3] = Does1("CreateUser", "cindy")
      /\ ClientScript[4] = Does2("AddSubscription", "alice", "bob")
      /\ ClientScript[5] = Does2("AddSubscription", "alice", "cindy")
      /\ ClientScript[6] = Does2("AddSubscription", "bob", "cindy")
      /\ ClientScript[7] = Does2("AddSubscription", "cindy", "alice")
      /\ ClientScript[8] = Does1("GetSubscriptions", "alice")
      /\ ClientScript[9] = Does1("GetSubscriptions", "bob")
      /\ ClientScript[10] = Does1("GetSubscriptions", "cindy")
      /\ ClientScript[11] = Does2("RemoveSubscription", "alice", "cindy")
      /\ ClientScript[12] = Does1("GetSubscriptions", "alice")
      /\ ClientScript[13] = Does2("PostTribble", "alice", Beautiful)
      /\ ClientScript[14] = Does1("GetTribbles", "alice")
      /\ ClientScript[15] = Does1("GetTribblesBySubscription", "bob")
  BY DEF ClientScript
<1> HIDE DEF ClientScript
<1>4. \A op, user : Does1(op, user).op = op /\ Does1(op, user).user = user
  BY Zenon DEF Does1
<1>5. \A op, user, arg :
         LET t == Does2(op, user, arg) IN t.op = op /\ t.user = user /\ t.arg = arg
  BY DEF Does2
<1>6. CASE n \in {1, 2, 3, 4}
  BY <1>2, <1>3, <1>6, <1>4, <1>5
<1>7. CASE n \in {5, 6, 7, 8}
  BY <1>2, <1>3, <1>7, <1>4, <1>5
<1>8. CASE n \in {9, 10, 11, 12}
  BY <1>2, <1>3, <1>8, <1>4, <1>5
<1>9. CASE n \in {13, 14, 15}
  BY <1>2, <1>3, <1>9, <1>4, <1>5
<1> QED
  BY <1>6, <1>7, <1>8, <1>9

\* A feed of nothing and one of the only tribble.
LEMMA SampleFeeds ==
    ASSUME MaxTribbles > 0
    PROVE  /\ Net!FeedOf({}) = <<>>
           /\ Net!FeedOf({SamplePost}) = <<[user |-> "alice", contents |-> Beautiful]>>
<1> DEFINE feed(all) == CHOOSE s \in Net!F!Feeds(all) : TRUE
<1>1. ASSUME NEW all, IsFiniteSet(all), \A x, y \in all : x = y, \A x \in all : x.no = 1
      PROVE  FeedBy(feed(all), all, {})
  <2>1. Orders({}, all)
    BY <1>1 DEF Orders
  <2>2. \E s : FeedBy(s, all, {})
    BY <1>1, <2>1, FeedExists
  <2>3. \A s : s \in Net!F!Feeds(all) <=> FeedBy(s, all, {})
    BY <1>1, NetFeeds
  <2> QED
    BY <2>2, <2>3
<1>2. Net!FeedOf({}) = <<>>
  <2>1. FeedBy(feed({}), {}, {})
    BY <1>1, FS_EmptySet
  <2>2. Size({}) = 0
    BY FS_EmptySet, ScriptAssumption DEF Size
  <2>3. feed({}) \in [1..0 -> {}]
    BY <2>1, <2>2, FS_EmptySet, FeedPlaces DEF Orders
  <2>4. DOMAIN feed({}) = {}
    BY <2>3
  <2> HIDE DEF feed
  <2>5. [n \in DOMAIN feed({}) |->
            [user |-> feed({})[n].user, contents |-> feed({})[n].contents]] = <<>>
    BY <2>4
  <2> QED
    BY <2>5 DEF Net!FeedOf, feed
<1>3. Net!FeedOf({SamplePost}) = <<[user |-> "alice", contents |-> Beautiful]>>
  <2> DEFINE all == {SamplePost}
  <2>0. IsFiniteSet(all) /\ Cardinality(all) = 1
    BY FS_Singleton
  <2>1. FeedBy(feed(all), all, {})
    BY <1>1, <2>0 DEF SamplePost
  <2>2. Size(all) = 1
    BY <2>0, ScriptAssumption DEF Size
  <2>3. Orders({}, all)
    BY DEF Orders
  <2>4. feed(all) \in [1..1 -> all]
    BY <2>0, <2>1, <2>2, <2>3, FeedPlaces
  <2>5. feed(all)[1] = SamplePost /\ DOMAIN feed(all) = 1..1
    BY <2>4
  <2> HIDE DEF feed
  <2>6. SamplePost.user = "alice" /\ SamplePost.contents = Beautiful
    BY DEF SamplePost
  <2> HIDE DEF all
  <2>7. [n \in DOMAIN feed(all) |->
            [user |-> feed(all)[n].user, contents |-> feed(all)[n].contents]]
        = [n \in 1..1 |-> [user |-> "alice", contents |-> Beautiful]]
    BY <2>5, <2>6
  <2> DEFINE x == [user |-> "alice", contents |-> Beautiful]
  <2>8. <<x>> = [n \in 1..1 |-> x]
    <3> HIDE DEF x
    <3> QED
      OBVIOUS
  <2> QED
    BY <2>7, <2>8 DEF Net!FeedOf, feed, all
<1> QED
  BY <1>2, <1>3

\* What a client does not touch stays as it is.
LEMMA SampleKeeps ==
    ASSUME NEW m, UsersAfter(m), FollowsAfter(m), PostsAfter(m)
    PROVE  /\ NetUsers' = NetUsers => UsersAfter(m)'
           /\ NetFollows' = NetFollows => FollowsAfter(m)'
           /\ NetPosts' = NetPosts => PostsAfter(m)'
  BY DEF UsersAfter, FollowsAfter, PostsAfter

\* The client makes its next call.
LEMMA SampleBegins ==
    ASSUME TribblerTypeOK, NEW c \in Client, NEW n, NEW m, SampleRuns(c, n, m), Net!Begin(c)
    PROVE  SampleRuns(c, n + 1, n)'
<1>1. /\ NetDoing[c] = Net!Nothing /\ script[c] # <<>>
      /\ NetDoing' = [NetDoing EXCEPT ![c] =
                         Net!Doing(Head(script[c]), Len(script[c]), Net!NoAnswer, {}, {})]
      /\ script' = [script EXCEPT ![c] = Tail(script[c])]
      /\ NetUsers' = NetUsers /\ NetFollows' = NetFollows /\ NetPosts' = NetPosts
      /\ NetTold' = NetTold
  BY DEF Net!Begin
<1>2. script \in [Client -> Seq(Task)]
  BY DEF TribblerTypeOK
<1>3. n \in 0..15 /\ Len(script[c]) = 15 - n /\ m = n
      /\ \A i \in 1..(15 - n) : script[c][i] = ClientScript[n + i]
  <2>1. \A t, k, answer, left : Net!Doing(t, k, answer, left, {}).task = t
    BY DEF Net!Doing
  <2>2. Net!Nothing.task.op = "none"
    BY DEF Net!Nothing, Net!Doing
  <2>3. \A left, answer : n >= 1 => NetDoing[c] # Net!Doing(ClientScript[n], 16 - n, answer, left, {})
    BY <1>1, <2>1, <2>2, SampleCalls DEF SampleRuns
  <2> QED
    BY <2>3 DEF SampleRuns, Runs
<1>4. n < 15 /\ Head(script[c]) = ClientScript[n + 1] /\ Len(script[c]) = 16 - (n + 1)
  <2>1. script[c] \in Seq(Task) /\ Len(script[c]) # 0
    BY <1>1, <1>2
  <2>2. Head(script[c]) = script[c][1]
    BY <1>1, <2>1
  <2> QED
    BY <1>3, <2>1, <2>2
<1>5. /\ Len(script'[c]) = 15 - (n + 1)
      /\ \A i \in 1..(15 - (n + 1)) : script'[c][i] = ClientScript[(n + 1) + i]
  <2>1. /\ script'[c] = Tail(script[c]) /\ script[c] \in Seq(Task)
    BY <1>1, <1>2
  <2>2. /\ Len(Tail(script[c])) = Len(script[c]) - 1
        /\ \A i \in 1..(Len(script[c]) - 1) : Tail(script[c])[i] = script[c][i + 1]
    BY <1>1, <2>1
  <2>3. \A i \in 1..(15 - (n + 1)) : i + 1 \in 1..(15 - n) /\ n + (i + 1) = (n + 1) + i
    BY <1>3
  <2> QED
    BY <1>3, <1>4, <2>1, <2>2, <2>3
<1>6. \A d \in Client \ {c} : script'[d] = <<>> /\ NetDoing'[d] = Net!Nothing
  BY <1>1, <1>2 DEF SampleRuns, NetDoing
<1>7. Runs(c, n + 1, n)'
  <2>1. NetDoing'[c] = Net!Doing(ClientScript[n + 1], 16 - (n + 1), Open, {}, {})
    BY <1>1, <1>4 DEF NetDoing, Open, Answering, Net!NoAnswer, Net!Status, Net!Answer
  <2> QED
    BY <1>3, <2>1 DEF Runs, LeftAt
<1>8. (UsersAfter(n) /\ FollowsAfter(n) /\ PostsAfter(n))'
  BY <1>1, <1>3, SampleKeeps DEF SampleRuns
<1> QED
  BY <1>1, <1>3, <1>4, <1>5, <1>6, <1>7, <1>8 DEF SampleRuns

\* The client is told an answer.
LEMMA SampleTells ==
    ASSUME NEW c \in Client, NEW n, NEW m, SampleRuns(c, n, m), Net!Tell(c)
    PROVE  SampleRuns(c, n, n)'
<1>1. /\ NetDoing[c].answer # Net!NoAnswer /\ UNCHANGED script
      /\ NetTold' = NetTold \cup {[by |-> c, no |-> NetDoing[c].no, task |-> NetDoing[c].task,
                                   answer |-> NetDoing[c].answer]}
      /\ NetDoing' = [NetDoing EXCEPT ![c] = Net!Nothing]
      /\ NetUsers' = NetUsers /\ NetFollows' = NetFollows /\ NetPosts' = NetPosts
  BY DEF Net!Tell
<1>2. Open = Net!NoAnswer
  BY DEF Open, Answering, Net!NoAnswer, Net!Status, Net!Answer
<1>3. /\ Net!Nothing.answer = Net!NoAnswer
      /\ \A t, k, answer, left :
            LET doing == Net!Doing(t, k, answer, left, {})
            IN  doing.answer = answer /\ doing.no = k
  BY DEF Net!Nothing, Net!Doing
<1>4. PICK answer : /\ NetDoing[c] = Net!Doing(ClientScript[n], 16 - n, answer, {}, {})
                    /\ n >= 1 /\ m = n /\ RightAnswer(n, answer)
  BY <1>1, <1>2, <1>3 DEF SampleRuns, Runs
<1>5. n \in 1..15 /\ NetDoing[c].no = 16 - n /\ NetDoing[c].answer = answer
  BY <1>3, <1>4 DEF SampleRuns
<1>6. \A a \in NetTold' : a.no \in 1..15 /\ RightAnswer(16 - a.no, a.answer)
  <2>1. 16 - (16 - n) = n /\ 16 - n \in 1..15
    BY <1>5
  <2> QED
    BY <1>1, <1>4, <1>5, <2>1 DEF SampleRuns
<1>7. /\ NetDoing'[c] = Net!Nothing
      /\ \A d \in Client \ {c} : script'[d] = <<>> /\ NetDoing'[d] = Net!Nothing
  BY <1>1 DEF SampleRuns, NetDoing
<1>8. Runs(c, n, n)'
  BY <1>7 DEF Runs
<1>9. (UsersAfter(n) /\ FollowsAfter(n) /\ PostsAfter(n))'
  BY <1>1, <1>4, SampleKeeps DEF SampleRuns
<1> QED
  BY <1>1, <1>6, <1>7, <1>8, <1>9 DEF SampleRuns

\* What a client waits for when its answer is decided, and when it looks on.
LEMMA Alters ==
    ASSUME NEW c \in Client, NEW t, NEW n, NEW answer, NEW left, NEW found,
           NetDoing[c] = Net!Doing(t, n, answer, left, found), NEW answer2, NEW left2, NEW found2
    PROVE  /\ Net!Decide(c, answer2) => NetDoing'[c] = Net!Doing(t, n, answer2, {}, {})
           /\ Net!Look(c, left2, found2) /\ left2 # {} =>
                NetDoing'[c] = Net!Doing(t, n, answer, left2, found2)
<1> DEFINE f == NetDoing
           r == [task |-> t, no |-> n, answer |-> answer, left |-> left, found |-> found]
           r1 == [task |-> t, no |-> n, answer |-> answer2, left |-> left, found |-> found]
           r2 == [task |-> t, no |-> n, answer |-> answer2, left |-> {}, found |-> found]
           r3 == [task |-> t, no |-> n, answer |-> answer2, left |-> {}, found |-> {}]
           s2 == [task |-> t, no |-> n, answer |-> answer, left |-> left2, found |-> found]
           s3 == [task |-> t, no |-> n, answer |-> answer, left |-> left2, found |-> found2]
<1>1. [r EXCEPT !.answer = answer2] = r1
  OBVIOUS
<1>2. [r1 EXCEPT !.left = {}] = r2
  OBVIOUS
<1>3. [r2 EXCEPT !.found = {}] = r3
  OBVIOUS
<1>4. [r EXCEPT !.left = left2] = s2
  OBVIOUS
<1>5. [s2 EXCEPT !.found = found2] = s3
  OBVIOUS
<1>6. /\ f[c] = r /\ c \in DOMAIN f
      /\ Net!Doing(t, n, answer2, {}, {}) = r3
      /\ Net!Doing(t, n, answer, left2, found2) = s3
  BY DEF Net!Doing, NetDoing
<1>7. /\ Net!Decide(c, answer2) =>
            NetDoing' = [f EXCEPT ![c].answer = answer2, ![c].left = {}, ![c].found = {}]
      /\ Net!Look(c, left2, found2) /\ left2 # {} =>
            NetDoing' = [f EXCEPT ![c].left = left2, ![c].found = found2]
  BY DEF Net!Decide, Net!Look
<1> HIDE DEF f, r, r1, r2, r3, s2, s3
<1>8. /\ [f EXCEPT ![c].answer = answer2, ![c].left = {}, ![c].found = {}][c] =
            [[[f[c] EXCEPT !.answer = answer2] EXCEPT !.left = {}] EXCEPT !.found = {}]
      /\ [f EXCEPT ![c].left = left2, ![c].found = found2][c] =
            [[f[c] EXCEPT !.left = left2] EXCEPT !.found = found2]
  BY <1>6
<1> QED
  BY <1>1, <1>2, <1>3, <1>4, <1>5, <1>6, <1>7, <1>8

\* A call takes effect as it should and its answer is decided.
LEMMA SampleDecides ==
    ASSUME NEW c \in Client, NEW n, NEW m, SampleRuns(c, n, m), n >= 1,
           NEW left, NetDoing[c] = Net!Doing(ClientScript[n], 16 - n, Open, left, {}),
           NEW answer, Net!Decide(c, answer), RightAnswer(n, answer),
           (UsersAfter(n) /\ FollowsAfter(n) /\ PostsAfter(n))'
    PROVE  SampleRuns(c, n, n)'
<1>1. /\ NetDoing' = [NetDoing EXCEPT ![c].answer = answer, ![c].left = {}, ![c].found = {}]
      /\ UNCHANGED script /\ NetTold' = NetTold
  BY DEF Net!Decide
<1>2. NetDoing'[c] = Net!Doing(ClientScript[n], 16 - n, answer, {}, {})
  BY Alters
<1>3. \A d \in Client \ {c} : script'[d] = <<>> /\ NetDoing'[d] = Net!Nothing
  BY <1>1 DEF SampleRuns, NetDoing
<1>4. Runs(c, n, n)'
  BY <1>2 DEF Runs
<1> QED
  BY <1>1, <1>3, <1>4 DEF SampleRuns

\* The operations.  Those that change something or look:
LEMMA SampleWrites ==
    ASSUME MaxTribbles > 0, NEW c \in Client, NEW n, NEW m, SampleRuns(c, n, m), n >= 1,
           m = n - 1,
           NEW left, NetDoing[c] = Net!Doing(ClientScript[n], 16 - n, Open, left, {}),
           LeftAt(n, left),
           Net!Create(c) \/ Net!Subscribe(c) \/ Net!Unsubscribe(c) \/ Net!Post(c)
    PROVE  SampleRuns(c, n, n)'
<1>1. /\ NetDoing[c].task = ClientScript[n] /\ NetDoing[c].left = left
      /\ Net!User(c) = ClientScript[n].user /\ Net!Arg(c) = ClientScript[n].arg
  BY DEF Net!Doing, Net!User, Net!Arg
<1>2. n \in 1..15 /\ UsersAfter(m) /\ FollowsAfter(m) /\ PostsAfter(m)
  BY DEF SampleRuns
<1>3. Net!Status("OK").status = "OK"
  BY DEF Net!Status, Net!Answer
<1>4. CASE Net!Create(c)
  <2>1. n \in 1..3 /\ NetUsers' = NetUsers \cup {Net!User(c)} /\ Net!Decide(c, Net!Status("OK"))
        /\ NetFollows' = NetFollows /\ NetPosts' = NetPosts
    BY <1>1, <1>2, <1>4, SampleCalls DEF Net!Create, Net!Asks
  <2>2. UsersAfter(n)'
    <3>1. Net!User(c) = IF n = 1 THEN "alice" ELSE IF n = 2 THEN "bob" ELSE "cindy"
      BY <1>1, <2>1, SampleCalls
    <3> QED
      BY <1>2, <2>1, <3>1 DEF UsersAfter
  <2>3. FollowsAfter(n)' /\ PostsAfter(n)'
    BY <1>2, <2>1 DEF FollowsAfter, PostsAfter
  <2>4. RightAnswer(n, Net!Status("OK"))
    BY <1>3, <2>1 DEF RightAnswer
  <2> QED
    BY <2>1, <2>2, <2>3, <2>4, SampleDecides
<1>5. CASE Net!Subscribe(c)
  <2> DEFINE pair == <<Net!User(c), Net!Arg(c)>>
             status == IF pair \in NetFollows THEN "EEXISTS" ELSE "OK"
  <2>1. n \in 4..7 /\ NetFollows' = NetFollows \cup {pair} /\ Net!Decide(c, Net!Status(status))
        /\ NetUsers' = NetUsers /\ NetPosts' = NetPosts
    BY <1>1, <1>2, <1>5, SampleCalls DEF Net!Subscribe, Net!Asks
  <2>2. pair = IF n = 4 THEN <<"alice", "bob">>
               ELSE IF n = 5 THEN <<"alice", "cindy">>
               ELSE IF n = 6 THEN <<"bob", "cindy">> ELSE <<"cindy", "alice">>
    BY <1>1, <2>1, SampleCalls
  <2>3. pair \notin NetFollows
    BY <1>2, <2>1, <2>2 DEF FollowsAfter
  <2>4. FollowsAfter(n)'
    <3>1. \A u, v : <<u, v>> \in NetFollows' <=>
             <<u, v>> \in NetFollows \/ (u = Net!User(c) /\ v = Net!Arg(c))
      BY <2>1
    <3>2. /\ Net!User(c) = IF n \in {4, 5} THEN "alice" ELSE IF n = 6 THEN "bob" ELSE "cindy"
          /\ Net!Arg(c) = IF n = 4 THEN "bob" ELSE IF n \in {5, 6} THEN "cindy" ELSE "alice"
      BY <1>1, <2>1, SampleCalls
    <3> HIDE DEF pair, status
    <3> SUFFICES ASSUME NEW u, NEW v
                 PROVE  <<u, v>> \in NetFollows' <=>
                           \/ u = "alice" /\ v = "bob" /\ n >= 4
                           \/ u = "alice" /\ v = "cindy" /\ n >= 5 /\ n < 11
                           \/ u = "bob" /\ v = "cindy" /\ n >= 6
                           \/ u = "cindy" /\ v = "alice" /\ n >= 7
      BY DEF FollowsAfter
    <3>3. <<u, v>> \in NetFollows <=>
             \/ u = "alice" /\ v = "bob" /\ m >= 4
             \/ u = "alice" /\ v = "cindy" /\ m >= 5 /\ m < 11
             \/ u = "bob" /\ v = "cindy" /\ m >= 6
             \/ u = "cindy" /\ v = "alice" /\ m >= 7
      BY <1>2 DEF FollowsAfter
    <3>4. n \in {4, 5, 6, 7} /\ m = n - 1
      BY <2>1
    <3> QED
      BY <3>1, <3>2, <3>3, <3>4
  <2>5. UsersAfter(n)' /\ PostsAfter(n)'
    BY <1>2, <2>1 DEF UsersAfter, PostsAfter
  <2>6. RightAnswer(n, Net!Status("OK"))
    BY <1>3, <2>1 DEF RightAnswer
  <2> QED
    BY <2>1, <2>3, <2>4, <2>5, <2>6, SampleDecides
<1>6. CASE Net!Unsubscribe(c)
  <2> DEFINE pair == <<Net!User(c), Net!Arg(c)>>
             status == IF pair \in NetFollows THEN "OK" ELSE "STORE_FAILED"
  <2>1. n = 11 /\ NetFollows' = NetFollows \ {pair} /\ Net!Decide(c, Net!Status(status))
        /\ NetUsers' = NetUsers /\ NetPosts' = NetPosts
    BY <1>1, <1>2, <1>6, SampleCalls DEF Net!Unsubscribe, Net!Asks
  <2>2. pair = <<"alice", "cindy">>
    BY <1>1, <1>2, <2>1, SampleCalls
  <2>3. pair \in NetFollows
    BY <1>2, <2>1, <2>2 DEF FollowsAfter
  <2>4. FollowsAfter(n)'
    <3>1. \A u, v : <<u, v>> \in NetFollows' <=>
             <<u, v>> \in NetFollows /\ ~(u = "alice" /\ v = "cindy")
      BY <2>1, <2>2
    <3> HIDE DEF pair, status
    <3> SUFFICES ASSUME NEW u, NEW v
                 PROVE  <<u, v>> \in NetFollows' <=>
                           \/ u = "alice" /\ v = "bob" /\ n >= 4
                           \/ u = "alice" /\ v = "cindy" /\ n >= 5 /\ n < 11
                           \/ u = "bob" /\ v = "cindy" /\ n >= 6
                           \/ u = "cindy" /\ v = "alice" /\ n >= 7
      BY DEF FollowsAfter
    <3>2. <<u, v>> \in NetFollows <=>
             \/ u = "alice" /\ v = "bob" /\ m >= 4
             \/ u = "alice" /\ v = "cindy" /\ m >= 5 /\ m < 11
             \/ u = "bob" /\ v = "cindy" /\ m >= 6
             \/ u = "cindy" /\ v = "alice" /\ m >= 7
      BY <1>2 DEF FollowsAfter
    <3> QED
      BY <2>1, <3>1, <3>2
  <2>5. UsersAfter(n)' /\ PostsAfter(n)'
    BY <1>2, <2>1 DEF UsersAfter, PostsAfter
  <2>6. RightAnswer(n, Net!Status("OK"))
    BY <1>3, <2>1 DEF RightAnswer
  <2> QED
    BY <2>1, <2>3, <2>4, <2>5, <2>6, SampleDecides
<1>7. CASE Net!Post(c)
  <2>1. n = 13 /\ Net!Decide(c, Net!Status("OK"))
        /\ NetPosts' = NetPosts \cup {[user |-> Net!User(c), contents |-> Net!Arg(c),
                                       no |-> Net!Cardinality(NetPosts) + 1]}
        /\ NetUsers' = NetUsers /\ NetFollows' = NetFollows
    BY <1>1, <1>2, <1>7, SampleCalls DEF Net!Post, Net!Asks
  <2>2. NetPosts = {} /\ Net!Cardinality({}) = 0
    BY <1>2, <2>1, FS_EmptySet DEF PostsAfter, Net!Cardinality, Cardinality
  <2>3. Net!User(c) = "alice" /\ Net!Arg(c) = Beautiful
    BY <1>1, <1>2, <2>1, SampleCalls
  <2>4. PostsAfter(n)'
    BY <2>1, <2>2, <2>3 DEF PostsAfter, SamplePost
  <2>5. UsersAfter(n)' /\ FollowsAfter(n)'
    BY <1>2, <2>1 DEF UsersAfter, FollowsAfter
  <2>6. RightAnswer(n, Net!Status("OK"))
    BY <1>3, <2>1 DEF RightAnswer
  <2> QED
    BY <2>1, <2>4, <2>5, <2>6, SampleDecides
<1> QED
  BY <1>4, <1>5, <1>6, <1>7

\* A call is never refused: whom it is about has been created before.
LEMMA SampleRefuses ==
    ASSUME NEW c \in Client, NEW n, NEW m, SampleRuns(c, n, m), n >= 1, m = n - 1,
           NEW left, NetDoing[c] = Net!Doing(ClientScript[n], 16 - n, Open, left, {})
    PROVE  ~(Net!Taken(c) \/ Net!Refuse(c) \/ Net!RefuseOther(c))
<1>1. /\ NetDoing[c].task = ClientScript[n]
      /\ Net!User(c) = ClientScript[n].user /\ Net!Arg(c) = ClientScript[n].arg
  BY DEF Net!Doing, Net!User, Net!Arg
<1>2. n \in 1..15 /\ UsersAfter(m)
  BY DEF SampleRuns
<1>3. ~Net!Taken(c)
  <2> SUFFICES ASSUME Net!Taken(c) PROVE FALSE
    OBVIOUS
  <2>1. n \in 1..3 /\ Net!User(c) \in NetUsers
    BY <1>1, <1>2, SampleCalls DEF Net!Taken, Net!Asks, Net!User
  <2>2. Net!User(c) = IF n = 1 THEN "alice" ELSE IF n = 2 THEN "bob" ELSE "cindy"
    BY <1>1, <2>1, SampleCalls
  <2> QED
    BY <1>2, <2>1, <2>2 DEF UsersAfter
<1>4. n \in 4..15 => {"alice", "bob", "cindy"} \subseteq NetUsers
  BY <1>2 DEF UsersAfter
<1>5. ~Net!Refuse(c)
  <2> SUFFICES ASSUME Net!Refuse(c) PROVE FALSE
    OBVIOUS
  <2>1. n \in 4..15 /\ Net!User(c) \notin NetUsers
    BY <1>1, <1>2, SampleCalls DEF Net!Refuse, Net!Asks, Net!User
  <2>2. Net!User(c) \in {"alice", "bob", "cindy"}
    <3>1. n \in {4, 5, 6, 7, 8, 9, 10, 11, 12, 13, 14, 15}
      BY <2>1
    <3> QED
      BY <1>1, <2>1, <3>1, SampleCalls
  <2> QED
    BY <1>4, <2>1, <2>2
<1>6. ~Net!RefuseOther(c)
  <2> SUFFICES ASSUME Net!RefuseOther(c) PROVE FALSE
    OBVIOUS
  <2>1. /\ n \in {4, 5, 6, 7, 11}
        /\ Net!Arg(c) \notin NetUsers \/ Net!Arg(c) = Net!User(c)
    BY <1>1, <1>2, SampleCalls DEF Net!RefuseOther, Net!Asks
  <2>2. /\ Net!Arg(c) \in {"alice", "bob", "cindy"}
        /\ Net!Arg(c) # Net!User(c)
    BY <1>1, <2>1, SampleCalls
  <2> QED
    BY <1>4, <2>1, <2>2
<1> QED
  BY <1>3, <1>5, <1>6

\* Those that look; the feed by subscription looks at cindy, who has posted nothing.
LEMMA SampleReads ==
    ASSUME MaxTribbles > 0, NEW c \in Client, NEW n, NEW m, SampleRuns(c, n, m), n >= 1,
           m = n - 1,
           NEW left, NetDoing[c] = Net!Doing(ClientScript[n], 16 - n, Open, left, {}),
           LeftAt(n, left),
           \/ Net!Show(c) \/ Net!List(c) \/ Net!LookUp(c)
           \/ \E u \in NetDoing[c].left : Net!LookAt(c, u)
    PROVE  SampleRuns(c, n, n)' \/ SampleRuns(c, n, m)'
<1>1. /\ NetDoing[c].task = ClientScript[n] /\ NetDoing[c].left = left /\ NetDoing[c].found = {}
      /\ Net!User(c) = ClientScript[n].user /\ Net!Arg(c) = ClientScript[n].arg
  BY DEF Net!Doing, Net!User, Net!Arg
<1>2. n \in 1..15 /\ UsersAfter(m) /\ FollowsAfter(m) /\ PostsAfter(m)
  BY DEF SampleRuns
<1>3. \A tribbles, subscriptions :
         LET answer == Net!Answer("OK", tribbles, subscriptions)
         IN  /\ answer.status = "OK" /\ answer.tribbles = tribbles
             /\ answer.subscriptions = subscriptions
  BY DEF Net!Answer
<1>4. /\ NetUsers' = NetUsers /\ NetFollows' = NetFollows /\ NetPosts' = NetPosts
  BY DEF Net!Show, Net!List, Net!LookUp, Net!LookAt, Net!Look
<1>5. n > 7 /\ n # 11 /\ n # 13
  <2>1. /\ Net!Show(c) => n = 14
        /\ Net!List(c) => n \in {8, 9, 10, 12}
        /\ Net!LookUp(c) => n = 15
    BY <1>1, <1>2, SampleCalls DEF Net!Show, Net!List, Net!LookUp, Net!Asks
  <2>2. (\E u \in NetDoing[c].left : Net!LookAt(c, u)) => n = 15
    BY <1>1 DEF LeftAt
  <2> QED
    BY <2>1, <2>2
<1>6. (UsersAfter(n) /\ FollowsAfter(n) /\ PostsAfter(n))'
  BY <1>2, <1>4, <1>5 DEF UsersAfter, FollowsAfter, PostsAfter
<1>7. CASE Net!Show(c)
  <2>1. n = 14 /\ Net!Decide(c, Net!Answer("OK", Net!FeedOf(Net!PostsOf(Net!User(c))), {}))
    BY <1>1, <1>2, <1>7, SampleCalls DEF Net!Show, Net!Asks
  <2>2. Net!PostsOf(Net!User(c)) = {SamplePost}
    BY <1>1, <1>2, <2>1, SampleCalls DEF PostsAfter, SamplePost, Net!PostsOf
  <2> DEFINE feed == <<[user |-> "alice", contents |-> Beautiful]>>
  <2>3. Net!Decide(c, Net!Answer("OK", feed, {}))
    BY <2>1, <2>2, SampleFeeds
  <2>4. RightAnswer(n, Net!Answer("OK", feed, {}))
    <3>1. n # 8 /\ n # 12 /\ n # 15
      BY <2>1
    <3>2. Net!Answer("OK", feed, {}).tribbles = feed
      BY <1>3
    <3> QED
      BY <1>3, <3>1, <3>2 DEF RightAnswer
  <2> QED
    BY <1>6, <2>3, <2>4, SampleDecides
<1>8. CASE Net!List(c)
  <2>1. /\ n \in {8, 9, 10, 12}
        /\ Net!Decide(c, Net!Answer("OK", <<>>, Net!FollowedBy(Net!User(c))))
    BY <1>1, <1>2, <1>8, SampleCalls DEF Net!List, Net!Asks
  <2>2. n \in {8, 12} => Net!User(c) = "alice"
    BY <1>1, <2>1, SampleCalls
  <2>3. /\ n = 8 => Net!FollowedBy(Net!User(c)) = {"bob", "cindy"}
        /\ n = 12 => Net!FollowedBy(Net!User(c)) = {"bob"}
    BY <1>2, <2>2 DEF Net!FollowedBy, UsersAfter, FollowsAfter
  <2>4. RightAnswer(n, Net!Answer("OK", <<>>, Net!FollowedBy(Net!User(c))))
    BY <1>3, <2>1, <2>3 DEF RightAnswer
  <2> QED
    BY <1>6, <2>1, <2>4, SampleDecides
<1>9. CASE Net!LookUp(c)
  <2>1. n = 15 /\ Net!Look(c, Net!FollowedBy(Net!User(c)), {})
    BY <1>1, <1>2, <1>9, SampleCalls DEF Net!LookUp, Net!Asks
  <2>2. Net!FollowedBy(Net!User(c)) = {"cindy"}
    <3>1. Net!User(c) = "bob"
      BY <1>1, <2>1, SampleCalls
    <3> QED
      BY <1>2, <2>1, <3>1 DEF Net!FollowedBy, UsersAfter, FollowsAfter
  <2>3. /\ NetDoing' = [NetDoing EXCEPT ![c].left = {"cindy"}, ![c].found = {}]
        /\ UNCHANGED script /\ NetTold' = NetTold
    BY <2>1, <2>2 DEF Net!Look
  <2>4. NetDoing'[c] = Net!Doing(ClientScript[n], 16 - n, Open, {"cindy"}, {})
    BY <2>1, <2>2, Alters
  <2>5. \A d \in Client \ {c} : script'[d] = <<>> /\ NetDoing'[d] = Net!Nothing
    BY <2>3 DEF SampleRuns, NetDoing
  <2>6. Runs(c, n, m)'
    BY <2>1, <2>4 DEF Runs, LeftAt
  <2>7. (UsersAfter(m) /\ FollowsAfter(m) /\ PostsAfter(m))'
    BY <1>2, <1>4, SampleKeeps
  <2> QED
    BY <2>3, <2>5, <2>6, <2>7 DEF SampleRuns
<1>10. CASE \E u \in NetDoing[c].left : Net!LookAt(c, u)
  <2>1. PICK u \in left : Net!LookAt(c, u)
    BY <1>1, <1>10
  <2>2. n = 15 /\ left = {"cindy"} /\ u = "cindy"
    BY <2>1 DEF LeftAt
  <2>3. Net!PostsOf(u) = {}
    BY <1>2, <2>2 DEF Net!PostsOf, PostsAfter, SamplePost
  <2>4. Net!Decide(c, Net!Answer("OK", Net!FeedOf({}), {}))
    <3>1. NetDoing[c].left \ {u} = {} /\ NetDoing[c].found \cup Net!PostsOf(u) = {}
      BY <1>1, <2>2, <2>3
    <3> QED
      BY <2>1, <3>1 DEF Net!LookAt, Net!Look
  <2>5. RightAnswer(n, Net!Answer("OK", Net!FeedOf({}), {}))
    BY <1>3, <2>2, SampleFeeds DEF RightAnswer
  <2> QED
    BY <1>6, <2>4, <2>5, SampleDecides
<1> QED
  BY <1>7, <1>8, <1>9, <1>10

\* Every step of the network.
LEMMA SampleNext ==
    ASSUME MaxTribbles > 0, TribblerTypeOK, NEW c \in Client, NEW n, NEW m, SampleRuns(c, n, m),
           Net!Next
    PROVE  \E n2, m2 : SampleRuns(c, n2, m2)'
<1>1. Open = Net!NoAnswer /\ Open.status = "none"
  BY DEF Open, Answering, Net!NoAnswer, Net!Status, Net!Answer
<1>2. PICK d \in Client :
         \/ Net!Begin(d) \/ Net!Tell(d)
         \/ Net!Create(d) \/ Net!Taken(d) \/ Net!Refuse(d) \/ Net!RefuseOther(d)
         \/ Net!Subscribe(d) \/ Net!Unsubscribe(d) \/ Net!Post(d)
         \/ Net!Show(d) \/ Net!List(d) \/ Net!LookUp(d)
         \/ \E u \in NetDoing[d].left : Net!LookAt(d, u)
  BY DEF Net!Next
<1>3. /\ Net!Nothing.answer = Open /\ Net!Nothing.left = {} /\ Net!Nothing.task.op = "none"
      /\ \A t, k, answer, left :
            LET doing == Net!Doing(t, k, answer, left, {})
            IN  doing.answer = answer /\ doing.left = left /\ doing.task = t
  BY <1>1 DEF Net!Nothing, Net!Doing
<1>4. NetDoing[d] = Net!Nothing => Net!Begin(d)
  BY <1>1, <1>2, <1>3
     DEF Net!Tell, Net!Create, Net!Taken, Net!Refuse, Net!RefuseOther, Net!Subscribe,
         Net!Unsubscribe, Net!Post, Net!Show, Net!List, Net!LookUp, Net!Asks
<1>5. d = c
  BY <1>4 DEF SampleRuns, Net!Begin
<1>6. CASE NetDoing[c] = Net!Nothing
  BY <1>4, <1>5, <1>6, SampleBegins
<1>7. ASSUME NEW left, NetDoing[c] = Net!Doing(ClientScript[n], 16 - n, Open, left, {}),
             n >= 1, m = n - 1, LeftAt(n, left)
      PROVE  \E n2, m2 : SampleRuns(c, n2, m2)'
  <2>1. ~Net!Tell(c)
    BY <1>1, <1>3, <1>7 DEF Net!Tell
  <2>2. ~Net!Begin(c)
    <3>1. ClientScript[n].op # "none"
      BY <1>7, SampleCalls DEF SampleRuns
    <3>2. NetDoing[c].task # Net!Nothing.task
      BY <1>3, <1>7, <3>1
    <3> QED
      BY <3>2 DEF Net!Begin
  <2>3. ~(Net!Taken(c) \/ Net!Refuse(c) \/ Net!RefuseOther(c))
    BY <1>7, SampleRefuses
  <2>4. CASE Net!Create(c) \/ Net!Subscribe(c) \/ Net!Unsubscribe(c) \/ Net!Post(c)
    BY <1>7, <2>4, SampleWrites
  <2>5. CASE \/ Net!Show(c) \/ Net!List(c) \/ Net!LookUp(c)
             \/ \E u \in NetDoing[c].left : Net!LookAt(c, u)
    BY <1>7, <2>5, SampleReads
  <2> QED
    BY <1>2, <1>5, <2>1, <2>2, <2>3, <2>4, <2>5
<1>8. ASSUME NEW answer, NetDoing[c] = Net!Doing(ClientScript[n], 16 - n, answer, {}, {}),
             n >= 1, RightAnswer(n, answer)
      PROVE  Net!Tell(c)
  <2>1. NetDoing[c].answer # Open
    BY <1>1, <1>3, <1>8 DEF RightAnswer
  <2>2. NetDoing[c] # Net!Nothing /\ NetDoing[c].left = {}
    BY <1>3, <1>8, <2>1
  <2> QED
    BY <1>1, <1>2, <1>5, <2>1, <2>2
       DEF Net!Begin, Net!Create, Net!Taken, Net!Refuse, Net!RefuseOther, Net!Subscribe,
           Net!Unsubscribe, Net!Post, Net!Show, Net!List, Net!LookUp, Net!Asks
<1> QED
  BY <1>6, <1>7, <1>8, SampleTells DEF SampleRuns, Runs

\* Tribbles are answered as sequences.
ToldPlain ==
    \A a \in told : a.status = "OK" =>
        a.tribbles = [n \in DOMAIN a.tribbles |-> a.tribbles[n]]

\* Every answer that is given keeps to that.
LEMMA PlainNext ==
    ASSUME BaseInv, ToldPlain, [TNext]_tvars, faults' = 0
    PROVE  ToldPlain'
<1>1. CASE told' = told
  BY <1>1 DEF ToldPlain
<1>2. ASSUME NEW c \in Client, NEW a, Tells(c, a)
      PROVE  ToldPlain'
  <2>1. ASSUME a.status = "OK"
        PROVE  a.tribbles = [n \in DOMAIN a.tribbles |-> a.tribbles[n]]
    <3>1. a.tribbles = <<>> \/ \E found : Shows(found, a.tribbles)
      <4>1. Answers(c, "OK", a.tribbles)
        BY <1>2, <2>1 DEF Tells
      <4> QED
        BY <1>2, <4>1 DEF Tells, Answers, Carries, ReadsFeed, Does
    <3>2. CASE \E found : Shows(found, a.tribbles)
      <4>1. PICK shown : a.tribbles = [n \in DOMAIN shown |-> Shown(shown[n])]
        BY <3>2 DEF Shows
      <4> QED
        BY <4>1
    <3> QED
      BY <3>1, <3>2
  <2> QED
    BY <1>2, <2>1 DEF ToldPlain, Tells
<1> QED
  BY <1>1, <1>2, TribblerSteps DEF ByServer, Begins, Turns, tvars

\* Before the first call.
LEMMA InitSample ==
    ASSUME B = N, OneEntryOnly, TInit, SampleAlone
    PROVE  ToldPlain /\ \E c \in Client : \E n, m : SampleRuns(c, n, m)
<1>1. /\ NetUsers = {"server_id", "server_status"} /\ NetFollows = {} /\ NetPosts = {}
      /\ NetDoing = [c \in Client |-> Net!Nothing] /\ NetTold = {}
  BY InitNetwork DEF Net!Init
<1>2. PICK c \in Client : script = [d \in Client |-> IF d = c THEN ClientScript ELSE <<>>]
  BY DEF SampleAlone
<1>3. Len(script[c]) = 15 /\ \A i \in 1..15 : script[c][i] = ClientScript[0 + i]
  BY <1>2, SampleCalls
<1>4. UsersAfter(0) /\ FollowsAfter(0) /\ PostsAfter(0)
  BY <1>1 DEF UsersAfter, FollowsAfter, PostsAfter
<1>5. Runs(c, 0, 0)
  BY <1>1 DEF Runs
<1>6. SampleRuns(c, 0, 0)
  BY <1>1, <1>2, <1>3, <1>4, <1>5 DEF SampleRuns
<1> QED
  BY <1>6 DEF ToldPlain, TInit

\* Steps the network does not see.
LEMMA SampleStays ==
    ASSUME NEW c \in Client, NEW n, NEW m, SampleRuns(c, n, m), UNCHANGED Net!vars
    PROVE  SampleRuns(c, n, m)'
<1>1. /\ NetUsers' = NetUsers /\ NetFollows' = NetFollows /\ NetPosts' = NetPosts
      /\ NetDoing' = NetDoing /\ NetTold' = NetTold /\ script' = script
  BY DEF Net!vars
<1>2. Runs(c, n, m)'
  BY <1>1 DEF SampleRuns, Runs
<1> QED
  BY <1>1, <1>2, SampleKeeps DEF SampleRuns

\* What the network has told is what the client was told.
LEMMA SampleTold ==
    ASSUME TribblerTypeOK, ToldPlain, NEW c \in Client, NEW n, NEW m, SampleRuns(c, n, m)
    PROVE  ScriptWorks
<1> SUFFICES ASSUME NEW a \in told
             PROVE  /\ a.status = "OK"
                    /\ a.no = 8 => a.subscriptions = {"bob", "cindy"}
                    /\ a.no = 4 => a.subscriptions = {"bob"}
                    /\ a.no = 2 => /\ Len(a.tribbles) = 1 /\ a.tribbles[1].user = "alice"
                                   /\ a.tribbles[1].item.value = Beautiful
                    /\ a.no = 1 => a.tribbles = <<>>
  BY DEF ScriptWorks, AnswersTo
<1> DEFINE shown == Unstamped(a.tribbles)
<1>1. ToldOf(a) \in NetTold
  BY DEF NetTold
<1>2. /\ ToldOf(a).no = a.no
      /\ ToldOf(a).answer.status = a.status /\ ToldOf(a).answer.tribbles = shown
      /\ ToldOf(a).answer.subscriptions = a.subscriptions
  BY DEF ToldOf, Answering
<1>3. a.no \in 1..15 /\ RightAnswer(16 - a.no, ToldOf(a).answer)
  BY <1>1, <1>2 DEF SampleRuns
<1>4. /\ a.status = "OK"
      /\ a.no = 8 => a.subscriptions = {"bob", "cindy"}
      /\ a.no = 4 => a.subscriptions = {"bob"}
      /\ a.no = 2 => shown = <<[user |-> "alice", contents |-> Beautiful]>>
      /\ a.no = 1 => shown = <<>>
  <2> HIDE DEF shown
  <2> QED
    BY <1>2, <1>3 DEF RightAnswer
<1>5. /\ a.tribbles = [i \in DOMAIN a.tribbles |-> a.tribbles[i]]
      /\ DOMAIN shown = DOMAIN a.tribbles
      /\ \A i \in DOMAIN shown : shown[i] = [user |-> a.tribbles[i].user,
                                             contents |-> a.tribbles[i].item.value]
  BY <1>4 DEF ToldPlain, Unstamped
<1> HIDE DEF shown
<1>6. ASSUME a.no = 2
      PROVE  /\ Len(a.tribbles) = 1 /\ a.tribbles[1].user = "alice"
             /\ a.tribbles[1].item.value = Beautiful
  <2> DEFINE x == [user |-> "alice", contents |-> Beautiful]
  <2>1. shown = <<x>>
    BY <1>4, <1>6
  <2>2. x.user = "alice" /\ x.contents = Beautiful
    OBVIOUS
  <2> HIDE DEF x
  <2>3. DOMAIN shown = 1..1 /\ shown[1] = x
    BY <2>1
  <2>4. [user |-> a.tribbles[1].user, contents |-> a.tribbles[1].item.value] = x
    BY <1>5, <2>3
  <2>5. a.tribbles[1].user = "alice" /\ a.tribbles[1].item.value = Beautiful
    BY <2>2, <2>4
  <2>6. a.tribbles = [i \in 1..1 |-> a.tribbles[i]]
    BY <1>5, <2>3
  <2>7. \A f : [i \in 1..1 |-> f[i]] = <<f[1]>>
    OBVIOUS
  <2>8. a.tribbles = <<a.tribbles[1]>>
    BY <2>6, <2>7
  <2>9. \A y : Len(<<y>>) = 1
    OBVIOUS
  <2> QED
    BY <2>5, <2>8, <2>9
<1>7. ASSUME a.no = 1
      PROVE  a.tribbles = <<>>
  <2>1. DOMAIN a.tribbles = {}
    BY <1>4, <1>5, <1>7
  <2> QED
    BY <1>5, <2>1
<1> QED
  BY <1>4, <1>6, <1>7

\* Until something crashes.
SampleInv ==
    faults = 0 => /\ ToldPlain
                   /\ \E c \in Client : \E n, m : SampleRuns(c, n, m)

\* With the cluster to itself the sample client has nothing to complain about.
THEOREM SampleWorks ==
    ASSUME B = N, OneEntryOnly, ScriptsFit, MaxTribbles > 0
    PROVE  SampleAlone /\ TSpec => []ScriptWorks
<1>1. TInit /\ SampleAlone => LinkInv /\ SampleInv
  BY InitServed, InitFeed, InitNet, InitSample DEF LinkInv, SampleInv
<1>2. LinkInv /\ [TNext]_tvars => LinkInv'
  BY ServedNext, FeedNext, NetNext DEF LinkInv, ServedInv
<1>3. LinkInv /\ SampleInv /\ [TNext]_tvars => SampleInv'
  <2> SUFFICES ASSUME LinkInv, SampleInv, [TNext]_tvars, faults' = 0
               PROVE  ToldPlain' /\ \E c \in Client : \E n, m : SampleRuns(c, n, m)'
    BY DEF SampleInv
  <2>1. BaseInv /\ TribblerTypeOK
    BY DEF LinkInv, ServedInv, HubInv, BaseInv, TribblerInv
  <2>2. faults = 0
    BY <2>1, TribblerStep
  <2>3. PICK c \in Client : \E n, m : SampleRuns(c, n, m)
    BY <2>2 DEF SampleInv
  <2>4. PICK n, m : SampleRuns(c, n, m)
    BY <2>3
  <2>5. ToldPlain'
    BY <2>1, <2>2, PlainNext DEF SampleInv
  <2>6. CASE Net!Next
    BY <2>1, <2>4, <2>5, <2>6, SampleNext
  <2>7. CASE UNCHANGED Net!vars
    BY <2>4, <2>5, <2>7, SampleStays
  <2> QED
    BY <2>6, <2>7, StepSeen
<1>4. LinkInv /\ SampleInv => ScriptWorks
  <2>1. LinkInv => TribblerTypeOK
    BY DEF LinkInv, ServedInv, HubInv, BaseInv, TribblerInv
  <2>2. ASSUME LinkInv, SampleInv, faults = 0
        PROVE  ScriptWorks
    BY <2>1, <2>2, SampleTold DEF SampleInv
  <2>3. faults # 0 => ScriptWorks
    BY DEF ScriptWorks
  <2> QED
    BY <2>2, <2>3
<1> QED
  BY <1>1, <1>2, <1>3, <1>4, PTL DEF TSpec
=============================================================================
