-------------------------------- MODULE Feed --------------------------------
(***************************************************************************)
(* What GetTribbles and GetTribblesBySubscription promise of a list of     *)
(* tribbles: the newest of those found, no more than MaxTribbles, newest   *)
(* first.  Nothing is said of the order of tribbles posted at the same     *)
(* time; two texts in the store may be the same tribble to their reader.   *)
(***************************************************************************)
EXTENDS Naturals, Sequences, FiniteSets

CONSTANTS
    MaxTribbles,                \* the longest feed, 100 in the code
    Older(_, _)                 \* a was posted before b

\* kept is a set of newest ones of all that were found.
AreNewest(kept, all) ==
    /\ kept \subseteq all
    /\ \A t \in kept, u \in all \ kept : ~Older(t, u)

\* Mutant of IsCut: the feed is full one tribble too early.
IsCutShort(kept, all) ==
    /\ AreNewest(kept, all)
    /\ Cardinality(kept) < MaxTribbles
    /\ kept # all => Cardinality(kept) = MaxTribbles - 1

IsCut(kept, all) ==
    /\ AreNewest(kept, all)
    /\ Cardinality(kept) <= MaxTribbles
    /\ kept # all => Cardinality(kept) = MaxTribbles

NewestFirst(shown) == \A i, j \in DOMAIN shown : i < j => ~Older(shown[i], shown[j])

\* shown is a list of different members of kept, and of all of them.
Lists(shown, kept) ==
    /\ {shown[i] : i \in DOMAIN shown} = kept
    /\ \A i, j \in DOMAIN shown : shown[i] = shown[j] => i = j

IsFeed(shown, all) ==
    \E kept \in SUBSET all : IsCut(kept, all) /\ Lists(shown, kept) /\ NewestFirst(shown)

\* All the feeds of a set of tribbles.
Feeds(all) ==
    UNION {{s \in [1..Cardinality(kept) -> kept] : Lists(s, kept) /\ NewestFirst(s)} :
              kept \in {k \in SUBSET all : IsCut(k, all)}}
=============================================================================
