----------------------------- MODULE TribbleFeed -----------------------------
(***************************************************************************)
(* The loops of GetTribbles and GetTribblesBySubscription over a priority  *)
(* queue (Tribbler_server.cpp).  The queue's order is Tribble::operator<,  *)
(* which is reversed, so that its top is an oldest tribble; the queue is   *)
(* cut while it is filled, and emptied oldest first into a list that is    *)
(* reversed at the end.                                                    *)
(***************************************************************************)
EXTENDS Feed

CONSTANT Found                  \* the tribbles in the lists that were read

ASSUME FeedAssumption == IsFiniteSet(Found) /\ MaxTribbles \in Nat

\* The lexicographic order of the time stamps.
ASSUME OlderAssumption ==
    /\ \A t \in Found : ~Older(t, t)
    /\ \A t, u, v \in Found : Older(t, u) /\ Older(u, v) => Older(t, v)
    /\ \A t, u, v \in Found : ~Older(t, u) /\ ~Older(u, v) => ~Older(t, v)

VARIABLES
    loop,       \* whose loop it is
    left,       \* tribbles the loop has not come to
    pq,         \* the priority queue
    count,      \* i, or count: how many have been pushed
    tribbles,   \* _return.tribbles
    pc          \* "fill", "empty" or "done"

vars == <<loop, left, pq, count, tribbles, pc>>

Init ==
    /\ loop \in {"GetTribbles", "GetTribblesBySubscription"}
    /\ left = Found
    /\ pq = {}
    /\ count = 0
    /\ tribbles = <<>>
    /\ pc = "fill"

\* Mutant of Tops: operator< is the order of posting.
TopsNewest(q) == {t \in q : \A u \in q : ~Older(t, u)}

\* What top() may be, and pop() removes.
Tops(q) == {t \in q : \A u \in q : ~Older(u, t)}

\* Mutant of IsFull: both loops compare in the same way.
IsFullEarly(n) == n >= MaxTribbles

\* Whether the loop pops after it has pushed the n-th tribble: GetTribbles compares
\* the index, before it is advanced, and the other loop the count, after it was.
IsFull(n) ==
    IF loop = "GetTribbles" THEN n - 1 >= MaxTribbles ELSE n > MaxTribbles

\* One round of the loop.
Push(t) ==
    /\ pc = "fill" /\ t \in left
    /\ left' = left \ {t}
    /\ count' = count + 1
    /\ IF IsFull(count')
       THEN \E u \in Tops(pq \cup {t}) : pq' = (pq \cup {t}) \ {u}
       ELSE pq' = pq \cup {t}
    /\ UNCHANGED <<loop, tribbles, pc>>

Filled ==
    /\ pc = "fill" /\ left = {}
    /\ pc' = "empty"
    /\ UNCHANGED <<loop, left, pq, count, tribbles>>

\* push_back(pq.top()); pq.pop();
Pop ==
    /\ pc = "empty"
    /\ \E t \in Tops(pq) : pq' = pq \ {t} /\ tribbles' = Append(tribbles, t)
    /\ UNCHANGED <<loop, left, count, pc>>

\* Mutant of Reverse.
ReverseNot(s) == s

Reverse(s) == [i \in 1..Len(s) |-> s[Len(s) + 1 - i]]

Reversed ==
    /\ pc = "empty" /\ pq = {}
    /\ tribbles' = Reverse(tribbles)
    /\ pc' = "done"
    /\ UNCHANGED <<loop, left, pq, count>>

Done == pc = "done" /\ UNCHANGED vars

Next == (\E t \in left : Push(t)) \/ Filled \/ Pop \/ Reversed \/ Done

Spec == Init /\ [][Next]_vars

-----------------------------------------------------------------------------

\* The queue holds the newest of the tribbles the loop has come to, and as many as
\* there may be, after every round of either loop: whether they compare before or
\* after counting, and although the queue's order is the reverse of the time.
KeepsNewest == pc = "fill" => IsCut(pq, Found \ left)

\* What the client gets is the feed of all that was found, newest first.
AnswersFeed == pc = "done" => IsFeed(tribbles, Found)
=============================================================================
