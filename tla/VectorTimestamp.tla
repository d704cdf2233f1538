-------------------------- MODULE VectorTimestamp --------------------------
(***************************************************************************)
(* Vector timestamps (src/src/VectorTimestamp.cpp), one component per      *)
(* key-value server.  Server s of the command line is processor s - 1 of   *)
(* the code; components are indexed by the server id here.  A timestamp    *)
(* read back from a message may be any sequence of numbers, of any length. *)
(***************************************************************************)
EXTENDS Integers

CONSTANT N                      \* number of servers, argc / 2 in the constructor

ASSUME NAssumption == N \in Nat \ {0}

Server == 1..N

Stamp == [Server -> Nat]

\* The vector of size zero of a default-constructed VectorTimestamp.
NoStamp == [i \in {} |-> 0]

AnyStamp == Stamp \cup {NoStamp}

Zero == [s \in Server |-> 0]

Inc(v, p) == [v EXCEPT ![p] = @ + 1]

\* Mutants of Update: the argument is ignored; it is added.
UpdateIgnored(v, w) == v

UpdateSummed(v, w) == [i \in DOMAIN v |-> IF i \in DOMAIN w THEN v[i] + w[i] ELSE v[i]]

\* Component-wise maximum; the loop runs over the size of the argument.  If that is
\* the larger one it writes past the end, of which ReceiveFault is the other outcome.
Update(v, w) ==
    [i \in DOMAIN v |-> IF i \in DOMAIN w /\ v[i] < w[i] THEN w[i] ELSE v[i]]

\* operator<: every common component is at most the other's.  It is
\* reflexive, and vacuously true of an empty vector.
Leq(v, w) == \A i \in DOMAIN v \cap DOMAIN w : v[i] <= w[i]

(***************************************************************************)
(* Tribble::operator< of Tribbler_server.cpp is posted > t.posted, so that *)
(* GetTribbles shows later tribbles first.  The order of its two vectors   *)
(* is std::vector's, the lexicographic one.                                *)
(***************************************************************************)
PostedLess(v, w) ==
    \/ \E i \in DOMAIN v \cap DOMAIN w :
          /\ v[i] < w[i]
          /\ \A j \in DOMAIN v \cap DOMAIN w : j < i => v[j] = w[j]
    \/ /\ DOMAIN v \subseteq DOMAIN w /\ DOMAIN v # DOMAIN w
       /\ \A i \in DOMAIN v : v[i] = w[i]
=============================================================================
