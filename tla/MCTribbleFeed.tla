---------------------------- MODULE MCTribbleFeed ----------------------------
(***************************************************************************)
(* Feeds of six tribbles, with the order of their time stamps: one that    *)
(* no reader can parse and that has no stamp, two posted at servers that   *)
(* had not heard of each other, two with the same stamp, and a later one.  *)
(***************************************************************************)
EXTENDS TribbleFeed, TLC

CONSTANTS t1, t2, t3, t4, t5, t6

SixTribbles == {t1, t2, t3, t4, t5, t6}

V == INSTANCE VectorTimestamp WITH N <- 2

Posted == (t1 :> V!NoStamp) @@ (t2 :> <<1, 0>>) @@ (t3 :> <<0, 1>>)
       @@ (t4 :> <<2, 1>>) @@ (t5 :> <<2, 1>>) @@ (t6 :> <<3, 1>>)

PostedBefore(t, u) == V!PostedLess(Posted[t], Posted[u])

\* The two ways of saying what a feed is agree.
ASSUME FeedsAgree ==
    \A all \in SUBSET {t1, t2, t4, t5} : \A n \in 0..4 :
        {s \in [1..n -> all] : IsFeed(s, all)} = {s \in Feeds(all) : Len(s) = n}
=============================================================================
