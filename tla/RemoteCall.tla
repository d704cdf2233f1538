----------------------------- MODULE RemoteCall -----------------------------
(***************************************************************************)
(* What the callers of KeyValueStoreClient and TribblerClient rely on: the *)
(* calls made over one connection run one after the other, each at most    *)
(* once and with the arguments it was made with; a call that returns       *)
(* returns what that run of the handler gave, and one that fails may have  *)
(* run, may run later, or may never run.  No call follows a failed one.    *)
(***************************************************************************)
EXTENDS Sequences, Naturals

CONSTANTS
    Conn,                       \* connections
    Request,                    \* the calls that may be made over each of them
    Served,                     \* names of the methods the server has
    Answer                      \* what the handler of each of these may return

VARIABLES
    made,       \* calls made over each connection, with their arguments
    ran,        \* handlers that have run for it: the call and its outcome
    got         \* outcomes the caller has seen

vars == <<made, ran, got>>

Value(v)      == [kind |-> "value", value |-> v]
Failure(kind) == [kind |-> kind]

\* The handler throws: TApplicationException, with the text of the exception.
Thrown == Failure("exception")

Last(s) == s[Len(s)]

Waiting(x) == Len(got[x]) < Len(made[x])

Failed(x) == got[x] # <<>> /\ Last(got[x]).kind # "value"

Init ==
    /\ made = [x \in Conn |-> <<>>]
    /\ ran = [x \in Conn |-> <<>>]
    /\ got = [x \in Conn |-> <<>>]

Make(x) ==
    /\ ~Waiting(x) /\ ~Failed(x)
    /\ \E r \in Request[x] : made' = [made EXCEPT ![x] = Append(@, r)]
    /\ UNCHANGED <<ran, got>>

Run(x) ==
    /\ Len(ran[x]) < Len(made[x])
    /\ LET r == Last(made[x])
       IN  /\ r.name \in Served
           /\ \E o \in {Value(v) : v \in Answer[r.name]} \cup {Thrown} :
                 ran' = [ran EXCEPT ![x] = Append(@, [call |-> r, outcome |-> o])]
    /\ UNCHANGED <<made, got>>

Gets(x, outcome) ==
    /\ got' = [got EXCEPT ![x] = Append(@, outcome)]
    /\ UNCHANGED <<made, ran>>

Return(x) ==
    Waiting(x) /\ Len(ran[x]) = Len(made[x]) /\ Gets(x, Last(ran[x]).outcome)

Refuse(x) ==
    Waiting(x) /\ Last(made[x]).name \notin Served /\ Gets(x, Failure("unknown method"))

Break(x) == Waiting(x) /\ Gets(x, Failure("broken"))

Next == \E x \in Conn : Make(x) \/ Run(x) \/ Return(x) \/ Refuse(x) \/ Break(x)

Spec == Init /\ [][Next]_vars
=============================================================================
