------------------------------ MODULE Message ------------------------------
(***************************************************************************)
(* The values a list holds (src/src/Message.cpp).  A tribble is stored as  *)
(* the text ToJSON prints, which is determined by its contents and stamp;  *)
(* an item of any other list is plain text and carries no stamp.  ToJSON   *)
(* escapes nothing and ToMessage does not look at isSuccess, so what is    *)
(* read back of contents in Unescaped is up to the contents: they may end  *)
(* the string, bring members of their own, or make the reader fail.        *)
(***************************************************************************)
EXTENDS VectorTimestamp, Sequences

CONSTANTS Text,                 \* names, values and tribble contents
          Unescaped,            \* contents with a character ToJSON should escape
          Misread,              \* what ToMessage makes of a tribble with such contents
          Bare                  \* what it makes of a text that ToJSON did not print

\* asString and asInt throw, and jsoncpp's assertions abort the process, when a
\* member has another type.  "own": "vt" is the one that ToJSON printed.
Reading == [ends : {"returns", "throws", "aborts"}, own : BOOLEAN,
            value : Text, vt : Seq(Int)]

ASSUME MessageAssumption ==
    /\ Unescaped \subseteq Text
    /\ Misread \in [Unescaped -> Reading]
    /\ Bare \in [Text -> Reading]

Item == [value : Text, vt : AnyStamp]

Plain(text) == [value |-> text, vt |-> NoStamp]

ToJSON(contents, stamp) == [value |-> contents, vt |-> stamp]

\* A tribble that is read back as it was posted.
IsReadable(item) == item.vt # NoStamp /\ item.value \notin Unescaped

ReadingOf(item) == IF item.vt = NoStamp THEN Bare[item.value] ELSE Misread[item.value]

\* How ToMessage ends, and what it returns if it does.
ReadEnds(item) == IF IsReadable(item) THEN "returns" ELSE ReadingOf(item).ends

ToMessage(item) ==
    IF IsReadable(item) THEN item
    ELSE [value |-> ReadingOf(item).value,
          vt    |-> IF ReadingOf(item).own THEN item.vt ELSE ReadingOf(item).vt]
=============================================================================
