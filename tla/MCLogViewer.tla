----------------------------- MODULE MCLogViewer -----------------------------
(* Instances of LogViewer for TLC.                                            *)
EXTENDS LogViewer

Both(a, b) == [w \in {"a", "b"} |-> IF w = "a" THEN a ELSE b]

\* A line in which "a" is only part of an entity, one whose last match of three
\* is lost with a colour code, an older one with an entity before its match, and
\* an event with a match.
MCKinds ==
    {[time |-> 2, found |-> Both(0, 1), marks |-> Both(<<0>>, <<1>>), event |-> FALSE],
     [time |-> 2, found |-> Both(3, 0), marks |-> Both(<<1, 2>>, <<>>), event |-> FALSE],
     [time |-> 1, found |-> Both(1, 0), marks |-> Both(<<0, 1>>, <<>>), event |-> FALSE],
     [time |-> 2, found |-> Both(1, 0), marks |-> Both(<<1>>, <<>>), event |-> TRUE]}
===============================================================================
