--------------------------- MODULE PriorityQueue ---------------------------
(* What the solver expects of its worklist (push_worklist, pop_worklist in *)
(* liquid/constraint.ml): a set that hands out one of its greatest members.*)
CONSTANTS Ids, Greater(_, _), Nothing

VARIABLES queue, popped

vars == <<queue, popped>>

Init == queue = {} /\ popped = Nothing

Push(i) == queue' = queue \cup {i} /\ popped' = popped

Pop == \E i \in queue :
    /\ ~\E j \in queue : Greater(j, i)
    /\ queue' = queue \ {i} /\ popped' = i

PopEmpty == queue = {} /\ queue' = queue /\ popped' = Nothing

Next == (\E i \in Ids : Push(i)) \/ Pop \/ PopEmpty

Spec == Init /\ [][Next]_vars
=============================================================================
