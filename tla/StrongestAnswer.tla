--------------------------- MODULE StrongestAnswer ---------------------------
(* What the liquid-type solver of liquid/constraint.ml promises, for any   *)
(* kind of table: a pass prepares a table and then replaces it by the      *)
(* strongest acceptable table below it.                                    *)
CONSTANTS Tables, Below(_, _), Accepts(_)

VARIABLES tab, phase

vars == <<tab, phase>>

Init == tab \in Tables /\ phase = "preparing"

(* Tables are filled and filtered, and at last handed over as they are.    *)
Prepare == phase = "preparing" /\ phase' = phase /\ tab' \in Tables

HandOver == phase = "preparing" /\ phase' = "solving" /\ tab' = tab

Strongest(answer, given) ==
    /\ answer \in Tables /\ Accepts(answer) /\ Below(answer, given)
    /\ \A t \in Tables : Below(t, given) => Below(t, answer) \/ ~Accepts(t)

Solve == phase = "solving" /\ phase' = "solved" /\ Strongest(tab', tab)

Reopen == phase = "solved" /\ phase' = "preparing" /\ tab' \in Tables

Next == Prepare \/ HandOver \/ Solve \/ Reopen

Spec == Init /\ [][Next]_vars
==============================================================================
