-------------------------- MODULE MCSynthesisLoop --------------------------
(* A main function and a helper; three candidates, of which the third      *)
(* excludes every bad assignment.                                          *)
EXTENDS SynthesisLoop

CONSTANTS main, help, p, q, fake, weak, mid, strong, noarg, big

mcFuns == {main, help}
mcPoints == {p, q}
mcSpecs == {weak, mid, strong}
mcAdmits == [c \in mcSpecs |->
    IF c = weak THEN {p, q} ELSE IF c = mid THEN {q} ELSE {}]
mcGoals == {"call", "assert"}

(* The helper's call is proved with mid or strong, the assertion in main   *)
(* needs both functions.                                                   *)
mcVerdict(c) ==
    {g \in mcGoals :
        IF g = "call" THEN c[help] \subseteq {weak}
        ELSE strong \notin c[help] \/ c[main] = {}}

(* An assertion that is wrong.                                             *)
mcHopeless(c) == mcVerdict(c) \cup {"assert"}

mcTests == {noarg, big}
mcCalled == [t \in mcTests |-> IF t = big THEN mcFuns ELSE {main}]

(* A program may log nothing, or a call of main.                           *)
mcFlags == [hoflag : BOOLEAN, dty : BOOLEAN, reachability : BOOLEAN,
            logs : {{}, {main}}, shared : BOOLEAN]
mcPlain == [hoflag : BOOLEAN, dty : {FALSE}, reachability : {FALSE},
            logs : {{main}}, shared : {FALSE}]
=============================================================================
