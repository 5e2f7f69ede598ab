----------------------------- MODULE MCProverZ3 -----------------------------
(* Predicates about a program variable x, a value y, and a quantified u.   *)
EXTENDS ProverZ3, TLC, FiniteSets

CONSTANTS x, y, u, n1, n2, n3, n4, bound

mcVars == {x, y, u}
mcNames == {n1, n2, n3, n4}

(* x > 0, x <= 0, x = y, x # y, y > 0, y <= 0, and "for all u, u <= x"     *)
mcPreds == {"xpos", "xneg", "same", "differ", "ypos", "yneg", "max", "nomax"}
mcFree == [p \in mcPreds |->
    IF p \in {"same", "differ"} THEN {x, y}
    ELSE IF p \in {"ypos", "yneg"} THEN {y} ELSE {x}]
mcBinders == [p \in mcPreds |-> IF p \in {"max", "nomax"} THEN {u} ELSE {}]
mcNeg == "xpos" :> "xneg" @@ "xneg" :> "xpos" @@ "same" :> "differ"
         @@ "differ" :> "same" @@ "ypos" :> "yneg" @@ "yneg" :> "ypos"
         @@ "max" :> "nomax" @@ "nomax" :> "max"

(* No integer is greatest. *)
mcClashes == {{p, mcNeg[p]} : p \in mcPreds}
    \cup {{"same", "xpos", "yneg"}, {"same", "xneg", "ypos"}, {"max"}}
mcContradicts(S) == \E clash \in mcClashes : clash \subseteq S

Symmetric == Permutations(mcNames)
=============================================================================
