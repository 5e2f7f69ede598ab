--------------------------- MODULE MCLiquidSolver ---------------------------
(* A recursive function with one parameter p and one result r, two local   *)
(* expressions x and y, a data-structure variable d, and two assertions.   *)
(*                                                                         *)
(*   let rec f p = let x = if .. then p else 0 in let y = x in             *)
(*                 if .. then y else f r                                   *)
EXTENDS LiquidSolver, TLC

CONSTANTS a, b, c, p, r, d, x, y, none

mcSubs == 1..9
mcWfs == 1..4
mcQuals == {a, b, c}
mcUnknowns == {p, r}
mcDtyVars == {d}
mcLocals == {x, y}

(* 1: main |- p     2: p |- x     3: 0 |- x (else branch)     4: x |- y    *)
(* 5: y |- r        6: p, r |- p (recursive call)   7: p, r |- assert      *)
(* 8: d |- d, the tail of a data structure      9: p |- assert             *)
mcLhs == 1 :> {} @@ 2 :> {p} @@ 3 :> {} @@ 4 :> {x} @@ 5 :> {y}
         @@ 6 :> {p, r} @@ 7 :> {r} @@ 8 :> {d, p} @@ 9 :> {p}
mcRhs == 1 :> p @@ 2 :> x @@ 3 :> x @@ 4 :> y @@ 5 :> r
         @@ 6 :> p @@ 7 :> none @@ 8 :> d @@ 9 :> none
mcGoal == [i \in mcSubs |-> IF i = 7 THEN {c} ELSE IF i = 9 THEN {a} ELSE {}]

mcWfVar == 1 :> p @@ 2 :> r @@ 3 :> d @@ 4 :> x
mcWfQuals == 1 :> {a, b, c} @@ 2 :> {b, c} @@ 3 :> {a, b} @@ 4 :> {}

mcInitQuals == {a, c}
mcDtyQuals == {a}
mcOffers == [mcUnknowns -> {{}, {b}, {c}, {b, c}}]

mcRank == 1 :> 3 @@ 2 :> 2 @@ 3 :> 4 @@ 4 :> 2 @@ 5 :> 2 @@ 6 :> 2
          @@ 7 :> 0 @@ 8 :> 1 @@ 9 :> 0
mcSimple == [i \in mcSubs |-> i \in {2, 4, 5, 6}]
mcOrigin == 1 :> 1 @@ 2 :> 2 @@ 3 :> 2 @@ 4 :> 3 @@ 5 :> 4 @@ 6 :> 4
            @@ 7 :> 5 @@ 8 :> 6 @@ 9 :> 7

(* What the prover knows, as Horn rules <<constraint, hypotheses, fact>>.  *)
mcRules == {
    <<1, {}, a>>, <<1, {}, b>>,
    <<2, {<<p, a>>}, a>>, <<2, {<<p, b>>}, b>>, <<2, {<<p, a>>, <<p, b>>}, c>>,
    <<3, {}, b>>, <<3, {}, c>>,
    <<4, {<<x, b>>}, b>>, <<4, {<<x, c>>}, c>>, <<4, {<<x, a>>}, a>>,
    <<5, {<<y, a>>}, a>>, <<5, {<<y, b>>}, b>>, <<5, {<<y, c>>}, c>>,
    <<6, {<<p, a>>}, a>>, <<6, {<<r, b>>}, b>>, <<6, {<<r, c>>, <<p, c>>}, c>>,
    <<7, {<<r, b>>, <<r, c>>}, c>>,
    <<8, {<<p, b>>}, a>>, <<9, {<<p, a>>}, a>> }

mcNeeds == [i \in mcSubs |-> [q \in mcQuals |->
    {rule[2] : rule \in {g \in mcRules : g[1] = i /\ g[3] = q}}]]

mcEntails(i, H, q) == \E needed \in mcNeeds[i][q] : \A h \in needed : h[2] \in H[h[1]]
=============================================================================
