-------------------------- MODULE SeparatorLearner --------------------------
(***************************************************************************)
(* cbs_learn of liquid/cbslearner.ml: from good and bad samples of a       *)
(* function to predicates that hold on the good and on none of the bad.    *)
(*                                                                         *)
(* A sample is evaluated to the set of columns (atomic predicates) that    *)
(* hold on it.  A solution is a set of columns that tells every good from  *)
(* every bad sample, written to the prover as 0/1 variables; rec_solve     *)
(* finds the least number k of columns, allsolution every solution of that *)
(* size, interprete turns each into a disjunctive normal form by a greedy  *)
(* cover of the bad samples, one term per good sample.                     *)
(***************************************************************************)
EXTENDS Naturals, FiniteSets

CONSTANTS
    N,              \* number of atomic predicates
    Samples,        \* the tables of samples a call may be given
    Enforceable     \* columns that may mention a variable of enforces

Cols == 1 .. N

ASSUME LearnerAssumption ==
    /\ N \in Nat
    /\ Samples \subseteq SUBSET SUBSET Cols /\ {} \notin Samples
    /\ Enforceable \subseteq SUBSET Cols

VARIABLES
    pc,
    pos, neg,       \* evaluated samples
    enforced,       \* columns that mention a variable of enforces
    cols,           \* the columns left when the common ones are removed
    k,              \* number of columns asked for
    sols,           \* solutions found
    todo,           \* solutions still to be interpreted
    cur,            \* the one that is
    rows,           \* its good samples still without a term
    row,            \* the one being given a term
    left,           \* bad samples its term does not exclude yet
    chosen,         \* columns of the term
    terms,          \* terms of cur
    seps            \* separators

vars == <<pc, pos, neg, enforced, cols, k, sols, todo, cur, rows, row, left,
          chosen, terms, seps>>
given == <<pos, neg, enforced>>
search == <<cols, k, sols>>
cover == <<cur, rows, row, left, chosen, terms>>

Diff(v, w) == (v \ w) \cup (w \ v)

Init ==
    /\ pc = "start"
    /\ pos \in Samples /\ neg \in Samples /\ enforced \in Enforceable
    /\ cols = Cols /\ k = 0 /\ sols = {} /\ todo = {} /\ seps = {}
    /\ cur = {} /\ rows = {} /\ row = {} /\ left = {} /\ chosen = {} /\ terms = {}

(* Broken: only the good samples are compared.                             *)
GoodCommons == {i \in Cols : \A v, w \in pos : i \notin Diff(v, w)}

(* Columns with one value on every sample.                                 *)
Commons == {i \in Cols : \A v, w \in pos \cup neg : i \notin Diff(v, w)}

DropCommons ==
    /\ pc = "start" /\ pc' = "search"
    /\ cols' = Cols \ Commons
    /\ UNCHANGED <<given, k, sols, todo, cover, seps>>

(* Broken: every good sample is told from some bad one.                    *)
WeakSeparating(X) ==
    /\ X \in SUBSET cols
    /\ \A p \in pos : \E n \in neg : Diff(p, n) \cap X # {}
    /\ enforced \cap cols # {} => enforced \cap X # {}

(* constraint_f: X tells each good sample from each bad one, and mentions  *)
(* an enforced variable if a column does.                                  *)
Separating(X) ==
    /\ X \in SUBSET cols
    /\ \A p \in pos, n \in neg : Diff(p, n) \cap X # {}
    /\ enforced \cap cols # {} => enforced \cap X # {}

(* rec_solve: is there a solution, is there one of k columns?              *)
FirstModel ==
    /\ pc = "search"
    /\ IF \E X \in SUBSET cols : Separating(X)
       THEN pc' = "count" /\ k' = 1
       ELSE pc' = "done" /\ k' = 0
    /\ UNCHANGED <<given, cols, sols, todo, cover, seps>>

Sized(X) == Separating(X) /\ Cardinality(X) = k

MoreColumns ==
    /\ pc = "count" /\ ~\E X \in SUBSET cols : Sized(X)
    /\ k' = k + 1
    /\ UNCHANGED <<pc, given, cols, sols, todo, cover, seps>>

Fewest ==
    /\ pc = "count" /\ pc' = "all"
    /\ \E X \in SUBSET cols : Sized(X) /\ sols' = {X}
    /\ UNCHANGED <<given, cols, k, todo, cover, seps>>

(* Broken: earlier solutions are not ruled out.                            *)
UnrestrictedAnother(X) == Sized(X)

(* allsolution: one more that has not all the columns of an earlier one.   *)
Another(X) == Sized(X) /\ \A s \in sols : \E i \in s : i \notin X

OneMore ==
    /\ pc = "all"
    /\ \E X \in SUBSET cols : Another(X) /\ sols' = sols \cup {X}
    /\ UNCHANGED <<pc, given, cols, k, todo, cover, seps>>

(* Broken: the first solution is enough.                                   *)
EarlyNoMore ==
    /\ pc = "all" /\ pc' = "solution" /\ todo' = sols
    /\ UNCHANGED <<given, search, cover, seps>>

NoMore ==
    /\ pc = "all" /\ ~\E X \in SUBSET cols : Another(X)
    /\ pc' = "solution" /\ todo' = sols
    /\ UNCHANGED <<given, search, cover, seps>>

(* interprete: the samples as this solution sees them.                     *)
NextSolution ==
    /\ pc = "solution" /\ pc' = "row"
    /\ \E X \in todo :
        /\ cur' = X /\ todo' = todo \ {X}
        /\ rows' = {p \cap X : p \in pos}
    /\ terms' = {}
    /\ UNCHANGED <<given, search, row, left, chosen, seps>>

Interpreted ==
    /\ pc = "solution" /\ todo = {} /\ pc' = "done"
    /\ UNCHANGED <<given, search, todo, cover, seps>>

(* to_dnf_expression: a term for the next good sample.                     *)
NextRow ==
    /\ pc = "row" /\ pc' = "cover"
    /\ \E r \in rows : row' = r /\ rows' = rows \ {r}
    /\ left' = {n \cap cur : n \in neg} /\ chosen' = {}
    /\ UNCHANGED <<given, search, todo, cur, terms, seps>>

(* The bad samples column i tells from the row, and the first column that  *)
(* tells most of them.                                                     *)
Excluded(i) == {n \in left : i \in Diff(n, row)}

Best(i) ==
    /\ i \in cur /\ Excluded(i) # {}
    /\ \A j \in cur :
        \/ Cardinality(Excluded(j)) < Cardinality(Excluded(i))
        \/ Cardinality(Excluded(j)) = Cardinality(Excluded(i)) /\ i <= j

Cover ==
    /\ pc = "cover" /\ left # {}
    /\ \E i \in cur : Best(i) /\ chosen' = chosen \cup {i} /\ left' = left \ Excluded(i)
    /\ UNCHANGED <<pc, given, search, todo, cur, rows, row, terms, seps>>

(* Broken: the negated columns are lost.                                   *)
PositiveCloseRow ==
    /\ pc = "cover" /\ left = {} /\ pc' = "row"
    /\ terms' = terms \cup {[yes |-> chosen \cap row, no |-> {}]}
    /\ UNCHANGED <<given, search, todo, cur, rows, row, left, chosen, seps>>

(* The term keeps the chosen columns as they are in the row.               *)
CloseRow ==
    /\ pc = "cover" /\ left = {} /\ pc' = "row"
    /\ terms' = terms \cup {[yes |-> chosen \cap row, no |-> chosen \ row]}
    /\ UNCHANGED <<given, search, todo, cur, rows, row, left, chosen, seps>>

Matches(t, v) == t.yes \subseteq v /\ t.no \cap v = {}

(* The separator of a solution, known by the samples it holds on: the      *)
(* optimiser of bes.ml rewrites the terms and keeps their meaning.         *)
CloseSolution ==
    /\ pc = "row" /\ rows = {} /\ pc' = "solution"
    /\ seps' = seps \cup
           {[on |-> cur, holds |-> {v \in SUBSET cur : \E t \in terms : Matches(t, v)}]}
    /\ UNCHANGED <<given, search, todo, cover>>

Done == pc = "done" /\ UNCHANGED vars

Next ==
    \/ DropCommons \/ FirstModel \/ MoreColumns \/ Fewest \/ OneMore \/ NoMore
    \/ NextSolution \/ Interpreted \/ NextRow \/ Cover \/ CloseRow
    \/ CloseSolution \/ Done

Spec == Init /\ [][Next]_vars

(* One thread; each query to the prover returns.                           *)
FairSpec == Spec /\ WF_vars(Next)

-----------------------------------------------------------------------------
Term == [yes : SUBSET Cols, no : SUBSET Cols]
Separator == [on : SUBSET Cols, holds : SUBSET SUBSET Cols]

TypeOK ==
    /\ pc \in {"start", "search", "count", "all", "solution", "row", "cover", "done"}
    /\ pos \in SUBSET SUBSET Cols /\ neg \in SUBSET SUBSET Cols
    /\ enforced \in SUBSET Cols /\ cols \in SUBSET Cols
    /\ k \in Nat
    /\ sols \in SUBSET SUBSET Cols /\ todo \in SUBSET sols
    /\ cur \in SUBSET Cols /\ rows \in SUBSET SUBSET cur /\ row \in SUBSET Cols
    /\ left \in SUBSET SUBSET Cols /\ chosen \in SUBSET Cols
    /\ terms \in SUBSET Term /\ seps \in SUBSET Separator

(* Each separator holds on every good sample and on no bad one, on the     *)
(* samples as they were given, with all their columns.                     *)
Separates ==
    \A s \in seps :
        /\ \A p \in pos : p \cap s.on \in s.holds
        /\ \A n \in neg : n \cap s.on \notin s.holds

(* Its answer is complete: a separator for every smallest set of columns   *)
(* that separates, and none other.                                         *)
Smallest(X) ==
    Separating(X) /\ \A Y \in SUBSET Cols : Separating(Y) => Cardinality(X) <= Cardinality(Y)
EverySmallest ==
    pc = "done" => {s.on : s \in seps} = {X \in SUBSET Cols : Smallest(X)}

(* Nothing is learned only when a good and a bad sample look alike:        *)
(* removing the common columns loses no distinction, and the search for k  *)
(* does not run past it.                                                   *)
OnlyTwinsDefeat == pc = "done" => (seps = {} <=> pos \cap neg # {})

(* The assertions of to_dnf_expression: some column tells the row from the *)
(* bad samples left, and no term is empty (an empty one would hold on      *)
(* every sample).                                                          *)
AssertionsHold ==
    /\ pc = "cover" /\ left # {} => \E i \in cur : Excluded(i) # {}
    /\ pc = "cover" /\ left = {} => chosen # {}

(* Each search ends: for k, for more solutions, for a cover.               *)
Ends == <>(pc = "done")
=============================================================================
