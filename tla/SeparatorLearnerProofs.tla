----------------------- MODULE SeparatorLearnerProofs -----------------------
(***************************************************************************)
(* Proofs about the separator learner, for every number of columns, every  *)
(* set of samples and every order in which rows are taken.  That a cover   *)
(* loop picks the best column plays no part: any column that excludes a    *)
(* bad sample keeps the invariant.  The second half proves that the answer is *)
(* complete: there the number of columns counts, and the order does not.   *)
(***************************************************************************)
EXTENDS SeparatorLearner, FiniteSetTheorems, TLAPS

Interpreting == pc \in {"row", "cover"}

Tells(X) == \A p \in pos, n \in neg : Diff(p, n) \cap X # {}

(* Solutions tell good from bad, and so does the one being interpreted.    *)
SolutionsTell ==
    /\ \A X \in sols : Tells(X)
    /\ Interpreting => Tells(cur)

(* A good sample waits for its term, is being given it, or has it.         *)
GoodHaveTerms ==
    Interpreting =>
        \A p \in pos :
            \/ p \cap cur \in rows
            \/ pc = "cover" /\ p \cap cur = row
            \/ \E t \in terms : Matches(t, p \cap cur)

(* No bad sample matches a finished term.                                  *)
BadMatchNone ==
    Interpreting => \A n \in neg : \A t \in terms : ~Matches(t, n \cap cur)

(* Rows are good samples seen through the columns of the solution.         *)
RowsAreGood ==
    /\ Interpreting => \A r \in rows : \E p \in pos : r = p \cap cur
    /\ pc = "cover" => \E p \in pos : row = p \cap cur

(* Each bad sample is left, or a chosen column tells it from the row.      *)
CoverTells ==
    pc = "cover" =>
        /\ \A x \in left : \E n \in neg : x = n \cap cur
        /\ \A n \in neg :
            \/ n \cap cur \in left
            \/ \E i \in chosen : i \in Diff(n \cap cur, row)

SamplesGiven == pos # {} /\ neg # {}

(* Nothing waits for interpretation while solutions are looked for.        *)
NothingTodo == pc \in {"start", "search", "count", "all"} => todo = {}

LearnerInv ==
    /\ TypeOK /\ SamplesGiven /\ SolutionsTell /\ GoodHaveTerms
    /\ BadMatchNone /\ RowsAreGood /\ CoverTells /\ Separates /\ NothingTodo

-----------------------------------------------------------------------------
(* The inductive invariant holds when a call begins.                       *)
LEMMA InvInit == Init => LearnerInv
<1> SUFFICES ASSUME Init PROVE LearnerInv
  OBVIOUS
<1>1. pos \in Samples /\ neg \in Samples /\ enforced \in Enforceable
  BY DEF Init
<1>2. /\ pos \in SUBSET SUBSET Cols /\ pos # {} /\ neg \in SUBSET SUBSET Cols
      /\ neg # {} /\ enforced \in SUBSET Cols
  BY <1>1, LearnerAssumption
<1>3. TypeOK
  BY <1>2 DEF Init, TypeOK
<1>4. SolutionsTell /\ Separates /\ SamplesGiven /\ NothingTodo
  BY <1>2 DEF Init, SolutionsTell, Separates, SamplesGiven, NothingTodo, Interpreting
<1>5. GoodHaveTerms /\ BadMatchNone /\ RowsAreGood /\ CoverTells
  BY DEF Init, GoodHaveTerms, BadMatchNone, RowsAreGood, CoverTells, Interpreting
<1> QED BY <1>3, <1>4, <1>5 DEF LearnerInv

(* The search for solutions: everything it adds is separating.             *)
LEMMA InvSearch ==
  ASSUME LearnerInv, DropCommons \/ FirstModel \/ MoreColumns \/ Fewest
                     \/ OneMore \/ NoMore \/ Interpreted
  PROVE  LearnerInv'
<1>1. TypeOK /\ SamplesGiven /\ SolutionsTell /\ Separates /\ NothingTodo
  BY DEF LearnerInv
<1>2. UNCHANGED <<pos, neg, enforced, cur, rows, row, left, chosen, terms, seps>>
  BY DEF DropCommons, FirstModel, MoreColumns, Fewest, OneMore, NoMore,
     Interpreted, given, search, cover
<1>3. pc' \notin {"row", "cover"}
  BY DEF DropCommons, FirstModel, MoreColumns, Fewest, OneMore, NoMore,
     Interpreted, TypeOK
<1>4. \A X \in sols' : Tells(X)
  BY <1>1 DEF DropCommons, FirstModel, MoreColumns, Fewest, OneMore, NoMore,
     Interpreted, given, search, SolutionsTell, Another, Sized, Separating, Tells
<1>5. TypeOK'
  <2>1. cols' \in SUBSET Cols /\ k' \in Nat
    BY <1>1 DEF DropCommons, FirstModel, MoreColumns, Fewest, OneMore, NoMore,
       Interpreted, given, search, TypeOK
  <2>2. pc' \in {"start", "search", "count", "all", "solution", "row", "cover", "done"}
    BY <1>1 DEF DropCommons, FirstModel, MoreColumns, Fewest, OneMore, NoMore,
       Interpreted, TypeOK
  <2>3. sols' \in SUBSET SUBSET Cols /\ todo' \in SUBSET sols'
    BY <1>1 DEF DropCommons, FirstModel, MoreColumns, Fewest, OneMore, NoMore,
       Interpreted, given, search, TypeOK, NothingTodo
  <2> QED BY <1>1, <1>2, <2>1, <2>2, <2>3 DEF TypeOK
<1>6. (SolutionsTell /\ SamplesGiven)'
  BY <1>1, <1>2, <1>3, <1>4 DEF SolutionsTell, SamplesGiven, Interpreting, Tells
<1>7. (GoodHaveTerms /\ BadMatchNone /\ RowsAreGood /\ CoverTells)'
  BY <1>3 DEF GoodHaveTerms, BadMatchNone, RowsAreGood, CoverTells, Interpreting
<1>8. Separates'
  BY <1>1, <1>2 DEF Separates
<1>9. NothingTodo'
  BY <1>1 DEF DropCommons, FirstModel, MoreColumns, Fewest, OneMore, NoMore,
     Interpreted, NothingTodo
<1> QED BY <1>5, <1>6, <1>7, <1>8, <1>9 DEF LearnerInv

(* A solution is taken up: every good sample becomes a row.                *)
LEMMA InvNextSolution ==
  ASSUME LearnerInv, NextSolution
  PROVE  LearnerInv'
<1>1. TypeOK /\ SamplesGiven /\ SolutionsTell /\ Separates
  BY DEF LearnerInv
<1>2. /\ pc' = "row" /\ terms' = {}
      /\ UNCHANGED <<pos, neg, enforced, cols, k, sols, row, left, chosen, seps>>
  BY DEF NextSolution, given, search
<1>3. PICK X \in todo : /\ cur' = X /\ todo' = todo \ {X}
                        /\ rows' = {p \cap X : p \in pos}
  BY DEF NextSolution
<1>4. X \in sols /\ X \in SUBSET Cols
  BY <1>1, <1>3 DEF TypeOK
<1>5. TypeOK'
  BY <1>1, <1>2, <1>3, <1>4 DEF TypeOK
<1>6. (SamplesGiven /\ SolutionsTell)'
  BY <1>1, <1>2, <1>3, <1>4 DEF SolutionsTell, SamplesGiven, Tells, Interpreting
<1>7. (GoodHaveTerms /\ BadMatchNone /\ RowsAreGood /\ CoverTells)'
  BY <1>2, <1>3 DEF GoodHaveTerms, BadMatchNone, RowsAreGood, CoverTells, Interpreting
<1>8. Separates'
  BY <1>1, <1>2 DEF Separates
<1>10. NothingTodo'
  BY <1>2 DEF NothingTodo
<1> QED BY <1>5, <1>6, <1>7, <1>8, <1>10 DEF LearnerInv

(* A row is begun: every bad sample is left.                               *)
LEMMA InvNextRow ==
  ASSUME LearnerInv, NextRow
  PROVE  LearnerInv'
<1>1. /\ TypeOK /\ SamplesGiven /\ SolutionsTell /\ Separates
      /\ GoodHaveTerms /\ BadMatchNone /\ RowsAreGood
  BY DEF LearnerInv
<1>2. /\ pc = "row" /\ pc' = "cover"
      /\ left' = {n \cap cur : n \in neg} /\ chosen' = {}
      /\ UNCHANGED <<pos, neg, enforced, cols, k, sols, todo, cur, terms, seps>>
  BY DEF NextRow, given, search
<1>3. PICK r \in rows : row' = r /\ rows' = rows \ {r}
  BY DEF NextRow
<1>4. TypeOK'
  <2>1. row' \in SUBSET Cols /\ rows' \in SUBSET SUBSET cur
    BY <1>1, <1>3 DEF TypeOK
  <2>2. left' \in SUBSET SUBSET Cols
    BY <1>1, <1>2 DEF TypeOK
  <2> QED BY <1>1, <1>2, <2>1, <2>2 DEF TypeOK
<1>5. (SamplesGiven /\ SolutionsTell)'
  BY <1>1, <1>2 DEF SolutionsTell, SamplesGiven, Tells, Interpreting
<1>6. GoodHaveTerms'
  BY <1>1, <1>2, <1>3 DEF GoodHaveTerms, Interpreting, Matches
<1>7. BadMatchNone'
  BY <1>1, <1>2 DEF BadMatchNone, Interpreting, Matches
<1>8. RowsAreGood'
  BY <1>1, <1>2, <1>3 DEF RowsAreGood, Interpreting
<1>9. (CoverTells /\ Separates)'
  BY <1>1, <1>2 DEF CoverTells, Separates
<1>10. NothingTodo'
  BY <1>2 DEF NothingTodo
<1> QED BY <1>4, <1>5, <1>6, <1>7, <1>8, <1>9, <1>10 DEF LearnerInv

(* A column is chosen: what it excludes it tells from the row.             *)
LEMMA InvCover ==
  ASSUME LearnerInv, Cover
  PROVE  LearnerInv'
<1>1. /\ TypeOK /\ SamplesGiven /\ SolutionsTell /\ Separates
      /\ GoodHaveTerms /\ BadMatchNone /\ RowsAreGood /\ CoverTells
  BY DEF LearnerInv
<1>2. /\ pc = "cover"
      /\ UNCHANGED <<pc, pos, neg, enforced, cols, k, sols, todo, cur, rows, row,
                     terms, seps>>
  BY DEF Cover, given, search
<1>3. PICK i \in cur : chosen' = chosen \cup {i} /\ left' = left \ Excluded(i)
  BY DEF Cover
<1>4. TypeOK'
  BY <1>1, <1>2, <1>3 DEF TypeOK
<1>5. (SamplesGiven /\ SolutionsTell)'
  BY <1>1, <1>2 DEF SolutionsTell, SamplesGiven, Tells, Interpreting
<1>6. (GoodHaveTerms /\ BadMatchNone /\ RowsAreGood /\ Separates)'
  BY <1>1, <1>2 DEF GoodHaveTerms, BadMatchNone, RowsAreGood, Separates,
     Interpreting, Matches
<1>7. CoverTells'
  BY <1>1, <1>2, <1>3 DEF CoverTells, Excluded
<1>10. NothingTodo'
  BY <1>2 DEF NothingTodo
<1> QED BY <1>4, <1>5, <1>6, <1>7, <1>10 DEF LearnerInv

(* What a finished term accepts and rejects.                               *)
LEMMA TermProps ==
  ASSUME NEW C, NEW r, NEW t, t = [yes |-> C \cap r, no |-> C \ r]
  PROVE  /\ Matches(t, r)
         /\ \A v : (\E i \in C : i \in Diff(v, r)) => ~Matches(t, v)
  BY DEF Matches, Diff

(* A term is finished: it holds on its row and on no bad sample.           *)
LEMMA InvCloseRow ==
  ASSUME LearnerInv, CloseRow
  PROVE  LearnerInv'
<1>1. /\ TypeOK /\ SamplesGiven /\ SolutionsTell /\ Separates
      /\ GoodHaveTerms /\ BadMatchNone /\ RowsAreGood /\ CoverTells
  BY DEF LearnerInv
<1> DEFINE new == [yes |-> chosen \cap row, no |-> chosen \ row]
<1>2. /\ pc = "cover" /\ left = {} /\ pc' = "row" /\ terms' = terms \cup {new}
      /\ UNCHANGED <<pos, neg, enforced, cols, k, sols, todo, cur, rows, row, left,
                     chosen, seps>>
  BY DEF CloseRow, given, search
<1>3. /\ Matches(new, row)
      /\ \A n \in neg : ~Matches(new, n \cap cur)
  BY <1>1, <1>2, TermProps DEF CoverTells
<1>4. TypeOK'
  <2>1. new \in Term
    BY <1>1 DEF TypeOK, Term
  <2> HIDE DEF new
  <2> QED BY <1>1, <1>2, <2>1 DEF TypeOK
<1> HIDE DEF new
<1>5. (SamplesGiven /\ SolutionsTell)'
  BY <1>1, <1>2 DEF SolutionsTell, SamplesGiven, Tells, Interpreting
<1>6. GoodHaveTerms'
  <2> SUFFICES ASSUME NEW p \in pos
               PROVE  \/ p \cap cur \in rows
                      \/ \E t \in terms \cup {new} : Matches(t, p \cap cur)
    BY <1>2 DEF GoodHaveTerms
  <2> QED BY <1>1, <1>2, <1>3 DEF GoodHaveTerms, Interpreting
<1>7. BadMatchNone'
  <2> SUFFICES ASSUME NEW n \in neg, NEW t \in terms \cup {new}
               PROVE  ~Matches(t, n \cap cur)
    BY <1>2 DEF BadMatchNone
  <2> QED BY <1>1, <1>2, <1>3 DEF BadMatchNone, Interpreting
<1>8. (RowsAreGood /\ CoverTells /\ Separates)'
  BY <1>1, <1>2 DEF RowsAreGood, CoverTells, Separates, Interpreting
<1>10. NothingTodo'
  BY <1>2 DEF NothingTodo
<1> QED BY <1>4, <1>5, <1>6, <1>7, <1>8, <1>10 DEF LearnerInv

(* A separator is finished: every row has its term.                        *)
LEMMA InvCloseSolution ==
  ASSUME LearnerInv, CloseSolution
  PROVE  LearnerInv'
<1>1. /\ TypeOK /\ SamplesGiven /\ SolutionsTell /\ Separates
      /\ GoodHaveTerms /\ BadMatchNone
  BY DEF LearnerInv
<1> DEFINE new == [on |-> cur,
                   holds |-> {v \in SUBSET cur : \E t \in terms : Matches(t, v)}]
<1>2. /\ pc = "row" /\ rows = {} /\ pc' = "solution" /\ seps' = seps \cup {new}
      /\ UNCHANGED <<pos, neg, enforced, cols, k, sols, todo, cur, rows, row, left,
                     chosen, terms>>
  BY DEF CloseSolution, given, search, cover
<1>3. \A p \in pos : p \cap new.on \in new.holds
  BY <1>1, <1>2 DEF GoodHaveTerms, Interpreting
<1>4. \A n \in neg : n \cap new.on \notin new.holds
  BY <1>1, <1>2 DEF BadMatchNone, Interpreting
<1>5. new \in Separator
  BY <1>1 DEF TypeOK, Separator
<1> HIDE DEF new
<1>6. TypeOK'
  BY <1>1, <1>2, <1>5 DEF TypeOK
<1>7. (SamplesGiven /\ SolutionsTell)'
  BY <1>1, <1>2 DEF SolutionsTell, SamplesGiven, Tells, Interpreting
<1>8. (GoodHaveTerms /\ BadMatchNone /\ RowsAreGood /\ CoverTells)'
  BY <1>2 DEF GoodHaveTerms, BadMatchNone, RowsAreGood, CoverTells, Interpreting
<1>9. Separates'
  BY <1>1, <1>2, <1>3, <1>4 DEF Separates
<1>10. NothingTodo'
  BY <1>2 DEF NothingTodo
<1> QED BY <1>6, <1>7, <1>8, <1>9, <1>10 DEF LearnerInv

(* Every step keeps the inductive invariant.                               *)
LEMMA InvNext == LearnerInv /\ [Next]_vars => LearnerInv'
<1> SUFFICES ASSUME LearnerInv, [Next]_vars PROVE LearnerInv'
  OBVIOUS
<1>1. CASE DropCommons \/ FirstModel \/ MoreColumns \/ Fewest \/ OneMore \/ NoMore
           \/ Interpreted
  BY <1>1, InvSearch
<1>2. CASE NextSolution
  BY <1>2, InvNextSolution
<1>3. CASE NextRow
  BY <1>3, InvNextRow
<1>4. CASE Cover
  BY <1>4, InvCover
<1>5. CASE CloseRow
  BY <1>5, InvCloseRow
<1>6. CASE CloseSolution
  BY <1>6, InvCloseSolution
<1>7. CASE UNCHANGED vars
  <2>1. UNCHANGED <<pc, pos, neg, enforced, cols, k, sols, todo, cur, rows, row,
                    left, chosen, terms, seps>>
    BY <1>7 DEF vars
  <2>2. TypeOK'
    BY <2>1 DEF LearnerInv, TypeOK
  <2>3. (SamplesGiven /\ SolutionsTell /\ NothingTodo)'
    BY <2>1 DEF LearnerInv, SamplesGiven, SolutionsTell, NothingTodo, Interpreting,
       Tells
  <2>4. (GoodHaveTerms /\ BadMatchNone /\ RowsAreGood)'
    BY <2>1 DEF LearnerInv, GoodHaveTerms, BadMatchNone, RowsAreGood, Interpreting,
       Matches
  <2>5. (CoverTells /\ Separates)'
    BY <2>1 DEF LearnerInv, CoverTells, Separates
  <2> QED BY <2>2, <2>3, <2>4, <2>5 DEF LearnerInv
<1> QED BY <1>1, <1>2, <1>3, <1>4, <1>5, <1>6, <1>7 DEF Next, Done

(* The invariant the other theorems rest on.                               *)
THEOREM Invariance == Spec => []LearnerInv
  BY InvInit, InvNext, PTL DEF Spec

(* Every variable keeps its type.                                          *)
THEOREM TypeCorrect == Spec => []TypeOK
<1>1. LearnerInv => TypeOK
  BY DEF LearnerInv
<1> QED BY <1>1, Invariance, PTL

(* Whatever samples cbs_learn is given, each separator it returns holds on *)
(* every good one and on no bad one.                                       *)
THEOREM SeparatorsSeparate == Spec => []Separates
<1>1. LearnerInv => Separates
  BY DEF LearnerInv
<1> QED BY <1>1, Invariance, PTL

(* The assertions of to_dnf_expression never fail.                         *)
THEOREM AssertionsNeverFail == Spec => []AssertionsHold
<1>1. LearnerInv => AssertionsHold
  <2> SUFFICES ASSUME LearnerInv, pc = "cover"
               PROVE  /\ left # {} => \E i \in cur : Excluded(i) # {}
                      /\ left = {} => chosen # {}
    BY DEF AssertionsHold
  <2>1. TypeOK /\ SamplesGiven /\ Tells(cur) /\ RowsAreGood /\ CoverTells
    BY DEF LearnerInv, SolutionsTell, Interpreting
  <2>2. PICK p \in pos : row = p \cap cur
    BY <2>1 DEF RowsAreGood
  <2>3. ASSUME NEW x \in left PROVE \E i \in cur : Excluded(i) # {}
    <3>1. PICK n \in neg : x = n \cap cur
      BY <2>1, <2>3 DEF CoverTells
    <3>2. PICK i \in Diff(p, n) \cap cur : TRUE
      BY <2>1 DEF Tells
    <3>3. i \in cur /\ i \in Diff(x, row)
      BY <2>2, <3>1, <3>2 DEF Diff
    <3> QED BY <2>3, <3>3 DEF Excluded
  <2>4. ASSUME left = {} PROVE chosen # {}
    BY <2>1, <2>4 DEF CoverTells, SamplesGiven
  <2> QED BY <2>3, <2>4
<1> QED BY <1>1, Invariance, PTL
-----------------------------------------------------------------------------
(* The answer is complete.                                                 *)

Solved == pc \in {"solution", "row", "cover", "done"}
Solvable == \E X \in SUBSET cols : Separating(X)

(* The search goes on with the columns that differ, and has found nothing. *)
NothingYet ==
    /\ pc # "start" => cols = Cols \ Commons
    /\ pc \in {"start", "search", "count"} => sols = {}
    /\ ~Solved => seps = {}

(* Fewer than k columns separate nothing, and some number does.            *)
NoneSmaller ==
    pc \in {"count", "all"} =>
        Solvable /\ \A X \in SUBSET cols : Separating(X) => k <= Cardinality(X)

AllOfSize == pc = "all" => sols # {} /\ \A X \in sols : Sized(X)

(* All the smallest solutions are known, each waits to be interpreted, is  *)
(* being interpreted, or has its separator.                                *)
AllKnown ==
    Solved =>
        /\ sols = {X \in SUBSET Cols : Smallest(X)}
        /\ sols = {} => ~Solvable
Accounted ==
    Solved =>
        /\ sols = todo \cup {s.on : s \in seps} \cup (IF Interpreting THEN {cur} ELSE {})
        /\ pc = "done" => todo = {}

CompleteInv == NothingYet /\ NoneSmaller /\ AllOfSize /\ AllKnown /\ Accounted

(* A set of columns is finite.                                             *)
LEMMA ColumnsFinite ==
  ASSUME NEW X \in SUBSET Cols
  PROVE  IsFiniteSet(X) /\ Cardinality(X) \in Nat
<1>1. IsFiniteSet(Cols)
  BY LearnerAssumption, FS_Interval DEF Cols
<1>2. IsFiniteSet(X)
  BY <1>1, FS_Subset
<1> QED BY <1>2, FS_CardinalityType

(* What separates is a set of columns that differ.                         *)
LEMMA SeparatingType ==
  ASSUME TypeOK, NEW X, Separating(X)
  PROVE  X \in SUBSET cols /\ X \in SUBSET Cols
  BY DEF TypeOK, Separating

(* Removing the columns with one value on all samples loses no             *)
(* distinction: some columns separate unless a good and a bad sample are   *)
(* the same.                                                               *)
LEMMA SolvableIffNoTwins ==
  ASSUME TypeOK, cols = Cols \ Commons
  PROVE  Solvable <=> pos \cap neg = {}
<1>1. ASSUME pos \cap neg = {} PROVE Separating(cols)
  <2>1. ASSUME NEW p \in pos, NEW n \in neg PROVE Diff(p, n) \cap cols # {}
    <3>1. p # n
      BY <1>1
    <3>2. p \in SUBSET Cols /\ n \in SUBSET Cols
      BY DEF TypeOK
    <3>3. PICK i : i \in Diff(p, n)
      BY <3>1, <3>2 DEF Diff
    <3>4. i \in Cols /\ i \notin Commons
      BY <3>2, <3>3 DEF Diff, Commons
    <3> QED BY <3>3, <3>4
  <2> QED BY <2>1 DEF Separating
<1>2. ASSUME NEW X \in SUBSET cols, Separating(X), NEW p \in pos \cap neg
      PROVE  FALSE
  <2>1. Diff(p, p) \cap X # {}
    BY <1>2 DEF Separating
  <2> QED BY <2>1 DEF Diff
<1> QED BY <1>1, <1>2 DEF Solvable

(* The samples and the columns stay, and so does what separates.           *)
LEMMA SameColumns ==
  ASSUME UNCHANGED <<pos, neg, enforced, cols>>
  PROVE  /\ Solvable' = Solvable
         /\ \A X : Separating(X)' = Separating(X)
         /\ Commons' = Commons
<1>1. \A X : Separating(X)' = Separating(X)
  BY DEF Separating
<1> QED BY <1>1 DEF Solvable, Commons

LEMMA SameSmallest ==
  ASSUME UNCHANGED <<pos, neg, enforced, cols>>
  PROVE  {X \in SUBSET Cols : Smallest(X)}' = {X \in SUBSET Cols : Smallest(X)}
<1>1. \A X : Separating(X)' = Separating(X)
  BY SameColumns
<1>2. \A X : Smallest(X)' = Smallest(X)
  BY <1>1 DEF Smallest
<1> QED BY <1>2

(* A search without a solution left has found the smallest ones.           *)
LEMMA AllFound ==
  ASSUME TypeOK, sols # {}, \A X \in sols : Sized(X), Solvable,
         \A X \in SUBSET cols : Separating(X) => k <= Cardinality(X),
         ~\E X \in SUBSET cols : Another(X)
  PROVE  sols = {X \in SUBSET Cols : Smallest(X)}
<1>1. ASSUME NEW X \in SUBSET Cols, Sized(X) PROVE X \in sols
  <2>1. X \in SUBSET cols
    BY <1>1, SeparatingType DEF Sized
  <2>2. ~Another(X)
    BY <2>1
  <2>3. PICK s \in sols : s \subseteq X
    BY <1>1, <2>2 DEF Another
  <2>4. Cardinality(s) = k /\ Cardinality(X) = k
    BY <1>1, <2>3 DEF Sized
  <2>5. IsFiniteSet(X)
    BY ColumnsFinite
  <2>6. s = X
    BY <2>3, <2>4, <2>5, FS_Subset
  <2> QED BY <2>3, <2>6
<1>2. \A X \in sols : Sized(X) /\ X \in SUBSET Cols
  BY DEF TypeOK
<1>3. ASSUME NEW X \in SUBSET Cols PROVE Sized(X) <=> Smallest(X)
  <2>1. ASSUME Sized(X) PROVE Smallest(X)
    <3>1. \A Y \in SUBSET Cols : Separating(Y) => k <= Cardinality(Y)
      BY SeparatingType
    <3> QED BY <2>1, <3>1 DEF Sized, Smallest
  <2>2. ASSUME Smallest(X) PROVE Sized(X)
    <3>1. PICK Y \in sols : Sized(Y) /\ Y \in SUBSET Cols
      BY <1>2
    <3>2. Separating(Y) /\ Cardinality(Y) = k
      BY <3>1 DEF Sized
    <3>3. Separating(X) /\ Cardinality(X) <= k
      BY <2>2, <3>1, <3>2 DEF Smallest
    <3>4. k <= Cardinality(X)
      BY <3>3, SeparatingType
    <3>5. Cardinality(X) \in Nat /\ k \in Nat
      BY ColumnsFinite DEF TypeOK
    <3> QED BY <3>3, <3>4, <3>5 DEF Sized
  <2> QED BY <2>1, <2>2
<1> QED BY <1>1, <1>2, <1>3

LEMMA CompleteInit == Init => CompleteInv
  BY DEF Init, CompleteInv, NothingYet, NoneSmaller, AllOfSize, AllKnown,
     Accounted, Solved

(* The columns with one value are removed.                                 *)
LEMMA CompleteDropCommons ==
  ASSUME LearnerInv, CompleteInv, DropCommons
  PROVE  CompleteInv'
<1>1. /\ pc = "start" /\ pc' = "search" /\ cols' = Cols \ Commons
      /\ UNCHANGED <<pos, neg, enforced, sols, seps>>
  BY DEF DropCommons, given
<1>2. Commons' = Commons
  BY <1>1 DEF Commons
<1> QED BY <1>1, <1>2 DEF CompleteInv, NothingYet, NoneSmaller, AllOfSize,
        AllKnown, Accounted, Solved

(* The first query: one column at least is needed, or there is no answer.  *)
LEMMA CompleteFirstModel ==
  ASSUME LearnerInv, CompleteInv, FirstModel
  PROVE  CompleteInv'
<1>1. /\ pc = "search"
      /\ UNCHANGED <<pos, neg, enforced, cols, sols, todo, cur, seps>>
  BY DEF FirstModel, given, cover
<1>2. /\ TypeOK /\ SamplesGiven /\ NothingTodo /\ NothingYet
  BY DEF LearnerInv, CompleteInv
<1>3. NothingYet'
  <2>1. pc' # "start"
    BY DEF FirstModel
  <2> QED BY <1>1, <1>2, SameColumns DEF NothingYet, Solved
<1>4. CASE Solvable
  <2>1. pc' = "count" /\ k' = 1
    BY <1>4 DEF FirstModel, Solvable
  <2>2. ASSUME NEW X \in SUBSET cols, Separating(X) PROVE 1 <= Cardinality(X)
    <3>1. PICK p \in pos, n \in neg : TRUE
      BY <1>2 DEF SamplesGiven
    <3>2. X # {}
      BY <2>2, <3>1 DEF Separating
    <3>3. X \in SUBSET Cols
      BY <1>2, <2>2, SeparatingType
    <3>4. IsFiniteSet(X) /\ Cardinality(X) \in Nat
      BY <3>3, ColumnsFinite
    <3>5. Cardinality(X) # 0
      BY <3>2, <3>4, FS_EmptySet
    <3> QED BY <3>4, <3>5
  <2>3. NoneSmaller'
    BY <1>1, <1>4, <2>1, <2>2, SameColumns DEF NoneSmaller
  <2> QED BY <1>3, <2>1, <2>3 DEF CompleteInv, AllOfSize, AllKnown, Accounted, Solved
<1>5. CASE ~Solvable
  <2>1. pc' = "done"
    BY <1>5 DEF FirstModel, Solvable
  <2>2. sols = {} /\ todo = {} /\ seps = {}
    BY <1>1, <1>2 DEF NothingYet, NothingTodo, Solved
  <2>3. {X \in SUBSET Cols : Smallest(X)} = {}
    BY <1>2, <1>5, SeparatingType DEF Smallest, Solvable
  <2>4. AllKnown'
    BY <1>1, <1>5, <2>2, <2>3, SameSmallest, SameColumns DEF AllKnown
  <2>5. Accounted'
    BY <1>1, <2>1, <2>2 DEF Accounted, Interpreting
  <2> QED BY <1>3, <2>1, <2>4, <2>5 DEF CompleteInv, NoneSmaller, AllOfSize
<1> QED BY <1>4, <1>5

(* No solution has k columns: each has more.                               *)
LEMMA CompleteMoreColumns ==
  ASSUME LearnerInv, CompleteInv, MoreColumns
  PROVE  CompleteInv'
<1>1. /\ pc = "count" /\ pc' = "count" /\ k' = k + 1
      /\ UNCHANGED <<pos, neg, enforced, cols, sols, seps>>
      /\ ~\E X \in SUBSET cols : Sized(X)
  BY DEF MoreColumns, given
<1>2. TypeOK /\ NothingYet /\ NoneSmaller
  BY DEF LearnerInv, CompleteInv
<1>3. ASSUME NEW X \in SUBSET cols, Separating(X) PROVE k + 1 <= Cardinality(X)
  <2>1. k <= Cardinality(X) /\ Cardinality(X) # k
    BY <1>1, <1>2, <1>3 DEF NoneSmaller, Sized
  <2>2. Cardinality(X) \in Nat /\ k \in Nat
    BY <1>2, <1>3, SeparatingType, ColumnsFinite DEF TypeOK
  <2> QED BY <2>1, <2>2
<1>4. NoneSmaller'
  BY <1>1, <1>2, <1>3, SameColumns DEF NoneSmaller
<1>5. NothingYet'
  BY <1>1, <1>2, SameColumns DEF NothingYet, Solved
<1> QED BY <1>1, <1>4, <1>5 DEF CompleteInv, AllOfSize, AllKnown, Accounted, Solved

(* Solutions of k columns are collected.                                   *)
LEMMA CompleteCollect ==
  ASSUME LearnerInv, CompleteInv, Fewest \/ OneMore
  PROVE  CompleteInv'
<1>1. /\ pc \in {"count", "all"} /\ pc' = "all"
      /\ UNCHANGED <<pos, neg, enforced, cols, k, seps>>
  BY DEF Fewest, OneMore, given
<1>2. NothingYet /\ NoneSmaller /\ AllOfSize
  BY DEF CompleteInv
<1>3. sols' # {} /\ \A X \in sols' : Sized(X)
  BY <1>2 DEF Fewest, OneMore, Another, AllOfSize
<1>4. \A X : Sized(X)' = Sized(X)
  BY <1>1, SameColumns DEF Sized
<1>5. AllOfSize'
  BY <1>3, <1>4 DEF AllOfSize
<1>6. NoneSmaller'
  BY <1>1, <1>2, SameColumns DEF NoneSmaller
<1>7. NothingYet'
  BY <1>1, <1>2, SameColumns DEF NothingYet, Solved
<1> QED BY <1>1, <1>5, <1>6, <1>7 DEF CompleteInv, AllKnown, Accounted, Solved

(* There is no other solution of that size.                                *)
LEMMA CompleteNoMore ==
  ASSUME LearnerInv, CompleteInv, NoMore
  PROVE  CompleteInv'
<1>1. /\ pc = "all" /\ pc' = "solution" /\ todo' = sols
      /\ UNCHANGED <<pos, neg, enforced, cols, k, sols, seps>>
      /\ ~\E X \in SUBSET cols : Another(X)
  BY DEF NoMore, given, search
<1>2. TypeOK /\ NothingYet /\ NoneSmaller /\ AllOfSize
  BY DEF LearnerInv, CompleteInv
<1>3. sols = {X \in SUBSET Cols : Smallest(X)} /\ sols # {}
  BY <1>1, <1>2, AllFound DEF NoneSmaller, AllOfSize
<1>4. AllKnown'
  BY <1>1, <1>3, SameSmallest DEF AllKnown
<1>5. seps = {}
  BY <1>1, <1>2 DEF NothingYet, Solved
<1>6. Accounted'
  BY <1>1, <1>5 DEF Accounted, Interpreting
<1>7. NothingYet'
  BY <1>1, <1>2, SameColumns DEF NothingYet, Solved
<1> QED BY <1>1, <1>4, <1>6, <1>7 DEF CompleteInv, NoneSmaller, AllOfSize

(* Solutions are interpreted: none is lost and none is made up.            *)
LEMMA CompleteInterpret ==
  ASSUME CompleteInv, NextSolution \/ Interpreted \/ NextRow \/ Cover
                      \/ CloseRow \/ CloseSolution
  PROVE  CompleteInv'
<1>1. /\ Solved /\ Solved'
      /\ pc' \notin {"start", "search", "count", "all"}
      /\ UNCHANGED <<pos, neg, enforced, cols, k, sols>>
  BY DEF NextSolution, Interpreted, NextRow, Cover, CloseRow, CloseSolution,
     Solved, given, search
<1>2. NothingYet /\ AllKnown /\ Accounted
  BY DEF CompleteInv
<1>3. NothingYet'
  BY <1>1, <1>2, SameColumns DEF NothingYet, Solved
<1>4. AllKnown'
  BY <1>1, <1>2, SameColumns, SameSmallest DEF AllKnown
<1>5. Accounted'
  <2>1. CASE NextSolution
    <3>1. PICK X \in todo : cur' = X /\ todo' = todo \ {X}
      BY <2>1 DEF NextSolution
    <3>2. pc = "solution" /\ pc' = "row" /\ seps' = seps
      BY <2>1 DEF NextSolution
    <3>3. sols = todo \cup {s.on : s \in seps}
      BY <1>1, <1>2, <3>2 DEF Accounted, Interpreting
    <3>4. todo = (todo \ {X}) \cup {X}
      BY <3>1
    <3>5. sols' = todo' \cup {s.on : s \in seps'} \cup {cur'}
      BY <1>1, <3>1, <3>2, <3>3, <3>4
    <3> QED BY <3>2, <3>5 DEF Accounted, Interpreting
  <2>2. CASE Interpreted
    BY <1>1, <1>2, <2>2 DEF Interpreted, cover, Accounted, Interpreting
  <2>3. CASE NextRow \/ Cover \/ CloseRow
    <3>1. Interpreting /\ Interpreting' /\ pc' # "done" /\ UNCHANGED <<todo, cur, seps>>
      BY <2>3 DEF NextRow, Cover, CloseRow, Interpreting
    <3> QED BY <1>1, <1>2, <3>1 DEF Accounted
  <2>4. CASE CloseSolution
    <3> DEFINE new == [on |-> cur,
                       holds |-> {v \in SUBSET cur : \E t \in terms : Matches(t, v)}]
    <3>1. /\ pc = "row" /\ pc' = "solution" /\ seps' = seps \cup {new}
          /\ UNCHANGED todo
      BY <2>4 DEF CloseSolution
    <3>2. new.on = cur
      OBVIOUS
    <3> HIDE DEF new
    <3>3. {s.on : s \in seps'} = {s.on : s \in seps} \cup {cur}
      BY <3>1, <3>2
    <3>4. sols = todo \cup {s.on : s \in seps} \cup {cur}
      BY <1>1, <1>2, <3>1 DEF Accounted, Interpreting
    <3>5. sols' = todo' \cup {s.on : s \in seps'}
      BY <1>1, <3>1, <3>3, <3>4
    <3> QED BY <3>1, <3>5 DEF Accounted, Interpreting
  <2> QED BY <2>1, <2>2, <2>3, <2>4
<1> QED BY <1>1, <1>3, <1>4, <1>5 DEF CompleteInv, NoneSmaller, AllOfSize

LEMMA CompleteNext == LearnerInv /\ CompleteInv /\ [Next]_vars => CompleteInv'
<1> SUFFICES ASSUME LearnerInv, CompleteInv, [Next]_vars PROVE CompleteInv'
  OBVIOUS
<1>1. CASE UNCHANGED vars
  <2>1. UNCHANGED <<pc, pos, neg, enforced, cols, k, sols, todo, cur, seps>>
    BY <1>1 DEF vars
  <2>2. \A X : Sized(X)' = Sized(X)
    BY <2>1, SameColumns DEF Sized
  <2> QED BY <2>1, <2>2, SameColumns, SameSmallest DEF CompleteInv, NothingYet,
          NoneSmaller, AllOfSize, AllKnown, Accounted, Solved, Interpreting
<1> QED BY <1>1, CompleteDropCommons, CompleteFirstModel, CompleteMoreColumns,
        CompleteCollect, CompleteNoMore, CompleteInterpret DEF Next, Done

(* Nothing is lost between the query for solutions and the separators.     *)
THEOREM AnswerComplete == Spec => []CompleteInv
  BY CompleteInit, CompleteNext, Invariance, PTL DEF Spec

(* cbs_learn answers with a separator for every smallest set of columns    *)
(* that tells all good samples from all bad ones, and for no other.        *)
THEOREM AllSmallestFound == Spec => []EverySmallest
<1>1. CompleteInv => EverySmallest
  BY DEF CompleteInv, AllKnown, Accounted, EverySmallest, Solved, Interpreting
<1> QED BY <1>1, AnswerComplete, PTL

(* cbs_learn learns nothing exactly when a good and a bad sample have the  *)
(* same value in every column.                                             *)
THEOREM TwinsAlone == Spec => []OnlyTwinsDefeat
<1>1. LearnerInv /\ CompleteInv => OnlyTwinsDefeat
  <2> SUFFICES ASSUME LearnerInv, CompleteInv, pc = "done"
               PROVE  seps = {} <=> pos \cap neg # {}
    BY DEF OnlyTwinsDefeat
  <2>1. TypeOK /\ cols = Cols \ Commons
    BY DEF LearnerInv, CompleteInv, NothingYet
  <2>2. sols = {s.on : s \in seps} /\ sols = {X \in SUBSET Cols : Smallest(X)}
    BY DEF CompleteInv, AllKnown, Accounted, Solved, Interpreting
  <2>3. sols = {} => ~Solvable
    BY DEF CompleteInv, AllKnown, Solved
  <2>4. sols # {} => Solvable
    BY <2>1, <2>2, SeparatingType DEF Smallest, Solvable
  <2>5. seps = {} <=> sols = {}
    BY <2>2
  <2> QED BY <2>1, <2>3, <2>4, <2>5, SolvableIffNoTwins
<1> QED BY <1>1, Invariance, AnswerComplete, PTL
=============================================================================
