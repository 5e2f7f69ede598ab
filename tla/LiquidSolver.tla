---------------------------- MODULE LiquidSolver ----------------------------
(***************************************************************************)
(* The liquid-type fixpoint solver of liquid/constraint.ml.                *)
(*                                                                         *)
(* A refinement variable k of the solution table s denotes the conjunction *)
(* of the qualifiers s maps it to.  solve starts from too many qualifiers, *)
(* solve_wf drops the ill-formed ones, solve_sub pops constraints from a   *)
(* priority worklist and drops the qualifiers their left-hand side does    *)
(* not imply, unsat_constraints re-checks every constraint of the result.  *)
(* Every later round of the learning loop copies the table the first pass  *)
(* left, adds learned qualifiers and solves again over the same index.     *)
(*                                                                         *)
(* A variable the table does not hold is the type of a local expression:   *)
(* Frame.unfound computes its type on the fly from the constraints it is   *)
(* the right-hand side of (local_types), reading the table that was        *)
(* registered with Frame.register_unfound.                                 *)
(*                                                                         *)
(* Predicates are abstracted to sets of qualifiers; the SMT queries of one *)
(* constraint are the constant operator Entails.                           *)
(***************************************************************************)
EXTENDS Naturals, FiniteSets

CONSTANTS
    Subs,           \* ids of the SubRef constraints
    Wfs,            \* ids of the WFRef constraints
    Quals,          \* the qualifiers that occur
    Unknowns,       \* variables of function parameters and results (unknows)
    DtyVars,        \* other variables make_dtyinv puts into the table
    Locals,         \* every other refinement variable
    NoVar,          \* right-hand side of an assertion (a Qconst)
    Lhs,            \* Lhs[c]: variables of c's environment and left-hand side
    Rhs,            \* Rhs[c]: variable on c's right-hand side, or NoVar
    Bottoms,        \* variables created as F.Bottom on a left-hand side
    Goal,           \* Goal[c]: qualifiers an assertion c asks for
    WfVar,          \* WfVar[i]: the variable of the WFRef i
    WfQuals,        \* WfQuals[i]: qualifiers well formed in i's environment
    InitQuals,      \* the qualifiers given by the user
    DtyQuals,       \* those of them that name a measure (filter_dtyinv)
    Offers,         \* what a round of learning may add to each variable
    Rank, Simple, Origin,   \* the three components of a constraint's rank
    Entails(_, _, _)        \* Entails(c, H, q): with hypotheses H, c proves q

Known == Unknowns \cup DtyVars
Kvars == Known \cup Locals
Solutions == [Known -> SUBSET Quals]
Leq(s, t) == \A k \in Known : s[k] \subseteq t[k]

(* Successors of c: the constraints with c's right-hand variable on their  *)
(* left (the dependency map depm; an assertion has none).                  *)
Deps(c) == {d \in Subs : Rhs[c] # NoVar /\ Rhs[c] \in Lhs[d]}

(* Broken: the heap hands out its least element. *)
BadLowerRank(i, j) ==
    \/ Rank[i] > Rank[j]
    \/ Rank[i] = Rank[j] /\ Origin[j] < Origin[i]

(* compare of the heap WH: the order of <<SCC number, simple?, origin>>,   *)
(* the origin reversed.                                                    *)
LowerRank(i, j) ==
    \/ Rank[i] < Rank[j]
    \/ Rank[i] = Rank[j] /\ ~Simple[i] /\ Simple[j]
    \/ Rank[i] = Rank[j] /\ Simple[i] = Simple[j] /\ Origin[j] < Origin[i]

ASSUME SortAssumption ==
    /\ IsFiniteSet(Subs) /\ IsFiniteSet(Wfs) /\ IsFiniteSet(Quals)
    /\ Unknowns \cap DtyVars = {} /\ Known \cap Locals = {}
    /\ NoVar \notin Kvars
    /\ Lhs \in [Subs -> SUBSET Kvars]
    /\ Rhs \in [Subs -> Kvars \cup {NoVar}]
    /\ Bottoms \subseteq Kvars
    /\ Goal \in [Subs -> SUBSET Quals]
    /\ WfVar \in [Wfs -> Kvars]
    /\ WfQuals \in [Wfs -> SUBSET Quals]
    /\ InitQuals \subseteq Quals /\ DtyQuals \subseteq InitQuals
    /\ Offers \subseteq [Unknowns -> SUBSET Quals]
    /\ Rank \in [Subs -> Nat] /\ Simple \in [Subs -> BOOLEAN]
    /\ Origin \in [Subs -> Nat]

(* Common.scc_rank: a dependency never leads to a higher rank.             *)
ASSUME RankAssumption == \A c \in Subs : \A d \in Deps(c) : Rank[d] <= Rank[c]

(* More hypotheses never prove less.                                       *)
ASSUME MonotoneAssumption ==
    \A c \in Subs : \A H1, H2 \in [Lhs[c] -> SUBSET Quals] :
        (\A k \in Lhs[c] : H1[k] \subseteq H2[k]) =>
            \A q \in Quals : Entails(c, H1, q) => Entails(c, H2, q)

(* The recursion of local_types ends: no constraints on locals feed each   *)
(* other in a cycle.  (On such a cycle solve_sub, too, would push for ever *)
(* as refine reports every constraint on a local as changed.)              *)
ASSUME LocalsAcyclic ==
    \A X \in SUBSET {c \in Subs : Rhs[c] \in Locals} :
        X # {} => \E c \in X : Deps(c) \cap X = {}

-----------------------------------------------------------------------------
(* Local types.  Frame.refinement_conjuncts asks the table first and the   *)
(* registered local_types for a variable the table does not hold.          *)

Into(k) == {c \in Subs : Rhs[c] = k}

Hyp(c, s, F) == [k \in Lhs[c] |-> IF k \in Known THEN s[k] ELSE F[k]]

(* local_types: the type of a local k is the disjunction, over the         *)
(* constraints that flow into k, of what their left-hand sides prove; no   *)
(* constraint, no fact.  The largest self-supporting assignment is what    *)
(* the recursion computes when it ends.                                    *)
Supported(F, t) ==
    \A k \in Locals : \A q \in F[k] :
        /\ Into(k) # {}
        /\ \A d \in Into(k) : Entails(d, Hyp(d, t, F), q)

LocalTypes(t) ==
    [k \in Locals |->
        UNION {F[k] : F \in {G \in [Locals -> SUBSET Quals] : Supported(G, t)}}]

(* What c's left-hand side proves under table s, when the closure in       *)
(* Frame.unfound reads table t.                                            *)
Implied(c, s, t) ==
    LET H == Hyp(c, s, LocalTypes(t)) IN {q \in Quals : Entails(c, H, q)}

(* sat: a constraint on a local is never checked.                          *)
Sat(c, s, t) ==
    /\ Rhs[c] = NoVar => Goal[c] \subseteq Implied(c, s, t)
    /\ Rhs[c] \in Known => s[Rhs[c]] \subseteq Implied(c, s, t)

(* refine: the qualifiers of the right-hand variable that are implied.     *)
Refined(c, s, t) ==
    IF Rhs[c] \in Known
    THEN [s EXCEPT ![Rhs[c]] = @ \cap Implied(c, s, t)]
    ELSE s

(* Broken: a constraint on a local counts as unchanged. *)
QuietChanged(c, s, t) == Rhs[c] \in Known /\ Refined(c, s, t) # s

(* Broken: a refinement always counts as a change. *)
EagerChanged(c, s, t) == Rhs[c] # NoVar

(* refine's result: true for a local, false for an assertion.              *)
Changed(c, s, t) ==
    \/ Rhs[c] \in Locals
    \/ Rhs[c] \in Known /\ Refined(c, s, t) # s

-----------------------------------------------------------------------------
VARIABLES
    pc,      \* "wf", "sub", "validate" or "idle"
    todo,    \* WFRef constraints solve_wf has still to visit
    sol,     \* the solution table being solved (s)
    old,     \* the table of the round before, which unfound may still read
    live,    \* does Frame.unfound read sol?  otherwise it reads old
    pend,    \* sri.pend: ids marked as being in the worklist
    wl,      \* the heap, as a bag of ids
    unsat,   \* the constraints unsat_constraints reported
    base,    \* the table the first pass left
    first,   \* is this the first pass?  then sol itself is that table
    start    \* history: the table as it was handed to solve_sub

vars == <<pc, todo, sol, old, live, pend, wl, unsat, base, first, start>>

View == IF live THEN sol ELSE old

(* make_initial_solution and make_dtyinv: every variable that is a right-  *)
(* hand side or a Bottom starts with all qualifiers, one that is only ever *)
(* on the left with none.                                                  *)
Constrained == {k \in Unknowns : Into(k) # {} \/ k \in Bottoms}

InitialSolution ==
    [k \in Known |-> IF k \in DtyVars THEN DtyQuals
                     ELSE IF k \in Constrained THEN InitQuals ELSE {}]

(* Broken: the round starts from the learned qualifiers alone. *)
ForgetfulFurther(new) ==
    [k \in Known |-> IF k \in DtyVars THEN DtyQuals
                     ELSE IF k \in Constrained THEN new[k] ELSE base[k]]

(* make_further_solution on a copy of the first pass's table: the learned  *)
(* qualifiers are added, and the user's once more.                         *)
FurtherSolution(new) ==
    [k \in Known |-> IF k \in DtyVars THEN DtyQuals
                     ELSE IF k \in Constrained THEN base[k] \cup new[k] \cup InitQuals
                     ELSE base[k]]

Init ==
    /\ pc = "wf" /\ todo = Wfs
    /\ sol = InitialSolution
    /\ old = InitialSolution /\ live = FALSE
    /\ pend = {} /\ wl = [c \in Subs |-> 0]
    /\ unsat = {}
    /\ base = InitialSolution /\ first = TRUE
    /\ start = InitialSolution

(* solve_wf: one WFRef constraint. *)
SolveWf(i) ==
    /\ pc = "wf" /\ i \in todo
    /\ todo' = todo \ {i}
    /\ sol' = IF WfVar[i] \in Known
              THEN [sol EXCEPT ![WfVar[i]] = @ \cap WfQuals[i]]
              ELSE sol
    /\ UNCHANGED <<pc, old, live, pend, wl, unsat, base, first, start>>

(* push_worklist: an id that is marked is not added again. *)
Push(cs, marked, heap) ==
    /\ pend' = marked \cup cs
    /\ wl' = [c \in Subs |-> IF c \in cs \ marked THEN heap[c] + 1 ELSE heap[c]]

(* Broken: local_types is registered in the first pass only. *)
StaleMakeWorklist ==
    /\ pc = "wf" /\ todo = {}
    /\ Push(Subs, pend, [c \in Subs |-> 0])
    /\ live' = first
    /\ pc' = "sub" /\ start' = sol
    /\ UNCHANGED <<todo, sol, old, unsat, base, first>>

(* make_initial_worklist into an empty heap, then register_unfound. *)
MakeWorklist ==
    /\ pc = "wf" /\ todo = {}
    /\ Push(Subs, pend, [c \in Subs |-> 0])
    /\ live' = TRUE /\ old' = sol      \* nothing reads the older table again
    /\ pc' = "sub" /\ start' = sol
    /\ UNCHANGED <<todo, sol, unsat, base, first>>

(* pop_worklist: a maximum of the heap. *)
IsTop(c) == wl[c] > 0 /\ \A d \in Subs : wl[d] > 0 => ~LowerRank(c, d)

(* Broken: a popped constraint keeps its mark. *)
MarkedRefine(c) ==
    /\ pc = "sub" /\ IsTop(c)
    /\ sol' = Refined(c, sol, View)
    /\ Push(IF Changed(c, sol, View) THEN Deps(c) ELSE {},
            pend, [wl EXCEPT ![c] = @ - 1])
    /\ UNCHANGED <<pc, todo, old, live, unsat, base, first, start>>

(* solve_sub: one iteration, with refine. *)
Refine(c) ==
    /\ pc = "sub" /\ IsTop(c)
    /\ sol' = Refined(c, sol, View)
    /\ Push(IF Changed(c, sol, View) THEN Deps(c) ELSE {},
            pend \ {c}, [wl EXCEPT ![c] = @ - 1])
    /\ UNCHANGED <<pc, todo, old, live, unsat, base, first, start>>

(* solve_sub: pop_worklist finds the heap empty. *)
Drained ==
    /\ pc = "sub" /\ \A c \in Subs : wl[c] = 0
    /\ pc' = "validate"
    /\ UNCHANGED <<todo, sol, old, live, pend, wl, unsat, base, first, start>>

(* Broken: the table of the first pass is validated in every round. *)
BaseValidate ==
    /\ pc = "validate"
    /\ unsat' = {c \in Subs : ~Sat(c, base, base)}
    /\ base' = IF first THEN sol ELSE base
    /\ first' = FALSE
    /\ pc' = "idle"
    /\ UNCHANGED <<todo, sol, old, live, pend, wl, start>>

(* unsat_constraints. *)
Validate ==
    /\ pc = "validate"
    /\ unsat' = {c \in Subs : ~Sat(c, sol, View)}
    /\ base' = IF first THEN sol ELSE base
    /\ first' = FALSE
    /\ pc' = "idle"
    /\ UNCHANGED <<todo, sol, old, live, pend, wl, start>>

(* A further round of the learning loop. *)
Further(new) ==
    /\ pc = "idle"
    /\ sol' = FurtherSolution(new)
    /\ old' = sol /\ live' = FALSE
    /\ pc' = "wf" /\ todo' = Wfs
    /\ UNCHANGED <<pend, wl, unsat, base, first, start>>

SolveStep ==
    \/ \E i \in Wfs : SolveWf(i)
    \/ MakeWorklist
    \/ \E c \in Subs : Refine(c)
    \/ Drained
    \/ Validate

Next == SolveStep \/ \E new \in Offers : Further(new)

Spec == Init /\ [][Next]_vars

(* The solver is one sequential program: a pass that can go on goes on.    *)
(* Nothing obliges the learner to offer another round.                     *)
FairSpec == Spec /\ WF_vars(SolveStep)

-----------------------------------------------------------------------------
TypeOK ==
    /\ pc \in {"wf", "sub", "validate", "idle"}
    /\ todo \subseteq Wfs
    /\ sol \in Solutions /\ old \in Solutions /\ base \in Solutions
    /\ start \in Solutions
    /\ live \in BOOLEAN /\ first \in BOOLEAN
    /\ pend \subseteq Subs /\ unsat \subseteq Subs
    /\ wl \in [Subs -> Nat]

(* The mark table, which outlives a pass, and the heap, which is rebuilt   *)
(* by every pass, say the same: an id is marked exactly when the heap      *)
(* holds it, and holds it once (push_worklist skips a marked id, so a mark *)
(* left behind would lose the constraint for ever).                        *)
PendIsWorklist == \A c \in Subs : wl[c] = IF c \in pend THEN 1 ELSE 0

(* X is closed under "d flows into a local that is read by a member of X". *)
ClosedUnderLocals(X) ==
    \A c \in X, d \in Subs : Rhs[d] \in Locals /\ c \in Deps(d) => d \in X

(* While solving, every constraint that its right-hand side violates is    *)
(* in the worklist, or a constraint is from which it will be pushed again  *)
(* through a chain of local types.  Nothing else keeps solve_sub from      *)
(* stopping early.                                                         *)
Covered(s, marked) ==
    \A c \in Subs :
        Rhs[c] \in Known /\ ~Sat(c, s, s) =>
            \A X \in SUBSET (Subs \ marked) : c \in X => ~ClosedUnderLocals(X)

UnsatIsPending == pc = "sub" => Covered(sol, pend)

(* A table every constraint on a table variable accepts.                   *)
IsFixpoint(s) == \A c \in Subs : Rhs[c] \in Known => Sat(c, s, s)

(* The answer of solve_sub is a fixpoint, and whatever the order in which  *)
(* constraints were popped it is the strongest one below its start: no     *)
(* qualifier was dropped that some solution keeps.                         *)
AtLeastEveryFixpoint(s, t) ==
    \A G \in Solutions : Leq(G, t) => Leq(G, s) \/ ~IsFixpoint(G)

StrongestSolution ==
    pc \in {"validate", "idle"} =>
        /\ IsFixpoint(sol) /\ Leq(sol, start)
        /\ AtLeastEveryFixpoint(sol, start)

(* unsat_constraints only ever reports assertions: a constraint the solver *)
(* was to satisfy is satisfied, under the table the report is made for.    *)
OnlyAssertionsFail ==
    pc = "idle" => \A c \in unsat : Rhs[c] = NoVar /\ ~Sat(c, sol, sol)

(* A round of learning never un-proves anything: the qualifiers of the     *)
(* first pass stay and an assertion proved by it stays proved, although    *)
(* the round starts from qualifiers that are wrong.                        *)
ProvedStaysProved ==
    ~first =>
        /\ Leq(base, sol)
        /\ pc = "idle" => \A c \in unsat : ~Sat(c, base, base)

(* What is true of every state and makes the above inductive.              *)
PhaseInv ==
    /\ pc # "sub" => pend = {}
    /\ pc # "wf" => live /\ todo = {}
    /\ pc = "idle" => ~first /\ unsat = {c \in Subs : ~Sat(c, sol, sol)}

WellFormed(s, W) ==
    \A i \in W : WfVar[i] \in Known => s[WfVar[i]] \subseteq WfQuals[i]

MeasuresOnly(s) == \A k \in DtyVars : s[k] \subseteq DtyQuals

TableInv ==
    /\ WellFormed(sol, Wfs \ todo) /\ MeasuresOnly(sol)
    /\ pc # "wf" => Leq(sol, start) /\ AtLeastEveryFixpoint(sol, start)
    /\ pc \in {"validate", "idle"} => IsFixpoint(sol)

BaseInv ==
    ~first => /\ IsFixpoint(base) /\ WellFormed(base, Wfs) /\ MeasuresOnly(base)
              /\ Leq(base, sol)

(* The inductive invariant of the solver. *)
SolverInv ==
    TypeOK /\ PendIsWorklist /\ PhaseInv /\ UnsatIsPending /\ TableInv /\ BaseInv

(* The promise the solver implements: solving a table is one step to its   *)
(* strongest acceptable restriction.  While solve_sub runs the promise     *)
(* still sees the table solve_sub was given.                               *)
Promise == INSTANCE StrongestAnswer WITH
    Tables <- Solutions, Below <- Leq, Accepts <- IsFixpoint,
    tab <- IF pc = "sub" THEN start ELSE sol,
    phase <- IF pc = "wf" THEN "preparing"
             ELSE IF pc = "sub" THEN "solving" ELSE "solved"

(* All of solve_sub, whatever it pops and pushes, is one step of the       *)
(* promise.                                                                *)
KeepsPromise == Promise!Spec

(* The solver works down the component graph: once a constraint has been   *)
(* refined nothing of a higher rank is waiting, or pushed again, so a      *)
(* strongly connected component is finished before the next is begun.      *)
RanksDescend ==
    [][\A c \in Subs : Refine(c) => \A d \in pend' : Rank[d] <= Rank[c]]_vars

(* Every pass ends. *)
PassEnds == pc = "wf" ~> pc = "idle"
=============================================================================
