------------------------- MODULE LiquidSolverProofs -------------------------
(* Proofs about the solver of liquid/constraint.ml, for every constraint   *)
(* set, every set of qualifiers and every prover that satisfies the        *)
(* assumptions of LiquidSolver.                                            *)
EXTENDS LiquidSolver, FiniteSetTheorems, WellFoundedInduction, TLAPS

(***************************************************************************)
(* The operators: hypotheses, local types, implied qualifiers.             *)
(***************************************************************************)

(* The hypotheses of a constraint are a set of qualifiers per variable.    *)
LEMMA HypType ==
    ASSUME NEW c \in Subs, NEW s \in Solutions,
           NEW F \in [Locals -> SUBSET Quals]
    PROVE  Hyp(c, s, F) \in [Lhs[c] -> SUBSET Quals]
<1>1. ASSUME NEW k \in Lhs[c]
      PROVE  (IF k \in Known THEN s[k] ELSE F[k]) \in SUBSET Quals
  <2>1. k \in Known \/ k \in Locals
    BY <1>1, SortAssumption DEF Kvars
  <2>2. CASE k \in Known
    BY <2>2 DEF Solutions
  <2>3. CASE k \notin Known
    BY <2>1, <2>3
  <2> QED BY <2>2, <2>3
<1> QED BY <1>1 DEF Hyp

(* local_types yields a set of qualifiers for every local variable.        *)
LEMMA LocalTypesType ==
    ASSUME NEW t
    PROVE  LocalTypes(t) \in [Locals -> SUBSET Quals]
  BY DEF LocalTypes

(* Stronger hypotheses for every variable prove at least as much.          *)
LEMMA EntailsMonotone ==
    ASSUME NEW c \in Subs,
           NEW H1 \in [Lhs[c] -> SUBSET Quals],
           NEW H2 \in [Lhs[c] -> SUBSET Quals],
           \A k \in Lhs[c] : H1[k] \subseteq H2[k],
           NEW q \in Quals, Entails(c, H1, q)
    PROVE  Entails(c, H2, q)
  BY MonotoneAssumption

(* A self-supporting assignment is part of the local types.                *)
LEMMA SupportedBelow ==
    ASSUME NEW t, NEW F \in [Locals -> SUBSET Quals], Supported(F, t),
           NEW k \in Locals
    PROVE  F[k] \subseteq LocalTypes(t)[k]
  BY DEF LocalTypes

(* A qualifier of a local type comes from a self-supporting assignment.    *)
LEMMA LocalTypeSupport ==
    ASSUME NEW t, NEW k \in Locals, NEW q \in LocalTypes(t)[k]
    PROVE  \E F \in [Locals -> SUBSET Quals] : Supported(F, t) /\ q \in F[k]
  BY DEF LocalTypes

(* Local types grow with the table they are computed from.                 *)
LEMMA LocalTypesMonotone ==
    ASSUME NEW s \in Solutions, NEW t \in Solutions, Leq(s, t),
           NEW k \in Locals
    PROVE  LocalTypes(s)[k] \subseteq LocalTypes(t)[k]
<1>1. ASSUME NEW F \in [Locals -> SUBSET Quals], Supported(F, s)
      PROVE  Supported(F, t)
  <2>1. ASSUME NEW j \in Locals, NEW q \in F[j], NEW d \in Into(j)
        PROVE  Entails(d, Hyp(d, t, F), q)
    <3>1. d \in Subs /\ q \in Quals
      BY <2>1 DEF Into
    <3>2. Entails(d, Hyp(d, s, F), q)
      BY <1>1, <2>1 DEF Supported
    <3>3. /\ Hyp(d, s, F) \in [Lhs[d] -> SUBSET Quals]
          /\ Hyp(d, t, F) \in [Lhs[d] -> SUBSET Quals]
      BY <3>1, HypType
    <3>4. \A i \in Lhs[d] : Hyp(d, s, F)[i] \subseteq Hyp(d, t, F)[i]
      BY DEF Hyp, Leq
    <3> QED BY <3>1, <3>2, <3>3, <3>4, EntailsMonotone
  <2>2. \A j \in Locals : \A q \in F[j] : Into(j) # {}
    BY <1>1 DEF Supported
  <2> QED BY <2>1, <2>2 DEF Supported
<1>2. SUFFICES ASSUME NEW q \in LocalTypes(s)[k]
               PROVE  q \in LocalTypes(t)[k]
  OBVIOUS
<1>3. PICK F \in [Locals -> SUBSET Quals] : Supported(F, s) /\ q \in F[k]
  BY LocalTypeSupport
<1> QED BY <1>1, <1>3, SupportedBelow

(* A table with more qualifiers implies more.                              *)
LEMMA ImpliedMonotone ==
    ASSUME NEW c \in Subs, NEW s \in Solutions, NEW t \in Solutions, Leq(s, t)
    PROVE  Implied(c, s, s) \subseteq Implied(c, t, t)
<1> DEFINE Hs == Hyp(c, s, LocalTypes(s))
           Ht == Hyp(c, t, LocalTypes(t))
<1>1. Hs \in [Lhs[c] -> SUBSET Quals] /\ Ht \in [Lhs[c] -> SUBSET Quals]
  BY HypType, LocalTypesType
<1>2. ASSUME NEW k \in Lhs[c] PROVE Hs[k] \subseteq Ht[k]
  <2>1. k \in Known \/ k \in Locals
    BY SortAssumption DEF Kvars
  <2>2. CASE k \in Known
    BY <2>2 DEF Hyp, Leq
  <2>3. CASE k \notin Known
    BY <2>1, <2>3, LocalTypesMonotone DEF Hyp
  <2> QED BY <2>2, <2>3
<1>3. ASSUME NEW q \in Quals, Entails(c, Hs, q) PROVE Entails(c, Ht, q)
  <2> HIDE DEF Hs, Ht
  <2> QED BY <1>1, <1>2, <1>3, EntailsMonotone
<1> QED BY <1>3 DEF Implied

-----------------------------------------------------------------------------
(* Two tables look the same to the constraints of X.                       *)
AgreeOn(X, s, t) ==
    \A c \in X : \A k \in Lhs[c] : k \in Known => s[k] = t[k]

(* What a constraint implies depends only on the table variables that it,  *)
(* or a constraint that flows into one of its locals, has on the left.     *)
LEMMA ImpliedFrame ==
    ASSUME NEW X \in SUBSET Subs, ClosedUnderLocals(X), NEW c \in X,
           NEW s \in Solutions, NEW t \in Solutions, AgreeOn(X, s, t)
    PROVE  Implied(c, s, s) \subseteq Implied(c, t, t)
<1> DEFINE Read(k) == \E d \in X : k \in Lhs[d]
           Hs == Hyp(c, s, LocalTypes(s))
           Ht == Hyp(c, t, LocalTypes(t))
<1>1. ASSUME NEW F \in [Locals -> SUBSET Quals], Supported(F, s)
      PROVE  Supported([k \in Locals |-> IF Read(k) THEN F[k] ELSE {}], t)
  <2> DEFINE G == [k \in Locals |-> IF Read(k) THEN F[k] ELSE {}]
  <2>1. ASSUME NEW j \in Locals, NEW q \in G[j], NEW e \in Into(j)
        PROVE  Entails(e, Hyp(e, t, G), q)
    <3>1. Read(j) /\ q \in F[j]
      BY <2>1
    <3>2. PICK d \in X : j \in Lhs[d]
      BY <3>1
    <3>3. e \in Subs /\ Rhs[e] = j
      BY <2>1 DEF Into
    <3>4. d \in Deps(e)
      BY <3>2, <3>3, SortAssumption DEF Deps, Kvars
    <3>5. e \in X
      BY <3>2, <3>3, <3>4 DEF ClosedUnderLocals
    <3>6. Hyp(e, t, G) = Hyp(e, s, F)
      <4>1. ASSUME NEW k \in Lhs[e]
            PROVE  (IF k \in Known THEN t[k] ELSE G[k])
                       = (IF k \in Known THEN s[k] ELSE F[k])
        <5>1. k \in Known \/ k \in Locals
          BY <3>3, SortAssumption DEF Kvars
        <5>2. CASE k \in Known
          BY <3>5, <5>2 DEF AgreeOn
        <5>3. CASE k \notin Known
          BY <3>5, <5>1, <5>3
        <5> QED BY <5>2, <5>3
      <4> QED BY <4>1 DEF Hyp
    <3>7. Entails(e, Hyp(e, s, F), q)
      BY <1>1, <2>1, <3>1 DEF Supported
    <3> QED BY <3>6, <3>7
  <2>2. \A j \in Locals : \A q \in G[j] : Into(j) # {}
    BY <1>1 DEF Supported
  <2> QED BY <2>1, <2>2 DEF Supported
<1>2. ASSUME NEW k \in Locals, k \in Lhs[c]
      PROVE  LocalTypes(s)[k] \subseteq LocalTypes(t)[k]
  <2>1. SUFFICES ASSUME NEW q \in LocalTypes(s)[k]
                 PROVE  q \in LocalTypes(t)[k]
    OBVIOUS
  <2>2. PICK F \in [Locals -> SUBSET Quals] : Supported(F, s) /\ q \in F[k]
    BY <1>2, LocalTypeSupport
  <2> DEFINE G == [j \in Locals |-> IF Read(j) THEN F[j] ELSE {}]
  <2>3. Supported(G, t)
    BY <1>1, <2>2
  <2>4. G \in [Locals -> SUBSET Quals] /\ q \in G[k]
    BY <1>2, <2>2
  <2> HIDE DEF G
  <2> QED BY <1>2, <2>3, <2>4, SupportedBelow
<1>3. c \in Subs
  OBVIOUS
<1>4. Hs \in [Lhs[c] -> SUBSET Quals] /\ Ht \in [Lhs[c] -> SUBSET Quals]
  BY <1>3, HypType, LocalTypesType
<1>5. ASSUME NEW k \in Lhs[c] PROVE Hs[k] \subseteq Ht[k]
  <2>1. k \in Known \/ k \in Locals
    BY <1>3, SortAssumption DEF Kvars
  <2>2. CASE k \in Known
    BY <2>2 DEF Hyp, AgreeOn
  <2>3. CASE k \notin Known
    BY <1>2, <2>1, <2>3 DEF Hyp
  <2> QED BY <2>2, <2>3
<1>6. ASSUME NEW q \in Quals, Entails(c, Hs, q) PROVE Entails(c, Ht, q)
  <2> HIDE DEF Hs, Ht
  <2> QED BY <1>3, <1>4, <1>5, <1>6, EntailsMonotone
<1> QED BY <1>6 DEF Implied

-----------------------------------------------------------------------------
(***************************************************************************)
(* One refinement.                                                         *)
(***************************************************************************)

(* refine only removes qualifiers, and removes none that a fixpoint below  *)
(* the table keeps.                                                        *)
LEMMA RefinedProps ==
    ASSUME NEW c \in Subs, NEW s \in Solutions
    PROVE  /\ Refined(c, s, s) \in Solutions
           /\ Leq(Refined(c, s, s), s)
           /\ \A G \in Solutions :
                IsFixpoint(G) /\ Leq(G, s) => Leq(G, Refined(c, s, s))
<1>1. Refined(c, s, s) \in Solutions
  BY DEF Refined, Solutions
<1>2. Leq(Refined(c, s, s), s)
  BY DEF Refined, Solutions, Leq
<1>3. ASSUME NEW G \in Solutions, IsFixpoint(G), Leq(G, s)
      PROVE  Leq(G, Refined(c, s, s))
  <2>1. CASE Rhs[c] \in Known
    <3>1. G[Rhs[c]] \subseteq Implied(c, G, G)
      BY <1>3, <2>1 DEF IsFixpoint, Sat
    <3>2. Implied(c, G, G) \subseteq Implied(c, s, s)
      BY <1>3, ImpliedMonotone
    <3>3. ASSUME NEW k \in Known PROVE G[k] \subseteq Refined(c, s, s)[k]
      <4>1. G[k] \subseteq s[k]
        BY <1>3 DEF Leq
      <4>2. CASE k = Rhs[c]
        BY <2>1, <3>1, <3>2, <4>1, <4>2 DEF Refined, Solutions
      <4>3. CASE k # Rhs[c]
        BY <2>1, <4>1, <4>3 DEF Refined, Solutions
      <4> QED BY <4>2, <4>3
    <3> QED BY <3>3 DEF Leq
  <2>2. CASE Rhs[c] \notin Known
    BY <1>3, <2>2 DEF Refined
  <2> QED BY <2>1, <2>2
<1> QED BY <1>1, <1>2, <1>3

(* Taking a constraint out of a closed set leaves it closed, if nothing in *)
(* the set reads the local it flows into.                                  *)
LEMMA ClosedWithout ==
    ASSUME NEW X \in SUBSET Subs, ClosedUnderLocals(X), NEW c \in Subs,
           Rhs[c] \in Locals => X \cap Deps(c) = {}
    PROVE  ClosedUnderLocals(X \ {c})
  BY DEF ClosedUnderLocals

(* The heart of solve_sub: popping c, refining it and pushing its          *)
(* successors when it changed leaves every violated constraint covered.    *)
LEMMA RefineCovers ==
    ASSUME NEW s \in Solutions, NEW P \in SUBSET Subs, NEW c \in Subs,
           Covered(s, P)
    PROVE  Covered(Refined(c, s, s),
                   (P \ {c}) \cup (IF Changed(c, s, s) THEN Deps(c) ELSE {}))
<1> DEFINE s2 == Refined(c, s, s)
           N == IF Changed(c, s, s) THEN Deps(c) ELSE {}
           P2 == (P \ {c}) \cup N
<1>1. SUFFICES ASSUME NEW e \in Subs, Rhs[e] \in Known, ~Sat(e, s2, s2),
                      NEW X \in SUBSET Subs, e \in X, ClosedUnderLocals(X),
                      X \cap P2 = {}
               PROVE  FALSE
  BY DEF Covered
<1>2. Rhs[e] # NoVar /\ Rhs[e] \notin Locals
  BY <1>1, SortAssumption DEF Kvars
<1>3. s2 \in Solutions /\ Leq(s2, s)
  BY RefinedProps
<1>4. Rhs[c] \in Locals => X \cap Deps(c) = {}
  BY <1>1 DEF Changed
<1>5. AgreeOn(X, s, s2)
  <2>1. SUFFICES ASSUME NEW d \in X, NEW k \in Lhs[d], k \in Known,
                        s[k] # s2[k]
                 PROVE  FALSE
    BY DEF AgreeOn
  <2>2. Rhs[c] \in Known /\ k = Rhs[c]
    BY <2>1 DEF Refined, Solutions
  <2>3. Changed(c, s, s)
    BY <2>1, <2>2 DEF Changed
  <2>4. d \in Deps(c)
    BY <2>2, SortAssumption DEF Deps, Kvars
  <2> QED BY <1>1, <2>3, <2>4
<1>6. Implied(e, s, s) \subseteq Implied(e, s2, s2)
  <2> HIDE DEF s2
  <2> QED BY <1>1, <1>3, <1>5, ImpliedFrame
<1>7. CASE e = c
  <2>1. s2[Rhs[e]] \subseteq Implied(e, s, s)
    BY <1>1, <1>7 DEF Refined, Solutions
  <2> QED BY <1>1, <1>2, <1>6, <2>1 DEF Sat
<1>8. CASE e # c
  <2>1. ~Sat(e, s, s)
    <3>1. SUFFICES ASSUME Sat(e, s, s) PROVE FALSE
      OBVIOUS
    <3>2. s[Rhs[e]] \subseteq Implied(e, s, s)
      BY <1>1, <3>1 DEF Sat
    <3>3. s2[Rhs[e]] \subseteq s[Rhs[e]]
      BY <1>1, <1>3 DEF Leq
    <3> QED BY <1>1, <1>2, <1>6, <3>2, <3>3 DEF Sat
  <2>2. ClosedUnderLocals(X \ {c})
    BY <1>1, <1>4, ClosedWithout
  <2>3. (X \ {c}) \cap P # {}
    BY <1>1, <1>8, <2>1, <2>2 DEF Covered
  <2> QED BY <1>1, <2>3
<1> QED BY <1>7, <1>8

(* With nothing pending, a covered table is a fixpoint.                    *)
LEMMA NothingPending ==
    ASSUME NEW s, Covered(s, {})
    PROVE  IsFixpoint(s)
  BY DEF Covered, IsFixpoint, ClosedUnderLocals

-----------------------------------------------------------------------------
(***************************************************************************)
(* The inductive invariant.                                                *)
(***************************************************************************)

(* The initial table is a table.                                           *)
LEMMA InitialSolutionType == InitialSolution \in Solutions /\ MeasuresOnly(InitialSolution)
<1>1. ASSUME NEW k \in Known
      PROVE  (IF k \in DtyVars THEN DtyQuals
              ELSE IF k \in Constrained THEN InitQuals ELSE {}) \in SUBSET Quals
  BY SortAssumption
<1>2. DtyVars \subseteq Known
  BY DEF Known
<1> QED BY <1>1, <1>2 DEF InitialSolution, Solutions, MeasuresOnly

(* So is the table a further round starts from, and it keeps the base.     *)
LEMMA FurtherSolutionType ==
    ASSUME base \in Solutions, MeasuresOnly(base), NEW new \in Offers
    PROVE  /\ FurtherSolution(new) \in Solutions
           /\ MeasuresOnly(FurtherSolution(new))
           /\ Leq(base, FurtherSolution(new))
<1>1. new \in [Unknowns -> SUBSET Quals]
  BY SortAssumption
<1>2. ASSUME NEW k \in Known
      PROVE  (IF k \in DtyVars THEN DtyQuals
              ELSE IF k \in Constrained THEN base[k] \cup new[k] \cup InitQuals
              ELSE base[k]) \in SUBSET Quals
  <2>1. k \in Constrained => k \in Unknowns
    BY DEF Constrained
  <2> QED BY <1>1, <2>1, SortAssumption DEF Solutions
<1>3. FurtherSolution(new) \in Solutions
  BY <1>2 DEF FurtherSolution, Solutions
<1>4. DtyVars \subseteq Known
  BY DEF Known
<1> QED BY <1>3, <1>4 DEF FurtherSolution, MeasuresOnly, Leq

(* The state solve starts in satisfies the invariant.                      *)
LEMMA InvInit == Init => SolverInv
<1> SUFFICES ASSUME Init PROVE SolverInv
  OBVIOUS
<1> USE DEF Init
<1>1. TypeOK
  BY InitialSolutionType DEF TypeOK
<1>2. PendIsWorklist
  BY DEF PendIsWorklist
<1>3. PhaseInv /\ UnsatIsPending /\ BaseInv
  BY DEF PhaseInv, UnsatIsPending, BaseInv
<1>4. TableInv
  BY InitialSolutionType DEF TableInv, WellFormed
<1> QED BY <1>1, <1>2, <1>3, <1>4 DEF SolverInv

(* Visiting one WFRef constraint preserves it.                             *)
LEMMA InvSolveWf ==
    ASSUME SolverInv, NEW i \in Wfs, SolveWf(i)
    PROVE  SolverInv'
<1> USE DEF SolverInv, SolveWf
<1>1. sol' \in Solutions /\ Leq(sol', sol)
  BY DEF TypeOK, Solutions, Leq
<1>2. TypeOK'
  BY <1>1 DEF TypeOK
<1>3. PendIsWorklist' /\ PhaseInv' /\ UnsatIsPending'
  BY DEF PendIsWorklist, PhaseInv, UnsatIsPending
<1>4. MeasuresOnly(sol')
  <2>1. DtyVars \subseteq Known
    BY DEF Known
  <2> QED BY <1>1, <2>1 DEF TableInv, MeasuresOnly, Leq
<1>5. WellFormed(sol', Wfs \ todo')
  <2>1. ASSUME NEW j \in Wfs \ todo', WfVar[j] \in Known
        PROVE  sol'[WfVar[j]] \subseteq WfQuals[j]
    <3>1. CASE j = i
      BY <2>1, <3>1 DEF TypeOK, Solutions
    <3>2. CASE j # i
      <4>1. j \in Wfs \ todo
        BY <2>1, <3>2
      <4>2. sol[WfVar[j]] \subseteq WfQuals[j]
        BY <2>1, <4>1 DEF TableInv, WellFormed
      <4> QED BY <1>1, <2>1, <4>2 DEF Leq
    <3> QED BY <3>1, <3>2
  <2> QED BY <2>1 DEF WellFormed
<1>6. TableInv'
  BY <1>4, <1>5 DEF TableInv, WellFormed, MeasuresOnly
<1>7. ASSUME ~first PROVE Leq(base, sol')
  <2>1. ASSUME NEW k \in Known PROVE base[k] \subseteq sol'[k]
    <3>1. base[k] \subseteq sol[k]
      BY <1>7 DEF BaseInv, Leq
    <3>2. CASE k = WfVar[i]
      <4>1. base[k] \subseteq WfQuals[i]
        BY <1>7, <3>2 DEF BaseInv, WellFormed
      <4> QED BY <3>1, <3>2, <4>1 DEF TypeOK, Solutions
    <3>3. CASE k # WfVar[i]
      BY <3>1, <3>3 DEF TypeOK, Solutions
    <3> QED BY <3>2, <3>3
  <2> QED BY <2>1 DEF Leq
<1>8. BaseInv'
  BY <1>7 DEF BaseInv, IsFixpoint, Sat, Implied, Hyp, WellFormed, MeasuresOnly, Leq
<1> QED BY <1>2, <1>3, <1>6, <1>8

(* Filling the worklist preserves it: everything is pending.               *)
LEMMA InvMakeWorklist ==
    ASSUME SolverInv, MakeWorklist
    PROVE  SolverInv'
<1> USE DEF SolverInv, MakeWorklist
<1>1. pend = {} /\ pend' = Subs
  BY DEF PhaseInv, Push
<1>2. TypeOK' /\ PendIsWorklist'
  BY <1>1 DEF TypeOK, PendIsWorklist, Push
<1>3. PhaseInv'
  BY DEF PhaseInv
<1>4. UnsatIsPending'
  <2>1. Covered(sol', pend')
    BY <1>1 DEF Covered
  <2> QED BY <2>1 DEF UnsatIsPending, Covered
<1>5. Leq(sol, sol) /\ AtLeastEveryFixpoint(sol, sol)
  BY DEF Leq, AtLeastEveryFixpoint
<1>6. TableInv'
  BY <1>5 DEF TableInv, AtLeastEveryFixpoint, WellFormed, MeasuresOnly
<1>7. BaseInv'
  BY DEF BaseInv
<1> QED BY <1>2, <1>3, <1>4, <1>6, <1>7

(* Popping and refining a constraint preserves it.                         *)
LEMMA InvRefine ==
    ASSUME SolverInv, NEW c \in Subs, Refine(c)
    PROVE  SolverInv'
<1> USE DEF SolverInv
<1> DEFINE s2 == Refined(c, sol, sol)
           N == IF Changed(c, sol, sol) THEN Deps(c) ELSE {}
<1>1. pc = "sub" /\ live /\ sol \in Solutions /\ View = sol
  BY DEF Refine, PhaseInv, TypeOK, View
<1>2. sol' = s2 /\ pend' = (pend \ {c}) \cup N
  BY <1>1 DEF Refine, Push
<1>3. c \in pend
  <2>1. wl[c] > 0
    BY DEF Refine, IsTop
  <2> QED BY <2>1 DEF PendIsWorklist
<1>4. N \subseteq Subs
  BY DEF Deps
<1>5. UNCHANGED <<pc, todo, old, live, unsat, base, first, start>>
  BY DEF Refine
<1>6. PendIsWorklist'
  <2>1. wl' = [d \in Subs |-> IF d \in N \ (pend \ {c})
                              THEN [wl EXCEPT ![c] = @ - 1][d] + 1
                              ELSE [wl EXCEPT ![c] = @ - 1][d]]
    BY <1>1 DEF Refine, Push
  <2>2. wl \in [Subs -> Nat]
    BY DEF TypeOK
  <2>3. ASSUME NEW d \in Subs
        PROVE  wl'[d] = IF d \in pend' THEN 1 ELSE 0
    <3>1. wl[d] = IF d \in pend THEN 1 ELSE 0
      BY DEF PendIsWorklist
    <3>2. CASE d = c
      BY <1>2, <1>3, <2>1, <2>2, <3>1, <3>2
    <3>3. CASE d # c
      BY <1>2, <2>1, <2>2, <3>1, <3>3
    <3> QED BY <3>2, <3>3
  <2> QED BY <2>3 DEF PendIsWorklist
<1>7. TypeOK'
  <2>1. pend' \subseteq Subs
    BY <1>2, <1>4 DEF TypeOK
  <2>2. wl' \in [Subs -> Nat]
    <3>1. \A d \in Subs : wl'[d] \in Nat
      BY <1>6 DEF PendIsWorklist
    <3>2. wl' = [d \in Subs |-> wl'[d]]
      BY DEF Refine, Push
    <3> QED BY <3>1, <3>2
  <2>3. sol' \in Solutions
    BY <1>1, <1>2, RefinedProps
  <2> QED BY <1>5, <2>1, <2>2, <2>3 DEF TypeOK
<1>8. PhaseInv'
  BY <1>1, <1>5 DEF PhaseInv
<1>9. Covered(sol', pend')
  <2>1. pend \in SUBSET Subs /\ Covered(sol, pend)
    BY <1>1 DEF TypeOK, UnsatIsPending
  <2> QED BY <1>1, <1>2, <2>1, RefineCovers
<1>10. UnsatIsPending'
  BY <1>9 DEF UnsatIsPending, Covered, Sat, Implied, Hyp, ClosedUnderLocals
<1>11. Leq(sol', sol) /\ sol' \in Solutions
  BY <1>1, <1>2, RefinedProps
<1>12. TableInv'
  <2>1. WellFormed(sol', Wfs \ todo')
    BY <1>5, <1>11 DEF TableInv, WellFormed, Leq
  <2>2. MeasuresOnly(sol')
    <3>1. DtyVars \subseteq Known
      BY DEF Known
    <3> QED BY <1>11, <3>1 DEF TableInv, MeasuresOnly, Leq
  <2>3. Leq(sol', start')
    BY <1>1, <1>5, <1>11 DEF TableInv, Leq
  <2>4. AtLeastEveryFixpoint(sol', start')
    <3>1. SUFFICES ASSUME NEW G \in Solutions, Leq(G, start), IsFixpoint(G)
                   PROVE  Leq(G, sol')
      BY <1>5 DEF AtLeastEveryFixpoint
    <3>2. Leq(G, sol)
      BY <1>1, <3>1 DEF TableInv, AtLeastEveryFixpoint
    <3> QED BY <1>1, <1>2, <3>1, <3>2, RefinedProps
  <2> QED BY <1>1, <1>5, <2>1, <2>2, <2>3, <2>4
       DEF TableInv, WellFormed, MeasuresOnly, AtLeastEveryFixpoint
<1>13. BaseInv'
  <2>1. ASSUME ~first PROVE Leq(base, sol')
    BY <1>1, <1>2, <2>1, RefinedProps DEF BaseInv, TypeOK
  <2> QED BY <1>5, <2>1 DEF BaseInv, WellFormed, MeasuresOnly
<1> QED BY <1>6, <1>7, <1>8, <1>10, <1>12, <1>13

(* The end of solve_sub preserves it: the table is a fixpoint.             *)
LEMMA InvDrained ==
    ASSUME SolverInv, Drained
    PROVE  SolverInv'
<1> USE DEF SolverInv, Drained
<1>1. pend = {}
  BY DEF PendIsWorklist, TypeOK
<1>2. IsFixpoint(sol)
  BY <1>1, NothingPending DEF UnsatIsPending
<1>3. TypeOK' /\ PendIsWorklist' /\ PhaseInv' /\ UnsatIsPending'
  BY <1>1 DEF TypeOK, PendIsWorklist, PhaseInv, UnsatIsPending
<1>4. TableInv'
  BY <1>2 DEF TableInv, AtLeastEveryFixpoint, WellFormed, MeasuresOnly,
              IsFixpoint, Sat, Implied, Hyp
<1>5. BaseInv'
  BY DEF BaseInv
<1> QED BY <1>3, <1>4, <1>5

(* So does the validation, which makes the first table the base.           *)
LEMMA InvValidate ==
    ASSUME SolverInv, Validate
    PROVE  SolverInv'
<1> USE DEF SolverInv, Validate
<1>1. live /\ todo = {} /\ pend = {} /\ View = sol
  BY DEF PhaseInv, View
<1>2. TypeOK' /\ PendIsWorklist' /\ UnsatIsPending'
  BY DEF TypeOK, PendIsWorklist, UnsatIsPending
<1>3. PhaseInv'
  BY <1>1 DEF PhaseInv
<1>4. TableInv'
  BY DEF TableInv, AtLeastEveryFixpoint, WellFormed, MeasuresOnly
<1>5. IsFixpoint(sol) /\ WellFormed(sol, Wfs) /\ MeasuresOnly(sol)
  BY <1>1 DEF TableInv
<1>6. BaseInv'
  <2>1. CASE first
    <3>1. base' = sol /\ sol' = sol
      BY <2>1
    <3>2. Leq(sol, sol)
      BY DEF Leq
    <3> QED BY <1>5, <3>1, <3>2 DEF BaseInv
  <2>2. CASE ~first
    <3>1. base' = base /\ sol' = sol
      BY <2>2
    <3> QED BY <2>2, <3>1 DEF BaseInv
  <2> QED BY <2>1, <2>2 DEF TypeOK
<1> QED BY <1>2, <1>3, <1>4, <1>6

(* So does the start of a further round.                                   *)
LEMMA InvFurther ==
    ASSUME SolverInv, NEW new \in Offers, Further(new)
    PROVE  SolverInv'
<1> USE DEF SolverInv, Further
<1>1. ~first /\ base \in Solutions /\ MeasuresOnly(base)
  BY DEF PhaseInv, BaseInv, TypeOK
<1>2. /\ sol' \in Solutions /\ MeasuresOnly(sol') /\ Leq(base, sol')
  BY <1>1, FurtherSolutionType
<1>3. TypeOK' /\ PendIsWorklist' /\ PhaseInv' /\ UnsatIsPending'
  BY <1>2 DEF TypeOK, PendIsWorklist, PhaseInv, UnsatIsPending
<1>4. TableInv'
  BY <1>2 DEF TableInv, WellFormed, MeasuresOnly
<1>5. BaseInv'
  BY <1>1, <1>2 DEF BaseInv, Leq
<1> QED BY <1>3, <1>4, <1>5

(* A step that changes nothing. *)
LEMMA InvStutter ==
    ASSUME SolverInv, UNCHANGED vars
    PROVE  SolverInv'
<1> USE DEF SolverInv, vars
<1>1. TypeOK' /\ PendIsWorklist' /\ PhaseInv' /\ UnsatIsPending'
  BY DEF TypeOK, PendIsWorklist, PhaseInv, UnsatIsPending
<1>2. TableInv' /\ BaseInv'
  BY DEF TableInv, BaseInv
<1> QED BY <1>1, <1>2

(* Every step preserves the invariant.                                     *)
LEMMA InvNext == SolverInv /\ [Next]_vars => SolverInv'
<1> SUFFICES ASSUME SolverInv, [Next]_vars PROVE SolverInv'
  OBVIOUS
<1>1. CASE \E i \in Wfs : SolveWf(i)
  BY <1>1, InvSolveWf
<1>2. CASE MakeWorklist
  BY <1>2, InvMakeWorklist
<1>3. CASE \E c \in Subs : Refine(c)
  BY <1>3, InvRefine
<1>4. CASE Drained
  BY <1>4, InvDrained
<1>5. CASE Validate
  BY <1>5, InvValidate
<1>6. CASE \E new \in Offers : Further(new)
  BY <1>6, InvFurther
<1>7. CASE UNCHANGED vars
  BY <1>7, InvStutter
<1> QED BY <1>1, <1>2, <1>3, <1>4, <1>5, <1>6, <1>7 DEF Next, SolveStep

(* The inductive invariant holds in every reachable state.                 *)
THEOREM Invariance == Spec => []SolverInv
<1>1. Init => SolverInv
  BY InvInit
<1>2. SolverInv /\ [Next]_vars => SolverInv'
  BY InvNext
<1> QED BY <1>1, <1>2, PTL DEF Spec

-----------------------------------------------------------------------------
(***************************************************************************)
(* What follows from it.                                                   *)
(***************************************************************************)

(* The variables keep their types.                                         *)
THEOREM TypeCorrect == Spec => []TypeOK
  BY Invariance, PTL DEF SolverInv

(* The mark table and the heap always agree.                               *)
THEOREM MarksAgree == Spec => []PendIsWorklist
  BY Invariance, PTL DEF SolverInv

(* solve_sub cannot miss a violated constraint, whatever it reads through  *)
(* local types.                                                            *)
THEOREM NothingMissed == Spec => []UnsatIsPending
  BY Invariance, PTL DEF SolverInv

(* Every pass computes the strongest fixpoint below the table it started   *)
(* from.                                                                   *)
THEOREM Strongest == Spec => []StrongestSolution
<1>1. SolverInv => StrongestSolution
  BY DEF SolverInv, TableInv, StrongestSolution
<1> QED BY <1>1, Invariance, PTL

(* Only assertions are reported, and only those that fail.                 *)
THEOREM ReportsAssertions == Spec => []OnlyAssertionsFail
<1>1. SolverInv => OnlyAssertionsFail
  <2>1. SUFFICES ASSUME SolverInv, pc = "idle", NEW c \in unsat
                 PROVE  Rhs[c] = NoVar /\ ~Sat(c, sol, sol)
    BY DEF OnlyAssertionsFail
  <2>2. c \in Subs /\ ~Sat(c, sol, sol)
    BY <2>1 DEF SolverInv, PhaseInv
  <2>3. Rhs[c] \notin Known
    BY <2>1, <2>2 DEF SolverInv, TableInv, IsFixpoint
  <2> QED BY <2>2, <2>3 DEF Sat
<1> QED BY <1>1, Invariance, PTL

(* An assertion the first pass proved is proved after every round.         *)
THEOREM NoRegression == Spec => []ProvedStaysProved
<1>1. SolverInv => ProvedStaysProved
  <2>1. SUFFICES ASSUME SolverInv, ~first
                 PROVE  /\ Leq(base, sol)
                        /\ pc = "idle" => \A c \in unsat : ~Sat(c, base, base)
    BY DEF ProvedStaysProved
  <2>2. Leq(base, sol) /\ base \in Solutions /\ sol \in Solutions
    BY <2>1 DEF SolverInv, BaseInv, TypeOK
  <2>3. ASSUME pc = "idle", NEW c \in unsat, Sat(c, base, base)
        PROVE  FALSE
    <3>1. c \in Subs /\ ~Sat(c, sol, sol)
      BY <2>1, <2>3 DEF SolverInv, PhaseInv
    <3>2. Rhs[c] \notin Known
      BY <2>1, <2>3, <3>1 DEF SolverInv, TableInv, IsFixpoint
    <3>3. Implied(c, base, base) \subseteq Implied(c, sol, sol)
      BY <2>2, <3>1, ImpliedMonotone
    <3> QED BY <2>3, <3>1, <3>2, <3>3 DEF Sat
  <2> QED BY <2>2, <2>3
<1> QED BY <1>1, Invariance, PTL

(* A pass works down the ranks: nothing that waits after a constraint was  *)
(* refined, and nothing it pushed, outranks it.                            *)
THEOREM WorksDown == Spec => RanksDescend
<1> DEFINE Down == \A c \in Subs : Refine(c) => \A d \in pend' : Rank[d] <= Rank[c]
<1>1. SolverInv => Down
  <2>1. SUFFICES ASSUME SolverInv, NEW c \in Subs, Refine(c), NEW d \in pend'
                 PROVE  Rank[d] <= Rank[c]
    OBVIOUS
  <2>2. d \in pend \/ d \in Deps(c)
    BY <2>1 DEF Refine, Push
  <2>3. CASE d \in pend
    <3>1. d \in Subs /\ wl[d] > 0
      BY <2>1, <2>3 DEF SolverInv, PendIsWorklist, TypeOK
    <3>2. ~LowerRank(c, d)
      BY <2>1, <3>1 DEF Refine, IsTop
    <3> QED BY <3>1, <3>2, SortAssumption DEF LowerRank
  <2>4. CASE d \in Deps(c)
    BY <2>4, RankAssumption
  <2> QED BY <2>2, <2>3, <2>4
<1>2. Spec => [][Down]_vars
  BY <1>1, Invariance, PTL DEF Spec
<1> QED BY <1>2 DEF RanksDescend

-----------------------------------------------------------------------------
(* Why a pass ends.                                                        *)

\* The constraint c with all that flow into it through locals.
Upstream(c) == {d \in Subs : \A X \in SUBSET Subs : c \in X /\ ClosedUnderLocals(X) => d \in X}

LEMMA UpstreamLeast ==
    ASSUME NEW c \in Subs
    PROVE  /\ c \in Upstream(c) /\ Upstream(c) \subseteq Subs
           /\ ClosedUnderLocals(Upstream(c))
           /\ \A X \in SUBSET Subs :
                 c \in X /\ ClosedUnderLocals(X) => Upstream(c) \subseteq X
  BY DEF Upstream, ClosedUnderLocals

\* What is upstream of c, other than c, flows into a local on the way to c.
LEMMA UpstreamFlows ==
    ASSUME NEW c \in Subs, NEW d \in Upstream(c), d # c
    PROVE  Rhs[d] \in Locals /\ \E e \in Upstream(c) : e \in Deps(d)
<1> DEFINE X == Upstream(c) \ {d}
<1>1. c \in X /\ X \in SUBSET Subs /\ ~(Upstream(c) \subseteq X)
  BY UpstreamLeast
<1>2. ~ClosedUnderLocals(X)
  BY <1>1, UpstreamLeast
<1>3. PICK e \in X, f \in Subs : Rhs[f] \in Locals /\ e \in Deps(f) /\ f \notin X
  BY <1>2 DEF ClosedUnderLocals
<1>4. f \in Upstream(c)
  BY <1>3, UpstreamLeast DEF ClosedUnderLocals
<1> QED BY <1>3, <1>4

\* A constraint on a local pushes nothing that flows into it.
LEMMA NothingComesBack ==
    ASSUME NEW c \in Subs, Rhs[c] \in Locals
    PROVE  Deps(c) \cap Upstream(c) = {}
<1> SUFFICES ASSUME NEW d \in Deps(c) \cap Upstream(c) PROVE FALSE
  OBVIOUS
<1> DEFINE Y == {e \in Upstream(c) : Rhs[e] \in Locals /\ c \in Upstream(e)}
<1>1. Y \in SUBSET {e \in Subs : Rhs[e] \in Locals} /\ c \in Y
  BY UpstreamLeast
<1>2. ASSUME NEW y \in Y  PROVE Deps(y) \cap Y # {}
  <2>1. PICK e \in Upstream(c) : e \in Deps(y)
    <3>1. CASE y = c
      BY <3>1
    <3>2. CASE y # c
      BY <3>2, UpstreamFlows
    <3> QED BY <3>1, <3>2
  <2>2. e \in Subs /\ y \in Subs /\ Rhs[y] \in Locals
    BY UpstreamLeast
  <2>3. Rhs[e] \in Locals
    BY <2>1, UpstreamFlows
  <2>4. y \in Upstream(e)
    BY <2>1, <2>2, UpstreamLeast DEF ClosedUnderLocals
  <2>5. Upstream(y) \subseteq Upstream(e)
    BY <2>2, <2>4, UpstreamLeast
  <2> QED BY <2>1, <2>3, <2>5
<1> QED BY <1>1, <1>2, LocalsAcyclic

\* The pending constraints become Q from P: one was popped, and what was
\* pushed lies downstream of it.
Turns(Q, P) ==
    \E c \in P : /\ Q \cap Upstream(c) = (P \cap Upstream(c)) \ {c}
                 /\ \A d \in Q \ P : c \in Upstream(d)

\* What refinements can drop from a table.
Held(s) == {x \in Subs \X Quals : Rhs[x[1]] \in Known /\ x[2] \in s[Rhs[x[1]]]}

\* Table t and pending Q are closer to the end of solve_sub than s and P.
Lower(t, Q, s, P) ==
    \/ Leq(t, s) /\ Held(t) # Held(s)
    \/ t = s /\ Turns(Q, P)

(* Every constraint solve_sub pops brings it closer to its end: a          *)
(* qualifier is dropped, or the table stays and what was pushed lies       *)
(* downstream of what was popped.                                          *)
PassDescends == [][\A c \in Subs : Refine(c) => Lower(sol', pend', sol, pend)]_vars

(* solve_sub works toward its end with every constraint it pops, although  *)
(* it pushes the successors of a constraint on a local whether or not      *)
(* anything changed.                                                       *)
THEOREM EveryStepCounts == Spec => PassDescends
<1> DEFINE Descends == \A c \in Subs : Refine(c) => Lower(sol', pend', sol, pend)
<1>1. SolverInv => Descends
  <2> SUFFICES ASSUME SolverInv, NEW c \in Subs, Refine(c)
               PROVE  Lower(sol', pend', sol, pend)
    OBVIOUS
  <2>1. View = sol /\ sol \in Solutions /\ pend \subseteq Subs
    BY DEF Refine, SolverInv, PhaseInv, TypeOK, View
  <2>2. sol' = Refined(c, sol, sol) /\ sol' \in Solutions /\ Leq(sol', sol)
    BY <2>1, RefinedProps DEF Refine
  <2>3. c \in pend
    BY DEF Refine, IsTop, SolverInv, PendIsWorklist
  <2>4. CASE sol' # sol
    <3>1. Rhs[c] \in Known /\ sol' = [sol EXCEPT ![Rhs[c]] = @ \cap Implied(c, sol, sol)]
      BY <2>2, <2>4 DEF Refined
    <3>2. sol'[Rhs[c]] # sol[Rhs[c]]
      BY <2>1, <2>4, <3>1 DEF Solutions
    <3>3. PICK q \in sol[Rhs[c]] : q \notin sol'[Rhs[c]]
      BY <2>2, <3>1, <3>2 DEF Leq
    <3>4. <<c, q>> \in Held(sol) /\ <<c, q>> \notin Held(sol')
      BY <2>1, <3>1, <3>3 DEF Held, Solutions
    <3> QED BY <2>2, <3>4 DEF Lower
  <2>5. CASE sol' = sol
    <3>1. /\ Rhs[c] \in Locals => pend' = (pend \ {c}) \cup Deps(c)
          /\ Rhs[c] \notin Locals => pend' = pend \ {c}
      BY <2>1, <2>2, <2>5 DEF Refine, Push, Changed
    <3>2. pend' \cap Upstream(c) = (pend \cap Upstream(c)) \ {c}
      BY <3>1, NothingComesBack
    <3>3. \A d \in pend' \ pend : c \in Upstream(d)
      <4> SUFFICES ASSUME NEW d \in pend' \ pend PROVE c \in Upstream(d)
        OBVIOUS
      <4>1. Rhs[c] \in Locals /\ d \in Deps(c) /\ d \in Subs
        BY <3>1 DEF Deps
      <4> QED BY <4>1, UpstreamLeast DEF ClosedUnderLocals
    <3> QED BY <2>3, <2>5, <3>2, <3>3 DEF Lower, Turns
  <2> QED BY <2>4, <2>5
<1>2. Spec => [][Descends]_vars
  BY <1>1, Invariance, PTL DEF Spec
<1> QED BY <1>2 DEF PassDescends

\* Of the subsets of a finite set in a collection one contains no other.
LEMMA SmallestSet ==
    ASSUME NEW W, IsFiniteSet(W), NEW D \in SUBSET SUBSET W, D # {}
    PROVE  \E X \in D : \A Y \in D : Y \subseteq X => Y = X
<1> DEFINE R == OpToRel(<, Nat)
           K == {Cardinality(X) : X \in D}
<1>1. \A X \in D : IsFiniteSet(X) /\ Cardinality(X) \in Nat
  BY FS_Subset, FS_CardinalityType
<1>2. K \in SUBSET Nat /\ K # {}
  BY <1>1
<1>3. IsWellFoundedOn(R, Nat)
  BY NatLessThanWellFounded
<1>4. \A x, y \in Nat : <<y, x>> \in R <=> y < x
  BY DEF OpToRel
<1> HIDE DEF R, K
<1>5. PICK k \in K : \A j \in K : ~(<<j, k>> \in R)
  BY <1>2, <1>3, WFMin
<1>6. PICK X \in D : k = Cardinality(X)
  BY <1>5 DEF K
<1>7. ASSUME NEW Y \in D, Y \subseteq X  PROVE Y = X
  <2>1. Cardinality(Y) \in K
    BY DEF K
  <2>2. ~(Cardinality(Y) < Cardinality(X))
    BY <1>1, <1>4, <1>5, <1>6, <2>1
  <2>3. Cardinality(Y) <= Cardinality(X) /\ (Cardinality(X) = Cardinality(Y) => X = Y)
    BY <1>1, <1>7, FS_Subset
  <2> QED BY <1>1, <2>2, <2>3
<1> QED BY <1>7

LEMMA LargestSet ==
    ASSUME NEW W, IsFiniteSet(W), NEW D \in SUBSET SUBSET W, D # {}
    PROVE  \E X \in D : \A Y \in D : X \subseteq Y => Y = X
<1> DEFINE C == {W \ X : X \in D}
<1>1. \A X \in D : W \ X \in C
  OBVIOUS
<1>2. \A Z \in C : \E X \in D : Z = W \ X
  OBVIOUS
<1> HIDE DEF C
<1>3. C \in SUBSET SUBSET W /\ C # {}
  <2>1. ASSUME NEW Z \in C  PROVE Z \subseteq W
    BY <1>2
  <2>2. C # {}
    BY <1>1
  <2> QED BY <2>1, <2>2
<1>4. PICK Z \in C : \A Y \in C : Y \subseteq Z => Y = Z
  BY <1>3, SmallestSet
<1>5. PICK X \in D : Z = W \ X
  BY <1>2
<1>6. ASSUME NEW Y \in D, X \subseteq Y  PROVE Y = X
  <2>1. W \ Y = W \ X
    BY <1>1, <1>4, <1>5, <1>6
  <2>2. X \subseteq W /\ Y \subseteq W
    OBVIOUS
  <2> QED BY <2>1, <2>2
<1> QED BY <1>6

\* No two constraints are upstream of each other.
LEMMA UpstreamOneWay ==
    ASSUME NEW c \in Subs, NEW d \in Upstream(c), c \in Upstream(d)
    PROVE  d = c
<1> SUFFICES ASSUME d # c PROVE FALSE
  OBVIOUS
<1>1. d \in Subs
  BY UpstreamLeast
<1>2. PICK e \in Upstream(c) : Rhs[d] \in Locals /\ e \in Deps(d)
  BY UpstreamFlows
<1>3. Upstream(c) \subseteq Upstream(d)
  BY <1>1, UpstreamLeast
<1> QED BY <1>1, <1>2, <1>3, NothingComesBack

\* Outside a set there is a constraint with nothing else upstream outside.
LEMMA SourceOutside ==
    ASSUME NEW S \in SUBSET Subs, S # Subs
    PROVE  \E c \in Subs \ S : Upstream(c) \subseteq S \cup {c}
<1> DEFINE D == {Upstream(c) : c \in Subs \ S}
<1>1. D \in SUBSET SUBSET Subs /\ D # {}
  BY UpstreamLeast
<1> HIDE DEF D
<1>2. PICK X \in D : \A Y \in D : Y \subseteq X => Y = X
  BY <1>1, SmallestSet, SortAssumption
<1>3. PICK c \in Subs \ S : X = Upstream(c)
  BY <1>2 DEF D
<1>4. ASSUME NEW d \in Upstream(c), d \notin S  PROVE d = c
  <2>1. d \in Subs \ S /\ Upstream(d) \subseteq Upstream(c)
    BY <1>4, UpstreamLeast
  <2>2. Upstream(d) = Upstream(c)
    BY <1>2, <1>3, <2>1 DEF D
  <2> QED BY <2>2, UpstreamLeast, UpstreamOneWay
<1> QED BY <1>4

\* What is pending cannot turn for ever.  From some set in D on, the part of
\* it in S stays as it is; a largest S like that is everything.
LEMMA TurnsEnd ==
    ASSUME NEW D \in SUBSET SUBSET Subs, D # {}
    PROVE  \E P \in D : \A Q \in D : ~Turns(Q, P)
<1> DEFINE Stays(S, E) ==
             /\ E # {} /\ E \subseteq D
             /\ \A P \in E : \A Q \in D : Turns(Q, P) => Q \in E
             /\ \A P, Q \in E : P \cap S = Q \cap S
           Calm(S) == (\A c \in S : Upstream(c) \subseteq S) /\ \E E \in SUBSET D : Stays(S, E)
           C == {S \in SUBSET Subs : Calm(S)}
<1>1. Calm({})
  <2>1. Stays({}, D)
    OBVIOUS
  <2> QED BY <2>1
<1>2. C \in SUBSET SUBSET Subs /\ C # {}
  BY <1>1
<1>3. \A S \in SUBSET Subs : S \in C <=> Calm(S)
  OBVIOUS
<1> HIDE DEF C
<1>4. PICK S \in C : \A T \in C : S \subseteq T => T = S
  <2>1. IsFiniteSet(Subs)
    BY SortAssumption
  <2> HIDE DEF Calm
  <2> QED BY <1>2, <2>1, LargestSet
<1>5. (\A c \in S : Upstream(c) \subseteq S) /\ \E E \in SUBSET D : Stays(S, E)
  BY <1>2, <1>3
<1>6. PICK E \in SUBSET D : Stays(S, E)
  BY <1>5
<1>7. CASE S # Subs
  <2>1. PICK c \in Subs \ S : Upstream(c) \subseteq S \cup {c}
    BY <1>2, <1>7, SourceOutside
  <2> DEFINE T == S \cup {c}
             G == {P \in E : c \notin P}
  <2>2. \A d \in T : Upstream(d) \subseteq T
    BY <1>5, <2>1
  <2> HIDE DEF T
  <2>3. T \in SUBSET Subs /\ S \subseteq T /\ T # S
    BY <1>2, <2>1 DEF T
  <2>4. ~Calm(T)
    BY <1>3, <1>4, <2>3
  <2>5. CASE G = {}
    <3>1. Stays(T, E)
      BY <1>6, <2>5 DEF T
    <3> QED BY <2>4, <2>2, <3>1
  <2>6. CASE G # {}
    <3>1. ASSUME NEW P \in G, NEW Q \in D, Turns(Q, P)  PROVE Q \in G
      <4>1. Q \in E /\ P \cap S = Q \cap S
        BY <1>6, <3>1
      <4>2. PICK b \in P : /\ Q \cap Upstream(b) = (P \cap Upstream(b)) \ {b}
                           /\ \A d \in Q \ P : b \in Upstream(d)
        BY <3>1 DEF Turns
      <4>3. b \notin Q
        BY <4>2, UpstreamLeast
      <4>4. b \notin S
        BY <4>1, <4>2, <4>3
      <4>5. c \notin Q
        BY <2>1, <4>2, <4>4
      <4> QED BY <4>1, <4>5
    <3>2. \A P, Q \in G : P \cap T = Q \cap T
      BY <1>6 DEF T
    <3>3. Stays(T, G)
      BY <1>6, <2>6, <3>1, <3>2
    <3> QED BY <2>4, <2>2, <3>3
  <2> QED BY <2>5, <2>6
<1>8. CASE S = Subs
  <2>1. PICK P \in E : TRUE
    BY <1>6
  <2>2. ASSUME NEW Q \in D, Turns(Q, P)  PROVE FALSE
    <3>1. Q \in E /\ P \cap Subs = Q \cap Subs
      BY <1>6, <1>8, <2>1, <2>2
    <3>2. P = Q
      <4>1. P \subseteq Subs /\ Q \subseteq Subs
        BY <2>1, <2>2
      <4> QED BY <3>1, <4>1
    <3>3. PICK b \in P : Q \cap Upstream(b) = (P \cap Upstream(b)) \ {b}
      BY <2>2 DEF Turns
    <3> QED BY <3>2, <3>3, UpstreamLeast
  <2> QED BY <2>2
<1> QED BY <1>7, <1>8

(* Refinement is well-founded: in every set of tables with constraints     *)
(* pending there is one from which no refinement stays in the set.  With   *)
(* EveryStepCounts: solve_sub cannot refine for ever, although a recursive *)
(* function pushes its own constraints and constraints on locals are       *)
(* always pushed on.                                                       *)
THEOREM RefiningEnds ==
    ASSUME NEW Z \in SUBSET (Solutions \X SUBSET Subs), Z # {}
    PROVE  \E x \in Z : \A y \in Z : ~Lower(y[1], y[2], x[1], x[2])
<1> DEFINE H == {Held(x[1]) : x \in Z}
<1>1. H \in SUBSET SUBSET (Subs \X Quals) /\ H # {}
  <2>1. \A x \in Z : Held(x[1]) \subseteq Subs \X Quals
    BY DEF Held
  <2> QED BY <2>1
<1> HIDE DEF H
<1>2. IsFiniteSet(Subs \X Quals)
  BY FS_Product, SortAssumption
<1>3. PICK h \in H : \A g \in H : g \subseteq h => g = h
  BY <1>1, <1>2, SmallestSet
<1>4. PICK z \in Z : h = Held(z[1])
  BY <1>3 DEF H
<1> DEFINE s == z[1]
           D == {P \in SUBSET Subs : <<s, P>> \in Z}
<1>5. s \in Solutions /\ z[2] \in D
  BY DEF Solutions
<1>6. PICK P \in D : \A Q \in D : ~Turns(Q, P)
  BY <1>5, TurnsEnd
<1>7. ASSUME NEW y \in Z, Lower(y[1], y[2], s, P)  PROVE FALSE
  <2>1. y[1] \in Solutions /\ y[2] \in SUBSET Subs /\ y = <<y[1], y[2]>>
    OBVIOUS
  <2>2. CASE Leq(y[1], s) /\ Held(y[1]) # Held(s)
    <3>1. Held(y[1]) \subseteq Held(s)
      BY <2>2 DEF Held, Leq
    <3>2. Held(y[1]) \in H
      BY DEF H
    <3> QED BY <1>3, <1>4, <2>2, <3>1, <3>2
  <2>3. CASE y[1] = s /\ Turns(y[2], P)
    <3>1. y[2] \in D
      BY <2>1, <2>3
    <3> QED BY <1>6, <2>3, <3>1
  <2> QED BY <1>7, <2>2, <2>3 DEF Lower
<1>8. <<s, P>> \in Z /\ <<s, P>>[1] = s /\ <<s, P>>[2] = P
  BY <1>6
<1> QED BY <1>7, <1>8

-----------------------------------------------------------------------------
(* The solver implements the promise of StrongestAnswer: every pass is one *)
(* step to the strongest acceptable table.                                 *)
THEOREM ImplementsPromise == Spec => KeepsPromise
<1>1. Init => Promise!Init
  BY InitialSolutionType DEF Init, Promise!Init
<1>2. SolverInv /\ SolverInv' /\ [Next]_vars => [Promise!Next]_(Promise!vars)
  <2>1. SUFFICES ASSUME SolverInv, SolverInv', [Next]_vars
                 PROVE  [Promise!Next]_(Promise!vars)
    OBVIOUS
  <2>2. TypeOK /\ TypeOK'
    BY <2>1 DEF SolverInv
  <2>3. CASE \E i \in Wfs : SolveWf(i)
    BY <2>2, <2>3 DEF SolveWf, TypeOK, Promise!Next, Promise!Prepare
  <2>4. CASE MakeWorklist
    BY <2>4 DEF MakeWorklist, Promise!Next, Promise!HandOver
  <2>5. CASE \E c \in Subs : Refine(c)
    BY <2>5 DEF Refine, Promise!vars
  <2>6. CASE Drained
    <3>1. pc = "sub" /\ pc' = "validate" /\ start' = start
      BY <2>6 DEF Drained
    <3>2. /\ sol' \in Solutions /\ IsFixpoint(sol)' /\ Leq(sol, start)'
          /\ AtLeastEveryFixpoint(sol, start)'
      BY <2>1, <2>2, <3>1 DEF SolverInv, TableInv, TypeOK
    <3>3. Promise!Strongest(sol', start)
      BY <3>1, <3>2 DEF Promise!Strongest, AtLeastEveryFixpoint, Leq, IsFixpoint,
                        Sat, Implied, Hyp
    <3> QED BY <3>1, <3>3 DEF Promise!Next, Promise!Solve
  <2>7. CASE Validate
    BY <2>7 DEF Validate, Promise!vars
  <2>8. CASE \E new \in Offers : Further(new)
    BY <2>2, <2>8 DEF Further, TypeOK, Promise!Next, Promise!Reopen
  <2>9. CASE UNCHANGED vars
    BY <2>9 DEF vars, Promise!vars
  <2> QED BY <2>1, <2>3, <2>4, <2>5, <2>6, <2>7, <2>8, <2>9 DEF Next, SolveStep
<1> QED BY <1>1, <1>2, Invariance, PTL DEF Spec, KeepsPromise, Promise!Spec
=============================================================================
