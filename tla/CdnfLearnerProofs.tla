-------------------------- MODULE CdnfLearnerProofs --------------------------
(***************************************************************************)
(* What CdnfLearner promises, for every number of variables, every set of  *)
(* targets and whatever counterexamples the teacher picks.                 *)
(***************************************************************************)
EXTENDS CdnfLearner, SequenceTheorems, WellFoundedInduction, TLAPS

Basis(k) == [a : SUBSET (1 .. k), T : SUBSET (SUBSET (1 .. k)), H : SUBSET (SUBSET ((-k) .. k))]
Outside(G) == (SUBSET (1 .. N)) \ G

\* Some assignment of G begins with v.
Begins(G, v, k) == \E w \in G : Passed(w, k) = v

(* A basis, as the queries about the target G made it: its disjunction is  *)
(* that of its supports, these are members, and it is not one itself.      *)
Sound(B, k, G) ==
  /\ B \in Basis(k)
  /\ B.H = {Monomial(v, B.a) : v \in B.T}
  /\ \A v \in B.T : Begins(G, v, k)
  /\ Begins(Outside(G), B.a, k)
  /\ B.a \notin B.T

SessionInv ==
  /\ phase # "idle" => info \in 1 .. session /\ named[info] = own
  /\ phase = "idle" => session = 0

SizeInv ==
  /\ phase = "idle" => n = 0
  /\ phase # "idle" => n \in 1 .. N
  /\ phase # "idle" /\ mode = "CDNF" => n = N
  /\ phase = "first" /\ mode \in {"PlusPlus", "Plus3"} => n = 1
  /\ phase \in {"idle", "first"} => bases = <<>>

(* Only the newest basis may lack supports; under Plus3 no completion of a *)
(* basis satisfies the target, except for the very first basis, which then *)
(* never gets a support.                                                   *)
BasesInv ==
  /\ \A i \in DOMAIN bases : Sound(bases[i], n, own)
  /\ \A i \in DOMAIN bases : bases[i].T = {} => i = Len(bases)
  /\ mode = "Plus3" =>
       \A i \in DOMAIN bases :
         ~Begins(own, bases[i].a, n) \/ (n = 1 /\ Len(bases) = 1 /\ bases[i].T = {})

(* While bases are corrected: each that is left still rejects the          *)
(* counterexample, a member, and the walk has only moved toward the basis. *)
TurnInv ==
  /\ phase = "fix" <=> todo # {}
  /\ \A i \in todo : ~EvalMDNF(bases[i].H, ce)
  /\ phase = "fix" => /\ Begins(own, ce, n) /\ Begins(own, at, n)
                      /\ Xor(at, bases[Turn].a) \subseteq Xor(ce, bases[Turn].a)

NeverGivesUp == phase \notin {"null", "raised"}

IInv == TypeOK /\ SessionInv /\ SizeInv /\ BasesInv /\ TurnInv /\ NeverGivesUp /\ LearnsItsTarget

-----------------------------------------------------------------------------
(* The least and the greatest of some numbers.                             *)

LEMMA Least ==
  ASSUME NEW T \in SUBSET Nat, T # {}
  PROVE  \E x \in T : \A y \in T : x <= y
<1> DEFINE R == OpToRel(<, Nat)
<1>1. IsWellFoundedOn(R, Nat)
  BY NatLessThanWellFounded
<1>2. \A x, y \in Nat : <<y, x>> \in R <=> y < x
  BY DEF OpToRel
<1> HIDE DEF R
<1>3. PICK x \in T : \A y \in T : ~ (<<y, x>> \in R)
  BY <1>1, WFMin
<1>4. ASSUME NEW y \in T PROVE x <= y
  <2>1. x \in Nat /\ y \in Nat /\ ~ (y < x)
    BY <1>2, <1>3
  <2> QED BY <2>1
<1> QED BY <1>4

LEMMA Greatest ==
  ASSUME NEW m \in Nat, NEW S \in SUBSET (0 .. m), S # {}
  PROVE  \E x \in S : \A y \in S : x >= y
<1> DEFINE T == {m - x : x \in S}
<1>1. PICK t \in T : \A y \in T : t <= y
  <2>1. \A x \in S : m - x \in Nat
    OBVIOUS
  <2>2. T \in SUBSET Nat /\ T # {}
    BY <2>1
  <2> QED BY <2>2, Least
<1>2. PICK x \in S : t = m - x
  BY <1>1
<1>3. \A y \in S : m - x <= m - y
  BY <1>1, <1>2
<1> QED BY <1>2, <1>3

LEMMA MinProps ==
  ASSUME NEW T \in SUBSET Nat, T # {}
  PROVE  Min(T) \in T
  BY Least DEF Min

LEMMA MaxProps ==
  ASSUME NEW m \in Nat, NEW S \in SUBSET (0 .. m), S # {}
  PROVE  Max(S) \in S
  BY Greatest DEF Max

-----------------------------------------------------------------------------
(* Assignments and their first variables.                                  *)

LEMMA BeginsType ==
  ASSUME NEW G, NEW k \in Nat, NEW v, Begins(G, v, k)
  PROVE  v \subseteq 1 .. k
  BY DEF Begins, Passed

(* One more variable has one of two values.                                *)
LEMMA BeginsMore ==
  ASSUME NEW G, NEW k \in Nat, NEW v, Begins(G, v, k)
  PROVE  Begins(G, v, k + 1) \/ Begins(G, v \cup {k + 1}, k + 1)
<1>1. PICK w \in G : w \cap (1 .. k) = v
  BY DEF Begins, Passed
<1>2. 1 .. (k + 1) = (1 .. k) \cup {k + 1}
  OBVIOUS
<1>3. w \cap (1 .. (k + 1)) = v \/ w \cap (1 .. (k + 1)) = v \cup {k + 1}
  BY <1>1, <1>2
<1> QED BY <1>3 DEF Begins, Passed

(* Fewer variables are known of whoever begins with more.                  *)
LEMMA BeginsLess ==
  ASSUME NEW G, NEW k \in Nat, NEW v \in SUBSET (1 .. k), Begins(G, v, k + 1)
  PROVE  Begins(G, v, k)
<1>1. PICK w \in G : w \cap (1 .. (k + 1)) = v
  BY DEF Begins, Passed
<1>2. 1 .. (k + 1) = (1 .. k) \cup {k + 1}
  OBVIOUS
<1>3. w \cap (1 .. k) = v
  BY <1>1, <1>2
<1> QED BY <1>3 DEF Begins, Passed

(* With all variables it is the assignment itself.                         *)
LEMMA BeginsAll ==
  ASSUME NEW G \in SUBSET (SUBSET (1 .. N)), NEW v, Begins(G, v, N)
  PROVE  v \in G
<1>1. PICK w \in G : w \cap (1 .. N) = v
  BY DEF Begins, Passed
<1> QED BY <1>1

(* What does not satisfy falsifies, and the other way round.               *)
LEMMA BeginsOne ==
  ASSUME NEW G \in SUBSET (SUBSET (1 .. N)), NEW k \in 0 .. N, NEW v \in SUBSET (1 .. k)
  PROVE  Begins(G, v, k) \/ Begins(Outside(G), v, k)
<1>1. v \in SUBSET (1 .. N) /\ Passed(v, k) = v
  <2>1. 1 .. k \subseteq 1 .. N
    BY NAssumption
  <2> QED BY <2>1 DEF Passed
<1> QED BY <1>1 DEF Begins, Outside

LEMMA OwnType == ASSUME IInv PROVE own \in SUBSET (SUBSET (1 .. N)) /\ Outside(own) \in SUBSET (SUBSET (1 .. N))
  BY TargetsAssumption DEF IInv, TypeOK, Outside

(* The queries of the session are about the caller's target.               *)
LEMMA Queries ==
  ASSUME IInv, phase # "idle"
  PROVE  /\ Target = own
         /\ \A v, k : Member(v, k) <=> Begins(own, v, k)
         /\ \A v, k : Comember(v, k) <=> Begins(Outside(own), v, k)
<1>1. Target = own
  BY DEF IInv, SessionInv, Target
<1> QED BY <1>1 DEF Member, Comember, Begins, Outside

-----------------------------------------------------------------------------
(* Monomials and conjectures.                                              *)

LEMMA MonomialType ==
  ASSUME NEW k \in Nat, NEW v \in SUBSET (1 .. k), NEW a \in SUBSET (1 .. k)
  PROVE  Monomial(v, a) \in SUBSET ((-k) .. k)
<1>1. ASSUME NEW i \in Xor(v, a) PROVE (IF i \in a THEN -i ELSE i) \in (-k) .. k
  <2>1. i \in 1 .. k
    BY DEF Xor
  <2> QED BY <2>1
<1> QED BY <1>1 DEF Monomial

(* A monomial only reads the variables it was made of.                     *)
LEMMA SatisfiesCut ==
  ASSUME NEW k \in Nat, NEW m \in SUBSET ((-k) .. k), NEW x \in SUBSET (1 .. N)
  PROVE  Satisfies(x, m) <=> Satisfies(Passed(x, k), m)
<1>1. ASSUME NEW l \in m
      PROVE  /\ l > 0 => (l \in x <=> l \in Passed(x, k))
             /\ ~ (l > 0) => (-l \in x <=> -l \in Passed(x, k))
  <2>1. l \in (-k) .. k
    OBVIOUS
  <2>2. \A i \in x : i >= 1
    BY NAssumption
  <2>3. CASE l > 0
    BY <2>1, <2>3 DEF Passed
  <2>4. CASE ~ (l > 0)
    <3>1. -l \in x => -l \in 1 .. k
      BY <2>1, <2>2, <2>4
    <3> QED BY <2>4, <3>1 DEF Passed
  <2> QED BY <2>3, <2>4
<1> QED BY <1>1 DEF Satisfies

(* What a walk toward a keeps different from a it keeps from where it      *)
(* began: the beginning satisfies the monomial of its end.                 *)
LEMMA WalkSatisfies ==
  ASSUME NEW k \in Nat, NEW a \in SUBSET (1 .. k), NEW v \in SUBSET (1 .. k), NEW x \in SUBSET (1 .. k),
         Xor(v, a) \subseteq Xor(x, a)
  PROVE  Satisfies(x, Monomial(v, a))
<1> SUFFICES ASSUME NEW i \in Xor(v, a), NEW l, l = IF i \in a THEN -i ELSE i
             PROVE  IF l > 0 THEN l \in x ELSE -l \notin x
  BY DEF Satisfies, Monomial
<1>1. i \in 1 .. k /\ (i \in a <=> i \notin x)
  BY DEF Xor
<1>2. CASE i \in a
  <2>1. l = -i /\ i >= 1 /\ i \in Int
    BY <1>1, <1>2
  <2>2. ~ (l > 0) /\ -l = i
    BY <2>1
  <2> QED BY <1>1, <1>2, <2>2
<1>3. CASE i \notin a
  <2>1. l = i /\ l > 0
    BY <1>1, <1>3
  <2> QED BY <1>1, <1>3, <2>1
<1> QED BY <1>2, <1>3

LEMMA WalkCloser ==
  ASSUME NEW v, NEW a, NEW j \in Xor(v, a)
  PROVE  Xor(Xor(v, {j}), a) = Xor(v, a) \ {j}
  BY DEF Xor

LEMMA NothingSatisfies == \A x : ~EvalMDNF({}, x)
  BY DEF EvalMDNF

LEMMA ConjectureCut ==
  ASSUME TypeOK, NEW x \in SUBSET (1 .. N)
  PROVE  Conjecture(x) <=> Conjecture(Passed(x, n))
<1>1. n \in Nat /\ \A i \in DOMAIN bases : \A m \in bases[i].H : m \in SUBSET ((-n) .. n)
  <2>1. n \in Nat
    BY NAssumption DEF TypeOK
  <2> DEFINE S == [a : SUBSET (1 .. n), T : SUBSET (SUBSET (1 .. n)), H : SUBSET (SUBSET ((-n) .. n))]
  <2>2. bases \in Seq(S)
    BY DEF TypeOK
  <2>3. ASSUME NEW B \in S, NEW m \in B.H PROVE m \in SUBSET ((-n) .. n)
    OBVIOUS
  <2> HIDE DEF S
  <2>4. \A i \in DOMAIN bases : bases[i] \in S
    BY <2>2
  <2> QED BY <2>1, <2>3, <2>4
<1>2. ASSUME NEW i \in DOMAIN bases
      PROVE  EvalMDNF(bases[i].H, x) <=> EvalMDNF(bases[i].H, Passed(x, n))
  BY <1>1, SatisfiesCut DEF EvalMDNF
<1> QED BY <1>2 DEF Conjecture

LEMMA ModifyNothing ==
  ASSUME NEW v
  PROVE  ToModify(v) = {} <=> Conjecture(v)
  BY DEF ToModify, Conjecture

(* A counterexample the conjecture holds on begins with a falsifying       *)
(* assignment, any other with a satisfying one.                            *)
LEMMA CounterexampleKind ==
  ASSUME IInv, phase # "idle", NEW v \in Counterexamples
  PROVE  /\ v \in SUBSET (1 .. n)
         /\ Conjecture(v) => Begins(Outside(own), v, n)
         /\ ~Conjecture(v) => Begins(own, v, n)
<1>1. PICK w \in SUBSET (1 .. N) : v = Passed(w, n) /\ (Conjecture(w) <=> w \notin Target)
  BY DEF Counterexamples
<1>2. Target = own
  BY Queries
<1>3. Conjecture(w) <=> Conjecture(v)
  BY <1>1, ConjectureCut DEF IInv
<1>4. v \in SUBSET (1 .. n)
  BY <1>1 DEF Passed
<1>5. CASE Conjecture(v)
  <2>1. w \in Outside(own)
    BY <1>1, <1>2, <1>3, <1>5 DEF Outside
  <2> QED BY <1>1, <1>4, <1>5, <2>1 DEF Begins
<1>6. CASE ~Conjecture(v)
  <2>1. w \in own
    BY <1>1, <1>2, <1>3, <1>6
  <2> QED BY <1>1, <1>4, <1>6, <2>1 DEF Begins
<1> QED BY <1>5, <1>6
-----------------------------------------------------------------------------
(* One more variable.                                                      *)

(* Adding k + 1 or not keeps different assignments to 1 .. k different.    *)
LEMMA Apart ==
  ASSUME NEW k \in Nat, NEW v \in SUBSET (1 .. k), NEW a \in SUBSET (1 .. k), v # a,
         NEW x \in {v, v \cup {k + 1}}, NEW y \in {a, a \cup {k + 1}}
  PROVE  x # y
<1>1. k + 1 \notin 1 .. k
  OBVIOUS
<1>2. PICK i \in 1 .. k : ~(i \in v <=> i \in a)
  OBVIOUS
<1>3. i # k + 1
  BY <1>1
<1> QED BY <1>2, <1>3

LEMMA Wider ==
  ASSUME NEW k \in Nat, NEW v \in SUBSET (1 .. k)
  PROVE  v \in SUBSET (1 .. (k + 1)) /\ v \cup {k + 1} \in SUBSET (1 .. (k + 1))
<1>1. 1 .. (k + 1) = (1 .. k) \cup {k + 1}
  OBVIOUS
<1> QED BY <1>1

LEMMA ExtendedSound ==
  ASSUME IInv, phase # "idle", NEW B, Sound(B, n, own), mode \in {"PlusPlus", "Plus3"},
         mode = "Plus3" => ~Begins(own, B.a, n)
  PROVE  /\ Sound(Extended(B), n + 1, own)
         /\ B.T # {} => Extended(B).T # {}
         /\ mode = "Plus3" => ~Begins(own, Extended(B).a, n + 1)
<1> DEFINE k == n + 1
           b == mode = "PlusPlus" /\ ~Comember(B.a, k)
           With(x, c) == IF c THEN x \cup {k} ELSE x
           a == With(B.a, b)
           f(v) == With(v, IF Member(With(v, b), k) THEN b ELSE ~b)
           T == {f(v) : v \in B.T}
           H == {Monomial(v, a) : v \in T}
<1>1. Extended(B) = [a |-> a, T |-> T, H |-> H]
  BY DEF Extended
<1>2. n \in Nat /\ n <= N /\ k \in Nat
  BY NAssumption DEF IInv, TypeOK
<1>3. /\ B.a \in SUBSET (1 .. n) /\ B.a \notin B.T
      /\ \A v \in B.T : v \in SUBSET (1 .. n) /\ v # B.a /\ Begins(own, v, n)
      /\ Begins(Outside(own), B.a, n)
  BY DEF Sound, Basis
<1>4. /\ \A v : Member(v, k) <=> Begins(own, v, k)
      /\ \A v : Comember(v, k) <=> Begins(Outside(own), v, k)
  BY Queries
<1>5. a \in {B.a, B.a \cup {k}} /\ a \in SUBSET (1 .. k)
  BY <1>2, <1>3, Wider
<1>6. Begins(Outside(own), a, k)
  <2>1. Begins(Outside(own), B.a, k) \/ Begins(Outside(own), B.a \cup {k}, k)
    BY <1>2, <1>3, BeginsMore
  <2>2. CASE mode = "PlusPlus"
    BY <1>4, <2>1, <2>2
  <2>3. CASE mode = "Plus3"
    <3>1. a = B.a
      BY <2>3
    <3>2. ~Begins(own, B.a, k)
      BY <1>2, <1>3, <2>3, BeginsLess
    <3>3. CASE n = N
      <4>1. ~Begins(own, B.a, N) /\ B.a \in SUBSET (1 .. N)
        BY <1>3, <2>3, <3>3
      <4>2. Passed(B.a, k) = B.a
        BY <1>2, <1>3 DEF Passed
      <4>3. Passed(B.a, N) = B.a
        BY <4>1 DEF Passed
      <4>4. B.a \in Outside(own)
        BY <4>1, <4>3 DEF Begins, Outside
      <4> QED BY <3>1, <4>2, <4>4 DEF Begins
    <3>4. CASE n # N
      <4>1. k \in 0 .. N
        BY <1>2, <3>4, NAssumption
      <4>2. B.a \in SUBSET (1 .. k)
        BY <1>2, <1>3, Wider
      <4> QED BY <3>1, <3>2, <4>1, <4>2, OwnType, BeginsOne
    <3> QED BY <3>3, <3>4
  <2> QED BY <2>2, <2>3
<1>7. ASSUME NEW v \in B.T
      PROVE  f(v) \in {v, v \cup {k}} /\ f(v) \in SUBSET (1 .. k) /\ Begins(own, f(v), k) /\ f(v) # a
  <2>1. v \in SUBSET (1 .. n) /\ v # B.a /\ Begins(own, v, n)
    BY <1>3
  <2>2. f(v) \in {v, v \cup {k}}
    OBVIOUS
  <2>3. f(v) \in SUBSET (1 .. k)
    BY <1>2, <2>1, <2>2, Wider
  <2>4. Begins(own, v, k) \/ Begins(own, v \cup {k}, k)
    BY <1>2, <2>1, BeginsMore
  <2>5. Begins(own, f(v), k)
    <3>1. CASE b
      BY <1>4, <2>4, <3>1
    <3>2. CASE ~b
      BY <1>4, <2>4, <3>2
    <3> QED BY <3>1, <3>2
  <2>6. f(v) # a
    BY <1>2, <1>3, <1>5, <2>1, <2>2, Apart
  <2> QED BY <2>2, <2>3, <2>5, <2>6
<1> HIDE DEF a, f
<1>8. \A v \in T : v \in SUBSET (1 .. k) /\ Begins(own, v, k) /\ v # a
  BY <1>7
<1>9. H \in SUBSET (SUBSET ((-k) .. k))
  <2>1. \A v \in T : Monomial(v, a) \in SUBSET ((-k) .. k)
    BY <1>2, <1>5, <1>8, MonomialType
  <2> QED BY <2>1
<1>10. mode = "Plus3" => ~Begins(own, a, k)
  BY <1>2, <1>3, BeginsLess DEF a
<1> HIDE DEF T, H, k
<1>11. B.T # {} => T # {}
  BY DEF T
<1>12. Extended(B) \in Basis(k)
  BY <1>1, <1>5, <1>8, <1>9 DEF Basis
<1>13. H = {Monomial(v, a) : v \in T}
  BY DEF H
<1>14. a \notin T /\ \A v \in T : Begins(own, v, k)
  BY <1>8
<1>15. Extended(B).a = a /\ Extended(B).T = T /\ Extended(B).H = H
  BY <1>1
<1>16. Sound(Extended(B), k, own)
  BY <1>6, <1>12, <1>13, <1>14, <1>15 DEF Sound
<1> QED BY <1>10, <1>11, <1>15, <1>16 DEF k

-----------------------------------------------------------------------------
(* What the actions do to the bases.                                       *)

LEMMA Types ==
  ASSUME IInv
  PROVE  /\ n \in Nat /\ n <= N /\ N \in Nat /\ N > 0
         /\ bases \in Seq(Basis(n)) /\ DOMAIN bases = 1 .. Len(bases) /\ Len(bases) \in Nat
         /\ todo \subseteq DOMAIN bases /\ todo \in SUBSET Nat
         /\ ce \in SUBSET (1 .. n) /\ at \in SUBSET (1 .. n)
         /\ mode \in {"CDNF", "Plus", "PlusPlus", "Plus3"}
<1>1. n \in Nat /\ n <= N /\ N \in Nat /\ N > 0
  BY NAssumption DEF IInv, TypeOK
<1>2. bases \in Seq(Basis(n))
  BY DEF IInv, TypeOK, Basis
<1>3. DOMAIN bases = 1 .. Len(bases) /\ Len(bases) \in Nat
  BY <1>2
<1>4. todo \subseteq DOMAIN bases /\ todo \in SUBSET Nat
  BY <1>3 DEF IInv, TypeOK
<1> QED BY <1>1, <1>2, <1>3, <1>4, ModesAssumption DEF IInv, TypeOK

LEMMA BasisParts ==
  ASSUME IInv, NEW i \in DOMAIN bases
  PROVE  /\ Sound(bases[i], n, own) /\ bases[i] \in Basis(n)
         /\ bases[i].a \in SUBSET (1 .. n)
         /\ Begins(Outside(own), bases[i].a, n)
<1>1. Sound(bases[i], n, own)
  BY DEF IInv, BasesInv
<1> QED BY <1>1 DEF Sound, Basis

(* Past the last variable there is no conflict.                            *)
LEMMA NoConflictAtTheEnd ==
  ASSUME IInv, NEW v, Begins(own, v, n), Begins(Outside(own), v, n)
  PROVE  n # N
<1> SUFFICES ASSUME n = N PROVE FALSE
  OBVIOUS
<1>1. v \in own /\ v \in Outside(own)
  BY OwnType, BeginsAll
<1> QED BY <1>1 DEF Outside

LEMMA AddSound ==
  ASSUME IInv, NEW v \in SUBSET (1 .. n), Begins(Outside(own), v, n),
         \A i \in DOMAIN bases : bases[i].T # {},
         mode = "Plus3" => ~Begins(own, v, n) \/ (bases = <<>> /\ n = 1),
         bases' = AddBasis(v), UNCHANGED <<n, own, mode>>
  PROVE  bases' \in Seq(Basis(n)) /\ BasesInv' /\ DOMAIN bases \subseteq DOMAIN bases'
<1> DEFINE B == [a |-> v, T |-> {}, H |-> {}]
<1>1. bases \in Seq(Basis(n)) /\ B \in Basis(n)
  BY Types DEF Basis
<1>2. Sound(B, n, own)
  <2>1. B.H = {Monomial(u, B.a) : u \in B.T}
    OBVIOUS
  <2> QED BY <1>1, <2>1 DEF Sound
<1>3. bases' = Append(bases, B)
  BY DEF AddBasis
<1>4. B.T = {} /\ B.a = v
  OBVIOUS
<1> HIDE DEF B
<1>5. /\ bases' \in Seq(Basis(n)) /\ Len(bases') = Len(bases) + 1
      /\ DOMAIN bases' = 1 .. (Len(bases) + 1) /\ DOMAIN bases = 1 .. Len(bases)
      /\ Len(bases) \in Nat
      /\ \A i \in 1 .. Len(bases) : bases'[i] = bases[i]
      /\ bases'[Len(bases) + 1] = B
  BY <1>1, <1>3
<1>6. ASSUME NEW i \in DOMAIN bases'
      PROVE  /\ Sound(bases'[i], n, own)
             /\ bases'[i].T = {} => i = Len(bases')
             /\ mode = "Plus3" =>
                  \/ ~Begins(own, bases'[i].a, n)
                  \/ n = 1 /\ Len(bases') = 1 /\ bases'[i].T = {}
  <2>1. CASE i \in DOMAIN bases
    <3>1. bases'[i] = bases[i] /\ bases[i].T # {}
      BY <1>5, <2>1
    <3> QED BY <2>1, <3>1 DEF IInv, BasesInv
  <2>2. CASE i \notin DOMAIN bases
    <3>1. i = Len(bases')
      BY <1>5, <2>2
    <3>2. bases'[i] = B
      BY <1>5, <3>1
    <3>3. bases = <<>> => Len(bases') = 1
      BY <1>5
    <3> QED BY <1>2, <1>4, <3>1, <3>2, <3>3
  <2> QED BY <2>1, <2>2
<1>7. BasesInv'
  BY <1>6 DEF BasesInv
<1> QED BY <1>5, <1>7

LEMMA RefineSound ==
  ASSUME IInv, phase # "idle", mode \in {"PlusPlus", "Plus3"}, n # N, Refine, UNCHANGED <<own, mode>>
  PROVE  n' = n + 1 /\ phase' = "ask" /\ bases' \in Seq(Basis(n')) /\ BasesInv'
<1> DEFINE last == Len(bases)
           kept == IF last > 0 /\ bases[last].T = {} THEN last - 1 ELSE last
<1>1. n' = n + 1 /\ phase' = "ask" /\ bases' = [i \in 1 .. kept |-> Extended(bases[i])]
  BY DEF Refine, Refined
<1>2. last \in Nat /\ DOMAIN bases = 1 .. last
  BY Types
<1>3. kept \in Nat /\ kept <= last
  BY <1>2
<1>4. ASSUME NEW i \in 1 .. kept
      PROVE  i \in DOMAIN bases /\ bases[i].T # {}
  <2>1. i \in DOMAIN bases
    BY <1>2, <1>3
  <2>2. bases[i].T = {} => i = last
    BY <2>1 DEF IInv, BasesInv
  <2>3. bases[last].T = {} /\ last > 0 => i # last
    BY <1>2
  <2> QED BY <1>2, <2>1, <2>2, <2>3
<1> HIDE DEF kept
<1>5. ASSUME NEW i \in 1 .. kept
      PROVE  /\ Sound(Extended(bases[i]), n + 1, own)
             /\ Extended(bases[i]).T # {}
             /\ mode = "Plus3" => ~Begins(own, Extended(bases[i]).a, n + 1)
  <2>1. i \in DOMAIN bases /\ bases[i].T # {}
    BY <1>4
  <2>2. Sound(bases[i], n, own)
    BY <2>1, BasisParts
  <2>3. mode = "Plus3" => ~Begins(own, bases[i].a, n)
    BY <2>1 DEF IInv, BasesInv
  <2> QED BY <2>1, <2>2, <2>3, ExtendedSound
<1>6. DOMAIN bases' = 1 .. kept /\ \A i \in 1 .. kept : bases'[i] = Extended(bases[i])
  BY <1>1
<1>7. \A i \in 1 .. kept : bases'[i] \in Basis(n + 1)
  BY <1>5, <1>6 DEF Sound
<1>8. bases' \in Seq(Basis(n + 1))
  <2>1. bases' \in [1 .. kept -> Basis(n + 1)]
    BY <1>1, <1>6, <1>7
  <2> QED BY <1>3, <2>1
<1>9. BasesInv'
  BY <1>1, <1>5, <1>6 DEF BasesInv
<1> QED BY <1>1, <1>8, <1>9

-----------------------------------------------------------------------------
(* The actions keep the invariant.                                         *)

LEMMA TypeAgain ==
  ASSUME session' \in 0 .. MaxSession, named' \in [1 .. session' -> Targets], info' \in 0 .. session',
         own' \in Targets, mode' \in Modes, n' \in 0 .. N, bases' \in Seq(Basis(n')),
         ce' \subseteq 1 .. n', todo' \subseteq DOMAIN bases', at' \subseteq 1 .. n',
         phase' \in {"idle", "first", "ask", "fix", "done", "null", "raised"}
  PROVE  TypeOK'
  BY DEF TypeOK, Basis

LEMMA InvInit == Init => IInv
<1> SUFFICES ASSUME Init PROVE IInv
  OBVIOUS
<1>1. TypeOK
  <2>1. named \in [1 .. session -> Targets]
    BY DEF Init
  <2>2. bases \in Seq([a : SUBSET (1 .. n), T : SUBSET (SUBSET (1 .. n)), H : SUBSET (SUBSET ((-n) .. n))])
    BY DEF Init
  <2> QED BY <2>1, <2>2, NAssumption, SessionAssumption DEF Init, TypeOK
<1>2. SessionInv /\ SizeInv /\ TurnInv /\ NeverGivesUp /\ LearnsItsTarget
  BY DEF Init, SessionInv, SizeInv, TurnInv, NeverGivesUp, LearnsItsTarget
<1>3. BasesInv
  BY DEF Init, BasesInv
<1> QED BY <1>1, <1>2, <1>3 DEF IInv

(* A session is registered after those there are.                          *)
LEMMA Registered ==
  ASSUME IInv, NEW f \in Targets, Register(f)
  PROVE  /\ session \in Nat /\ session' = session + 1
         /\ named' \in [1 .. (session + 1) -> Targets] /\ named'[session + 1] = f
         /\ \A i \in 1 .. session : named'[i] = named[i]
<1>1. session \in Nat /\ named \in [1 .. session -> Targets]
  BY SessionAssumption DEF IInv, TypeOK
<1>2. named \in Seq(Targets) /\ Len(named) = session
  BY <1>1
<1>3. session' = session + 1 /\ named' = Append(named, f)
  BY DEF Register
<1>4. /\ named' \in Seq(Targets) /\ Len(named') = session + 1
      /\ named'[session + 1] = f /\ \A i \in 1 .. session : named'[i] = named[i]
  BY <1>1, <1>2, <1>3
<1>5. named' \in [1 .. (session + 1) -> Targets]
  BY <1>4, LenProperties
<1> QED BY <1>1, <1>3, <1>4, <1>5

LEMMA InvGo == IInv /\ Go => IInv'
<1> SUFFICES ASSUME IInv, Go PROVE IInv'
  OBVIOUS
<1>1. /\ phase = "idle" /\ Register(own) /\ info' = session + 1 /\ n' = FirstSize
      /\ phase' = "first" /\ UNCHANGED <<own, mode, bases, ce, todo, at>>
  BY DEF Go
<1>2. n = 0 /\ session = 0 /\ bases = <<>> /\ todo = {} /\ ce = {} /\ at = {}
  <2>1. n = 0 /\ session = 0 /\ bases = <<>> /\ todo = {}
    BY <1>1 DEF IInv, SizeInv, SessionInv, TurnInv
  <2>2. 1 .. n = {}
    BY <2>1
  <2> QED BY <2>1, <2>2 DEF IInv, TypeOK
<1>3. own \in Targets /\ mode \in Modes
  BY DEF IInv, TypeOK
<1>4. session' = 1 /\ named' \in [1 .. session' -> Targets] /\ named'[1] = own
  <2>1. /\ session' = session + 1 /\ named' \in [1 .. (session + 1) -> Targets]
        /\ named'[session + 1] = own
    BY <1>1, <1>3, Registered
  <2>2. session + 1 = 1
    BY <1>2
  <2> QED BY <2>1, <2>2
<1>5. n' \in 1 .. N /\ (mode = "CDNF" => n' = N) /\ (mode # "CDNF" => n' = 1)
  BY <1>1, NAssumption DEF FirstSize
<1>6. TypeOK'
  <2>1. bases' \in Seq(Basis(n'))
    BY <1>1, <1>2
  <2>2. session' \in 0 .. MaxSession /\ info' \in 0 .. session'
    BY <1>1, <1>2, <1>4, SessionAssumption
  <2>3. n' \in 0 .. N
    BY <1>5, NAssumption
  <2> QED BY <1>1, <1>2, <1>3, <1>4, <2>1, <2>2, <2>3, TypeAgain
<1>7. SessionInv' /\ SizeInv'
  BY <1>1, <1>2, <1>4, <1>5 DEF SessionInv, SizeInv
<1>8. BasesInv' /\ TurnInv' /\ NeverGivesUp' /\ LearnsItsTarget'
  BY <1>1, <1>2 DEF BasesInv, TurnInv, NeverGivesUp, LearnsItsTarget
<1> QED BY <1>6, <1>7, <1>8 DEF IInv

LEMMA InvNested == IInv /\ Nested => IInv'
<1> SUFFICES ASSUME IInv, Nested PROVE IInv'
  OBVIOUS
<1>1. PICK f \in Targets : Register(f)
  BY DEF Nested
<1>2. /\ phase \in {"first", "ask", "fix"} /\ session < MaxSession
      /\ UNCHANGED <<info, own, mode, n, bases, ce, todo, at, phase>>
  BY DEF Nested
<1>3. /\ session \in Nat /\ session' = session + 1
      /\ named' \in [1 .. (session + 1) -> Targets]
      /\ \A i \in 1 .. session : named'[i] = named[i]
  BY <1>1, Registered
<1>4. info \in 1 .. session /\ named[info] = own
  BY <1>2 DEF IInv, SessionInv
<1>5. TypeOK'
  <2>1. session' \in 0 .. MaxSession /\ info' \in 0 .. session'
    BY <1>2, <1>3, <1>4, SessionAssumption
  <2> QED BY <1>2, <1>3, <2>1 DEF IInv, TypeOK
<1>6. SessionInv'
  BY <1>2, <1>3, <1>4 DEF SessionInv
<1>7. SizeInv' /\ BasesInv' /\ TurnInv' /\ NeverGivesUp'
  BY <1>2 DEF IInv, SizeInv, BasesInv, TurnInv, NeverGivesUp, Turn
<1>8. LearnsItsTarget'
  BY <1>2 DEF LearnsItsTarget
<1> QED BY <1>5, <1>6, <1>7, <1>8 DEF IInv

LEMMA InvEqual == IInv /\ Equal => IInv'
<1> SUFFICES ASSUME IInv, Equal PROVE IInv'
  OBVIOUS
<1>1. /\ phase \in {"first", "ask"} /\ Counterexamples = {} /\ phase' = "done"
      /\ UNCHANGED <<session, named, info, own, mode, n, bases, ce, todo, at>>
  BY DEF Equal
<1>2. TypeOK' /\ SessionInv' /\ SizeInv' /\ BasesInv' /\ TurnInv' /\ NeverGivesUp'
  BY <1>1 DEF IInv, TypeOK, SessionInv, SizeInv, BasesInv, TurnInv, NeverGivesUp, Turn
<1>3. Target = own
  BY <1>1, Queries
<1>4. ASSUME NEW w \in SUBSET (1 .. N)
      PROVE  Conjecture(w) <=> w \in own
  BY <1>1, <1>3 DEF Counterexamples
<1>5. LearnsItsTarget'
  BY <1>1, <1>4 DEF LearnsItsTarget, Conjecture
<1> QED BY <1>2, <1>5 DEF IInv

LEMMA InvFirst == \A v : IInv /\ First(v) => IInv'
<1> SUFFICES ASSUME NEW v, IInv, First(v) PROVE IInv'
  OBVIOUS
<1>1. /\ phase = "first" /\ v \in Counterexamples /\ bases' = AddBasis(v) /\ phase' = "ask"
      /\ UNCHANGED <<session, named, info, own, mode, n, ce, todo, at>>
  BY DEF First
<1>2. bases = <<>> /\ todo = {} /\ (mode \in {"PlusPlus", "Plus3"} => n = 1)
  BY <1>1 DEF IInv, SizeInv, TurnInv
<1>3. v \in SUBSET (1 .. n) /\ Begins(Outside(own), v, n)
  <2>1. Conjecture(v)
    BY <1>2 DEF Conjecture
  <2> QED BY <1>1, <2>1, CounterexampleKind
<1>4. bases' \in Seq(Basis(n)) /\ BasesInv'
  BY <1>1, <1>2, <1>3, AddSound
<1>5. TypeOK'
  BY <1>1, <1>2, <1>4, TypeAgain DEF IInv, TypeOK
<1>6. SessionInv' /\ SizeInv' /\ TurnInv' /\ NeverGivesUp' /\ LearnsItsTarget'
  BY <1>1, <1>2 DEF IInv, SessionInv, SizeInv, TurnInv, NeverGivesUp, LearnsItsTarget
<1> QED BY <1>4, <1>5, <1>6 DEF IInv

(* A counterexample that bases reject is a member; the walk begins there.  *)
LEMMA InvAskFix ==
  ASSUME IInv, NEW v, Ask(v), ToModify(v) # {}
  PROVE  IInv'
<1>1. /\ phase = "ask" /\ v \in Counterexamples
      /\ ce' = v /\ at' = v /\ todo' = ToModify(v) /\ phase' = "fix"
      /\ UNCHANGED <<bases, n, session, named, info, own, mode>>
  BY DEF Ask
<1>2. v \in SUBSET (1 .. n) /\ Begins(own, v, n)
  BY <1>1, CounterexampleKind, ModifyNothing
<1>3. TypeOK'
  <2>1. todo' \subseteq DOMAIN bases'
    BY <1>1 DEF ToModify
  <2> QED BY <1>1, <1>2, <2>1, TypeAgain DEF IInv, TypeOK, Basis
<1>4. SessionInv' /\ SizeInv' /\ BasesInv' /\ NeverGivesUp' /\ LearnsItsTarget'
  BY <1>1 DEF IInv, SessionInv, SizeInv, BasesInv, NeverGivesUp, LearnsItsTarget
<1>5. TurnInv'
  <2>1. \A i \in todo' : ~EvalMDNF(bases'[i].H, ce')
    BY <1>1 DEF ToModify
  <2> QED BY <1>1, <1>2, <2>1 DEF TurnInv
<1> QED BY <1>3, <1>4, <1>5 DEF IInv

(* One that none rejects is not; it becomes a basis, or variables are      *)
(* added: then some completion of it is a member after all.                *)
LEMMA InvAskAdd ==
  ASSUME IInv, NEW v, Ask(v), ToModify(v) = {}
  PROVE  IInv'
<1>1. /\ phase = "ask" /\ v \in Counterexamples
      /\ IF mode = "Plus3" /\ Member(v, n) THEN Refine
         ELSE bases' = AddBasis(v) /\ UNCHANGED <<n, phase>>
      /\ UNCHANGED <<session, named, info, own, mode, ce, todo, at>>
  BY DEF Ask
<1>2. v \in SUBSET (1 .. n) /\ Begins(Outside(own), v, n)
  BY <1>1, CounterexampleKind, ModifyNothing
<1>3. Member(v, n) <=> Begins(own, v, n)
  BY <1>1, Queries
<1>4. todo = {} /\ n \in 1 .. N /\ (mode = "CDNF" => n = N)
  BY <1>1 DEF IInv, TurnInv, SizeInv
<1>5. CASE mode = "Plus3" /\ Member(v, n)
  <2>1. n # N
    BY <1>2, <1>3, <1>5, NoConflictAtTheEnd
  <2>2. n' = n + 1 /\ phase' = "ask" /\ bases' \in Seq(Basis(n')) /\ BasesInv'
    BY <1>1, <1>5, <2>1, RefineSound
  <2>3. n' \in 1 .. N /\ ce' \subseteq 1 .. n' /\ at' \subseteq 1 .. n'
    BY <1>1, <2>1, <2>2, Types
  <2>4. TypeOK'
    <3>1. n' \in 0 .. N
      BY <2>3
    <3> QED BY <1>1, <1>4, <2>2, <2>3, <3>1, TypeAgain DEF IInv, TypeOK
  <2>5. SessionInv' /\ SizeInv' /\ TurnInv' /\ NeverGivesUp' /\ LearnsItsTarget'
    BY <1>1, <1>4, <1>5, <2>2, <2>3
       DEF IInv, SessionInv, SizeInv, TurnInv, NeverGivesUp, LearnsItsTarget
  <2> QED BY <2>2, <2>4, <2>5 DEF IInv
<1>6. CASE ~(mode = "Plus3" /\ Member(v, n))
  <2>1. bases' = AddBasis(v) /\ UNCHANGED <<n, phase>>
    BY <1>1, <1>6
  <2>2. \A i \in DOMAIN bases : bases[i].T # {}
    <3> SUFFICES ASSUME NEW i \in DOMAIN bases, bases[i].T = {} PROVE FALSE
      OBVIOUS
    <3>1. bases[i].H = {}
      BY BasisParts DEF Sound
    <3>2. ~EvalMDNF(bases[i].H, v)
      BY <3>1, NothingSatisfies
    <3> QED BY <3>2 DEF ToModify
  <2>3. bases' \in Seq(Basis(n)) /\ BasesInv' /\ DOMAIN bases \subseteq DOMAIN bases'
    BY <1>1, <1>2, <1>3, <1>6, <2>1, <2>2, AddSound
  <2>4. TypeOK'
    BY <1>1, <1>4, <2>1, <2>3, TypeAgain DEF IInv, TypeOK
  <2>5. SessionInv' /\ SizeInv' /\ TurnInv' /\ NeverGivesUp' /\ LearnsItsTarget'
    BY <1>1, <1>4, <2>1
       DEF IInv, SessionInv, SizeInv, TurnInv, NeverGivesUp, LearnsItsTarget
  <2> QED BY <2>3, <2>4, <2>5 DEF IInv
<1> QED BY <1>5, <1>6

(* The basis whose turn it is.                                             *)
LEMMA TurnParts ==
  ASSUME IInv, phase = "fix"
  PROVE  /\ Turn \in todo /\ Turn \in DOMAIN bases
         /\ bases[Turn] \in Basis(n) /\ bases[Turn].a \in SUBSET (1 .. n)
         /\ Sound(bases[Turn], n, own)
         /\ Begins(own, ce, n) /\ Begins(own, at, n)
         /\ Xor(at, bases[Turn].a) \subseteq Xor(ce, bases[Turn].a)
         /\ ~EvalMDNF(bases[Turn].H, ce)
<1>1. Turn \in todo
  BY Types, MinProps DEF IInv, TurnInv, Turn
<1> QED BY <1>1, Types, BasisParts DEF IInv, TurnInv

LEMMA InvWalk == IInv /\ Walk => IInv'
<1> SUFFICES ASSUME IInv, Walk PROVE IInv'
  OBVIOUS
<1> DEFINE a == bases[Turn].a
           j == Max(Flippable)
<1>1. /\ phase = "fix" /\ Flippable # {} /\ at' = Xor(at, {j})
      /\ UNCHANGED <<session, named, info, own, mode, n, bases, ce, todo, phase>>
  BY DEF Walk
<1>2. a \in SUBSET (1 .. n) /\ at \in SUBSET (1 .. n) /\ n \in Nat
  BY <1>1, TurnParts, Types
<1>3. Flippable \in SUBSET (0 .. n)
  <2>1. Xor(at, a) \in SUBSET (1 .. n)
    BY <1>2 DEF Xor
  <2>2. 1 .. n \subseteq 0 .. n
    BY <1>2
  <2> QED BY <2>1, <2>2 DEF Flippable
<1>4. j \in Flippable
  BY <1>1, <1>2, <1>3, MaxProps
<1>5. j \in Xor(at, a) /\ Begins(own, at', n)
  BY <1>1, <1>4, Queries DEF Flippable
<1>6. at' \subseteq 1 .. n
  BY <1>2, <1>5, BeginsType
<1>7. Xor(at', a) \subseteq Xor(ce, a)
  <2>1. Xor(at', a) = Xor(at, a) \ {j}
    BY <1>1, <1>5, WalkCloser
  <2> QED BY <1>1, <2>1, TurnParts
<1>8. TypeOK'
  BY <1>1, <1>6, TypeAgain DEF IInv, TypeOK, Basis
<1>9. SessionInv' /\ SizeInv' /\ BasesInv' /\ NeverGivesUp' /\ LearnsItsTarget'
  BY <1>1 DEF IInv, SessionInv, SizeInv, BasesInv, NeverGivesUp, LearnsItsTarget
<1>10. TurnInv'
  <2>1. Turn' = Turn
    BY <1>1 DEF Turn
  <2>2. Xor(at', bases'[Turn'].a) \subseteq Xor(ce', bases'[Turn'].a)
    BY <1>1, <1>7, <2>1
  <2>3. \A i \in todo' : ~EvalMDNF(bases'[i].H, ce')
    BY <1>1 DEF IInv, TurnInv
  <2>4. Begins(own', ce', n') /\ Begins(own', at', n')
    BY <1>1, <1>5, TurnParts
  <2> QED BY <1>1, <2>2, <2>3, <2>4 DEF IInv, TurnInv
<1> QED BY <1>8, <1>9, <1>10 DEF IInv

(* A correction gives the basis a support it did not have.                 *)
LEMMA NewSupport ==
  ASSUME IInv, phase = "fix"
  PROVE  at \notin bases[Turn].T
<1> DEFINE a == bases[Turn].a
<1>1. n \in Nat /\ a \in SUBSET (1 .. n) /\ at \in SUBSET (1 .. n) /\ ce \in SUBSET (1 .. n)
  BY TurnParts, Types
<1>2. Satisfies(ce, Monomial(at, a))
  BY <1>1, TurnParts, WalkSatisfies
<1>3. Monomial(at, a) \notin bases[Turn].H
  BY <1>2, TurnParts DEF EvalMDNF
<1> QED BY <1>3, TurnParts DEF Sound

LEMMA FixBases ==
  ASSUME IInv, Fix
  PROVE  /\ bases' \in Seq(Basis(n)) /\ DOMAIN bases' = DOMAIN bases /\ Len(bases') = Len(bases)
         /\ \A i \in DOMAIN bases : i # Turn => bases'[i] = bases[i]
         /\ bases'[Turn].a = bases[Turn].a
         /\ bases'[Turn].T = bases[Turn].T \cup {at}
         /\ Sound(bases'[Turn], n, own)
<1> DEFINE i == Turn
           B == [a |-> bases[i].a, T |-> bases[i].T \cup {at},
                 H |-> bases[i].H \cup {Monomial(at, bases[i].a)}]
<1>1. /\ phase = "fix" /\ at # bases[i].a
      /\ bases' = [bases EXCEPT ![i].T = @ \cup {at}, ![i].H = @ \cup {Monomial(at, bases[i].a)}]
  BY DEF Fix
<1>2. /\ i \in DOMAIN bases /\ bases[i] \in Basis(n) /\ bases[i].a \in SUBSET (1 .. n)
      /\ Sound(bases[i], n, own) /\ Begins(own, at, n)
  BY <1>1, TurnParts
<1>3. n \in Nat /\ bases \in Seq(Basis(n)) /\ at \in SUBSET (1 .. n)
  BY Types
<1>4. Monomial(at, bases[i].a) \in SUBSET ((-n) .. n)
  BY <1>2, <1>3, MonomialType
<1>5. B \in Basis(n)
  BY <1>2, <1>3, <1>4 DEF Basis
<1>6. Sound(B, n, own)
  <2>1. B.H = {Monomial(v, B.a) : v \in B.T}
    BY <1>2 DEF Sound
  <2>2. B.a \notin B.T /\ Begins(Outside(own), B.a, n) /\ \A v \in B.T : Begins(own, v, n)
    BY <1>1, <1>2 DEF Sound
  <2> QED BY <1>5, <2>1, <2>2 DEF Sound
<1>7. [[bases[i] EXCEPT !.T = @ \cup {at}] EXCEPT !.H = @ \cup {Monomial(at, bases[i].a)}] = B
  <2>1. bases[i] = [a |-> bases[i].a, T |-> bases[i].T, H |-> bases[i].H]
    BY <1>2 DEF Basis
  <2>2. PICK a, T, H : bases[i] = [a |-> a, T |-> T, H |-> H]
    BY <2>1
  <2>3. bases[i].a = a /\ bases[i].T = T /\ bases[i].H = H
    BY <2>2
  <2> DEFINE M == Monomial(at, bases[i].a)
  <2> HIDE DEF M
  <2>4. [bases[i] EXCEPT !.T = @ \cup {at}] = [a |-> a, T |-> T \cup {at}, H |-> H]
    BY <2>2
  <2>5. [[a |-> a, T |-> T \cup {at}, H |-> H] EXCEPT !.H = @ \cup {M}]
          = [a |-> a, T |-> T \cup {at}, H |-> H \cup {M}]
    OBVIOUS
  <2> QED BY <2>3, <2>4, <2>5 DEF M
<1>8. bases' = [bases EXCEPT ![i] = B]
  BY <1>1, <1>2, <1>3, <1>7
<1>9. B.a = bases[i].a /\ B.T = bases[i].T \cup {at}
  OBVIOUS
<1> HIDE DEF i, B
<1>10. /\ bases' \in Seq(Basis(n)) /\ DOMAIN bases' = DOMAIN bases /\ Len(bases') = Len(bases)
       /\ bases'[i] = B
       /\ \A j \in DOMAIN bases : j # i => bases'[j] = bases[j]
  BY <1>2, <1>3, <1>5, <1>8
<1> QED BY <1>6, <1>9, <1>10 DEF i

LEMMA InvFix == IInv /\ Fix => IInv'
<1> SUFFICES ASSUME IInv, Fix PROVE IInv'
  OBVIOUS
<1>1. /\ phase = "fix" /\ Flippable = {} /\ at # bases[Turn].a
      /\ todo' = todo \ {Turn} /\ phase' = IF todo' = {} THEN "ask" ELSE "fix"
      /\ at' = ce /\ UNCHANGED <<session, named, info, own, mode, n, ce>>
  BY DEF Fix
<1>2. /\ bases' \in Seq(Basis(n)) /\ DOMAIN bases' = DOMAIN bases /\ Len(bases') = Len(bases)
      /\ \A i \in DOMAIN bases : i # Turn => bases'[i] = bases[i]
      /\ bases'[Turn].a = bases[Turn].a
      /\ bases'[Turn].T = bases[Turn].T \cup {at}
      /\ Sound(bases'[Turn], n, own)
  BY FixBases
<1>3. todo \subseteq DOMAIN bases /\ Turn \in DOMAIN bases /\ Begins(own, ce, n)
  BY <1>1, TurnParts, Types
<1>4. TypeOK'
  <2>1. todo' \subseteq DOMAIN bases' /\ phase' \in {"ask", "fix"}
    BY <1>1, <1>2, <1>3
  <2> QED BY <1>1, <1>2, <2>1, TypeAgain DEF IInv, TypeOK
<1>5. SessionInv' /\ SizeInv' /\ NeverGivesUp' /\ LearnsItsTarget'
  BY <1>1 DEF IInv, SessionInv, SizeInv, NeverGivesUp, LearnsItsTarget
<1>6. BasesInv'
  <2>1. ASSUME NEW i \in DOMAIN bases'
        PROVE  /\ Sound(bases'[i], n, own)
               /\ bases'[i].T = {} => i = Len(bases')
               /\ mode = "Plus3" =>
                    \/ ~Begins(own, bases'[i].a, n)
                    \/ n = 1 /\ Len(bases') = 1 /\ bases'[i].T = {}
    <3>1. CASE i # Turn
      BY <1>2, <3>1 DEF IInv, BasesInv
    <3>2. CASE i = Turn
      <4>1. bases'[i].T # {} /\ bases'[i].a = bases[Turn].a
        BY <1>2, <3>2
      <4>2. mode = "Plus3" => ~Begins(own, bases[Turn].a, n)
        <5> SUFFICES ASSUME n = 1, Begins(own, bases[Turn].a, n) PROVE FALSE
          BY <1>3 DEF IInv, BasesInv
        <5>1. at \in SUBSET {1} /\ bases[Turn].a \in SUBSET {1} /\ at # bases[Turn].a
          <6>1. 1 .. n = {1}
            OBVIOUS
          <6> QED BY <1>1, <6>1, TurnParts, Types
        <5>2. Xor(at, bases[Turn].a) = {1} /\ Xor(at, {1}) = bases[Turn].a
          <6>1. \/ at = {} /\ bases[Turn].a = {1}
                \/ at = {1} /\ bases[Turn].a = {}
            <7>1. \A x \in SUBSET {1} : x = {} \/ x = {1}
              <8> TAKE x \in SUBSET {1}
              <8>1. CASE 1 \in x
                BY <8>1
              <8>2. CASE 1 \notin x
                BY <8>2
              <8> QED BY <8>1, <8>2
            <7>2. at = {} \/ at = {1}
              BY <5>1, <7>1
            <7>3. bases[Turn].a = {} \/ bases[Turn].a = {1}
              BY <5>1, <7>1
            <7> QED BY <1>1, <7>2, <7>3
          <6>2. /\ Xor({}, {1}) = {1} /\ Xor({1}, {}) = {1}
                /\ Xor({1}, {1}) = {}
            BY DEF Xor
          <6> QED BY <6>1, <6>2
        <5>3. Member(Xor(at, {1}), n)
          BY <1>1, <5>2, Queries
        <5>4. 1 \in Flippable
          BY <5>2, <5>3 DEF Flippable
        <5> QED BY <1>1, <5>4
      <4> QED BY <1>2, <3>2, <4>1, <4>2
    <3> QED BY <3>1, <3>2
  <2> QED BY <1>1, <2>1 DEF BasesInv
<1>7. TurnInv'
  <2>1. \A i \in todo' : ~EvalMDNF(bases'[i].H, ce')
    <3>1. ASSUME NEW i \in todo' PROVE ~EvalMDNF(bases'[i].H, ce')
      <4>1. i \in todo /\ i # Turn /\ bases'[i] = bases[i]
        BY <1>1, <1>2, <1>3
      <4> QED BY <1>1, <4>1 DEF IInv, TurnInv
    <3> QED BY <3>1
  <2>2. (phase = "fix" <=> todo # {})'
    BY <1>1
  <2> QED BY <1>1, <1>3, <2>1, <2>2 DEF TurnInv
<1> QED BY <1>4, <1>5, <1>6, <1>7 DEF IInv

(* A conflict with some completion of the basis: there are more variables. *)
LEMMA InvConflict == IInv /\ Conflict => IInv'
<1> SUFFICES ASSUME IInv, Conflict PROVE IInv'
  OBVIOUS
<1>1. /\ phase = "fix" /\ at = bases[Turn].a /\ todo' = {} /\ ce' = {} /\ at' = {}
      /\ UNCHANGED <<session, named, info, own, mode>>
  BY DEF Conflict
<1>2. n # N
  <2>1. Begins(own, at, n) /\ Begins(Outside(own), at, n)
    BY <1>1, TurnParts DEF Sound
  <2> QED BY <2>1, NoConflictAtTheEnd
<1>3. mode # "CDNF" /\ n \in 1 .. N
  BY <1>1, <1>2 DEF IInv, SizeInv
<1>4. n + 1 \in 1 .. N /\ n + 1 \in 0 .. N
  BY <1>2, <1>3, Types
<1>5. CASE mode \in {"PlusPlus", "Plus3"} /\ Refine
  <2>1. n' = n + 1 /\ phase' = "ask" /\ bases' \in Seq(Basis(n')) /\ BasesInv'
    BY <1>1, <1>2, <1>5, RefineSound
  <2>2. TypeOK'
    BY <1>1, <1>4, <2>1, TypeAgain DEF IInv, TypeOK
  <2>3. SessionInv' /\ SizeInv' /\ TurnInv' /\ NeverGivesUp' /\ LearnsItsTarget'
    BY <1>1, <1>3, <1>4, <2>1
       DEF IInv, SessionInv, SizeInv, TurnInv, NeverGivesUp, LearnsItsTarget
  <2> QED BY <2>1, <2>2, <2>3 DEF IInv
<1>6. CASE mode = "Plus" /\ Restart
  <2>1. n' = n + 1 /\ phase' = "first" /\ bases' = <<>>
    BY <1>2, <1>6 DEF Restart
  <2>2. TypeOK'
    <3>1. bases' \in Seq(Basis(n'))
      BY <2>1
    <3> QED BY <1>1, <1>4, <2>1, <3>1, TypeAgain DEF IInv, TypeOK
  <2>3. SessionInv' /\ SizeInv' /\ TurnInv' /\ NeverGivesUp' /\ LearnsItsTarget'
    BY <1>1, <1>3, <1>4, <1>6, <2>1
       DEF IInv, SessionInv, SizeInv, TurnInv, NeverGivesUp, LearnsItsTarget
  <2>4. BasesInv'
    BY <2>1 DEF BasesInv
  <2> QED BY <2>2, <2>3, <2>4 DEF IInv
<1> QED BY <1>3, <1>5, <1>6 DEF Conflict

LEMMA InvSame == IInv /\ UNCHANGED vars => IInv'
  BY DEF IInv, vars, TypeOK, SessionInv, SizeInv, BasesInv, TurnInv, Turn, NeverGivesUp,
         LearnsItsTarget, Conjecture

LEMMA InvNext == IInv /\ [Next]_vars => IInv'
<1> SUFFICES ASSUME IInv, [Next]_vars PROVE IInv'
  OBVIOUS
<1>1. ASSUME NEW v, Ask(v) PROVE IInv'
  BY <1>1, InvAskFix, InvAskAdd
<1> QED BY <1>1, InvGo, InvNested, InvEqual, InvFirst, InvWalk, InvFix, InvConflict, InvSame
        DEF Next, Over

-----------------------------------------------------------------------------
(* The invariant the rest follows from.                                    *)
THEOREM Invariance == Spec => []IInv
  BY InvInit, InvNext, PTL DEF Spec

(* The types hold; each support is a member, some completion of each basis *)
(* falsifies; the assertions of refine_bases and rebuild_disjunctions hold.*)
THEOREM LearnerCorrect == Spec => []LearnerInv
<1>1. IInv => LearnerInv
  <2> SUFFICES ASSUME IInv PROVE LearnerInv
    OBVIOUS
  <2>1. TypeOK
    BY DEF IInv
  <2>2. bases # <<>> => phase # "idle"
    BY DEF IInv, SizeInv
  <2>3. ASSUME NEW i \in DOMAIN bases
        PROVE  /\ \A v \in bases[i].T : Member(v, n)
               /\ Comember(bases[i].a, n)
               /\ bases[i].T = {} => i = Len(bases)
               /\ bases[i].a \notin bases[i].T
    <3>1. bases # <<>>
      OBVIOUS
    <3> QED BY <2>2, <3>1, BasisParts, Queries DEF IInv, BasesInv, Sound
  <2> QED BY <2>1, <2>3 DEF LearnerInv, BasesSound, AssertionsHold
<1> QED BY <1>1, Invariance, PTL

(* Each learner that returns a formula returns the function its caller     *)
(* meant, whatever sessions its callbacks ran.                             *)
THEOREM LearnsTheTarget == Spec => []LearnsItsTarget
<1>1. IInv => LearnsItsTarget
  BY DEF IInv
<1> QED BY <1>1, Invariance, PTL

(* No learner gives up on a conflict, and none asks the teacher for a      *)
(* variable the target does not have.                                      *)
THEOREM NoLearnerGivesUp == Spec => []NeverGivesUp
<1>1. IInv => NeverGivesUp
  BY DEF IInv
<1> QED BY <1>1, Invariance, PTL

(* Each correction adds a support its basis did not have.                  *)
THEOREM CorrectionsCount == Spec => EveryFixCounts
<1> DEFINE Counts ==
      phase = "fix" /\ phase' \in {"fix", "ask"} /\ todo' # todo /\ n' = n
        => bases[Turn].T \subseteq bases'[Turn].T /\ bases[Turn].T # bases'[Turn].T
<1>1. IInv /\ [Next]_vars => [Counts]_vars
  <2> SUFFICES ASSUME IInv, Next, phase = "fix", phase' \in {"fix", "ask"}, todo' # todo, n' = n
               PROVE  bases[Turn].T \subseteq bases'[Turn].T /\ bases[Turn].T # bases'[Turn].T
    OBVIOUS
  <2>1. CASE Fix
    BY <2>1, FixBases, NewSupport
  <2>2. CASE Conflict
    <3>1. n + 1 # n
      BY Types
    <3> QED BY <2>2, <3>1 DEF Conflict, Refine, Restart
  <2>3. Fix \/ Conflict
    BY DEF Next, Go, Nested, Equal, First, Ask, Walk, Over, vars
  <2> QED BY <2>1, <2>2, <2>3
<1> QED BY <1>1, Invariance, PTL DEF Spec, EveryFixCounts

=============================================================================
