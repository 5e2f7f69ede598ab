----------------------------- MODULE CdnfLearner -----------------------------
(***************************************************************************)
(* Exact learning of a Boolean function by queries (CDNF and its           *)
(* incremental variants), as OCaml calls it through cdnfp_stubs.c.         *)
(*                                                                         *)
(* An assignment to the variables 1 .. n is the set of those that are      *)
(* true; entry 0 of the arrays, which the conversions of the stubs set to  *)
(* false both ways, is left out.  The teacher is the one of oracle.ml and  *)
(* of the comment in cdnflearn.ml: the target has N variables, a query     *)
(* about fewer asks whether some completion satisfies, and a               *)
(* counterexample is cut down to the learner's variables.  Which           *)
(* counterexample it gives is left open.                                   *)
(*                                                                         *)
(* OCaml registers the callbacks of a session under names that end in the  *)
(* session's number; C looks them up at each query.  A callback may run a  *)
(* session of its own, of which only the registration matters here.        *)
(***************************************************************************)
EXTENDS Integers, Sequences, FiniteSetsExt

CONSTANTS
  N,           \* the variables of the target
  Targets,     \* the functions to learn, each the set of its models
  Modes,       \* the entry points in use
  MaxSession   \* bound: sessions started, nested ones included

ASSUME NAssumption == N \in Nat \ {0}
ASSUME TargetsAssumption == Targets \subseteq SUBSET (SUBSET (1 .. N))
ASSUME SessionAssumption == MaxSession \in Nat \ {0}
ASSUME ModesAssumption == Modes \subseteq {"CDNF", "Plus", "PlusPlus", "Plus3"}

VARIABLES
  session,     \* cdnfp.ml's counter
  named,       \* the table of Callback.register: the function each session asks about
  info,        \* the number in the names the running learner has copied
  own,         \* history: the target its caller meant
  mode,
  n,           \* num_vars
  bases,       \* each with its assignment a, its supports T and the monomials H
  ce,          \* the last counterexample
  todo,        \* indices of the bases it must still correct, in increasing order
  at,          \* where the walk from ce toward the first of these has come
  phase

vars == <<session, named, info, own, mode, n, bases, ce, todo, at, phase>>

-----------------------------------------------------------------------------
(* The teacher: three closures over one target.                            *)

\* An array of k + 1 entries made from a bit vector, or the other way round:
\* entry 0 becomes false, the others stand for the variables.
Passed(w, k) == w \cap (1 .. k)
Target == named[info]

\* is_member: oracle.ml asks whether the target is satisfiable below v.
Member(v, k) == \E w \in Target : Passed(w, k) = v
Comember(v, k) == \E w \in (SUBSET (1 .. N)) \ Target : Passed(w, k) = v

\* Literals are signed numbers, a monomial a set of them.
Satisfies(x, m) == \A l \in m : IF l > 0 THEN l \in x ELSE -l \notin x
EvalMDNF(H, x) == \E m \in H : Satisfies(x, m)
Conjecture(x) == \A i \in DOMAIN bases : EvalMDNF(bases[i].H, x)

\* is_equivalent: what it may return, EQ being the empty set of choices.
Counterexamples ==
  {Passed(w, n) : w \in {u \in SUBSET (1 .. N) : Conjecture(u) <=> u \notin Target}}

-----------------------------------------------------------------------------
(* The learner's helpers.                                                  *)

Xor(x, y) == (x \ y) \cup (y \ x)

\* The monomial of v + a, in the coordinates of x + a.
Monomial(v, a) == {IF i \in a THEN -i ELSE i : i \in Xor(v, a)}

\* The basis whose turn it is, and the variables in which the walk may move
\* toward it while the target holds.
Turn == Min(todo)
Flippable == {j \in Xor(at, bases[Turn].a) : Member(Xor(at, {j}), n)}

AddBasis(v) == Append(bases, [a |-> v, T |-> {}, H |-> {}])

(* Broken: every basis is corrected. *)
AllToModify(v) == DOMAIN bases

ToModify(v) == {i \in DOMAIN bases : ~EvalMDNF(bases[i].H, v)}

\* One more variable: a basis takes the value b, and each of its supports
\* the value that keeps it a member; disjunctions are rebuilt from them.
Extended(B) ==
  LET k == n + 1
      b == mode = "PlusPlus" /\ ~Comember(B.a, k)
      With(x, c) == IF c THEN x \cup {k} ELSE x
      a == With(B.a, b)
      T == {With(v, IF Member(With(v, b), k) THEN b ELSE ~b) : v \in B.T}
  IN  [a |-> a, T |-> T, H |-> {Monomial(v, a) : v \in T}]
Refined ==
  LET last == Len(bases)
      kept == IF last > 0 /\ bases[last].T = {} THEN last - 1 ELSE last
  IN  [i \in 1 .. kept |-> Extended(bases[i])]

-----------------------------------------------------------------------------
TypeOK ==
  /\ session \in 0 .. MaxSession
  /\ named \in [1 .. session -> Targets]
  /\ info \in 0 .. session
  /\ own \in Targets
  /\ mode \in Modes
  /\ n \in 0 .. N
  /\ bases \in Seq([a : SUBSET (1 .. n), T : SUBSET (SUBSET (1 .. n)),
                   H : SUBSET (SUBSET ((-n) .. n))])
  /\ ce \subseteq 1 .. n
  /\ todo \subseteq DOMAIN bases
  /\ at \subseteq 1 .. n
  /\ phase \in {"idle", "first", "ask", "fix", "done", "null", "raised"}

Init ==
  /\ session = 0
  /\ named = <<>>
  /\ info = 0
  /\ own \in Targets
  /\ mode \in Modes
  /\ n = 0
  /\ bases = <<>>
  /\ ce = {}
  /\ todo = {}
  /\ at = {}
  /\ phase = "idle"

(* Broken: the names do not carry the number of the session. *)
SharedRegister(f) == session' = session + 1 /\ named' = [i \in 1 .. session + 1 |-> f]

\* cdnfp.ml: count the session and register its closures under its number.
Register(f) == session' = session + 1 /\ named' = Append(named, f)

(* Broken: the incremental learners begin with two. *)
TwoToBegin == IF mode = "CDNF" THEN N ELSE 2

\* cdnflearn.ml: all variables at once, or one to begin with.
FirstSize == IF mode = "CDNF" THEN N ELSE 1

\* go, gox, goxx, goxxx through the stubs: the names are copied to C memory.
Go ==
  /\ phase = "idle"
  /\ Register(own)
  /\ info' = session + 1
  /\ n' = FirstSize
  /\ phase' = "first"
  /\ UNCHANGED <<own, mode, bases, ce, todo, at>>

\* A callback starts a session about some function and finishes it.
Nested ==
  /\ phase \in {"first", "ask", "fix"}
  /\ session < MaxSession
  /\ \E f \in Targets : Register(f)
  /\ UNCHANGED <<info, own, mode, n, bases, ce, todo, at, phase>>

\* A conflict, or Plus3 finding a member nobody rejects, adds a variable; past
\* the target's variables the teacher has no array cell for it and raises: the
\* exception leaves through the learner's frames.
Refine ==
  IF n = N
  THEN phase' = "raised" /\ UNCHANGED <<n, bases>>
  ELSE phase' = "ask" /\ n' = n + 1 /\ bases' = Refined

(* Broken: a fresh start with the same variables. *)
SameRestart == phase' = "first" /\ bases' = <<>> /\ UNCHANGED n

Restart ==
  IF n = N
  THEN phase' = "raised" /\ UNCHANGED <<n, bases>>
  ELSE phase' = "first" /\ n' = n + 1 /\ bases' = <<>>

Equal ==
  /\ phase \in {"first", "ask"}
  /\ Counterexamples = {}
  /\ phase' = "done"
  /\ UNCHANGED <<session, named, info, own, mode, n, bases, ce, todo, at>>

\* The answer to the first conjecture, true, makes the first basis.
First(v) ==
  /\ phase = "first"
  /\ v \in Counterexamples
  /\ bases' = AddBasis(v)
  /\ phase' = "ask"
  /\ UNCHANGED <<session, named, info, own, mode, n, ce, todo, at>>

\* No basis rejects v: a new one, or for Plus3 a conflict if v is a member.
Ask(v) ==
  /\ phase = "ask"
  /\ v \in Counterexamples
  /\ IF ToModify(v) # {}
     THEN /\ ce' = v
          /\ at' = v
          /\ todo' = ToModify(v)
          /\ phase' = "fix"
          /\ UNCHANGED <<bases, n>>
     ELSE /\ IF mode = "Plus3" /\ Member(v, n) THEN Refine
             ELSE bases' = AddBasis(v) /\ UNCHANGED <<n, phase>>
          /\ UNCHANGED <<ce, todo, at>>
  /\ UNCHANGED <<session, named, info, own, mode>>

\* From ce toward the basis, from the highest variable down, each success
\* starting again at the top: to the next flip that stays in the target.
Walk ==
  /\ phase = "fix"
  /\ Flippable # {}
  /\ at' = Xor(at, {Max(Flippable)})
  /\ UNCHANGED <<session, named, info, own, mode, n, bases, ce, todo, phase>>

\* The walk has ended: it corrects the basis with a new support ...
Fix ==
  LET a == bases[Turn].a
      left == todo \ {Turn}
  IN  /\ phase = "fix"
      /\ Flippable = {}
      /\ at # a
      /\ bases' = [bases EXCEPT ![Turn].T = @ \cup {at}, ![Turn].H = @ \cup {Monomial(at, a)}]
      /\ todo' = left
      /\ phase' = IF left = {} THEN "ask" ELSE "fix"
      /\ at' = ce
      /\ UNCHANGED <<session, named, info, own, mode, n, ce>>

\* ... or it has reached the basis itself: more variables, a fresh start with
\* more variables, or no answer.
Conflict ==
  /\ phase = "fix"
  /\ Flippable = {}
  /\ at = bases[Turn].a
  /\ todo' = {}
  /\ ce' = {}
  /\ at' = {}
  /\ \/ mode \in {"PlusPlus", "Plus3"} /\ Refine
     \/ mode = "Plus" /\ Restart
     \/ mode = "CDNF" /\ phase' = "null" /\ UNCHANGED <<n, bases>>
  /\ UNCHANGED <<session, named, info, own, mode>>

\* Not part of the program: a session that has ended stays so.
Over == phase \in {"done", "null", "raised"} /\ UNCHANGED vars

Next ==
  \/ Go \/ Nested \/ Equal
  \/ \E v \in SUBSET (1 .. N) : First(v) \/ Ask(v)
  \/ Walk \/ Fix \/ Conflict \/ Over

\* The learner runs on; a callback starts finitely many sessions (bound).
Spec == Init /\ [][Next]_vars /\ WF_vars(Next)

-----------------------------------------------------------------------------
(* The query results the bases are built from, also right after variables  *)
(* were added: each support is a member, and some completion of each basis *)
(* falsifies.  With all variables the walk from a member to a basis        *)
(* therefore stops before it gets there.                                   *)
BasesSound ==
  \A i \in DOMAIN bases :
    /\ \A v \in bases[i].T : Member(v, n)
    /\ Comember(bases[i].a, n)

(* Only the newest basis may be without supports (the assertion of         *)
(* refine_bases), and no support is its basis (that of rebuild_disjunctions). *)
AssertionsHold ==
  \A i \in DOMAIN bases :
    /\ bases[i].T = {} => i = Len(bases)
    /\ bases[i].a \notin bases[i].T

LearnerInv == TypeOK /\ BasesSound /\ AssertionsHold

(* Each learner returns the function its caller meant, even if sessions    *)
(* about other functions were run by its callbacks in the meantime.        *)
LearnsItsTarget == phase = "done" => \A w \in SUBSET (1 .. N) : Conjecture(w) <=> w \in own

(* Every correction adds a support its basis did not have: a               *)
(* counterexample is never used up without progress.                       *)
EveryFixCounts ==
  [][phase = "fix" /\ phase' \in {"fix", "ask"} /\ todo' # todo /\ n' = n
       => bases[Turn].T \subseteq bases'[Turn].T /\ bases[Turn].T # bases'[Turn].T]_vars

(* Every session ends with an answer, whatever counterexamples the teacher *)
(* picks: no learner gives up on a conflict (cdnflearn.ml asserts that     *)
(* Cdnfp.go does not), and none asks for more variables than there are.    *)
Ends == <>(phase = "done")

=============================================================================
