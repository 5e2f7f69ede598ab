---------------------------- MODULE MinisatOracle ----------------------------
(***************************************************************************)
(* Queries about Boolean formulas put to MiniSat (oracle.ml), through the  *)
(* stubs of minisat_stubs.cc.                                              *)
(*                                                                         *)
(* A formula becomes clauses with one solver variable for each subformula. *)
(* Only the variables of the formula itself are decision variables: the    *)
(* solver answers "satisfiable" as soon as these have values that lead to  *)
(* no conflict, whatever the others are.  So a query is answered right     *)
(* only if unit propagation carries the values of the decision variables   *)
(* through the whole encoding.                                             *)
(*                                                                         *)
(* The solver itself is vendored.  Of its search the model keeps what the  *)
(* answer depends on: decisions, propagation, conflicts and assumptions;   *)
(* learnt clauses follow from the others.  Which model it finds is open.   *)
(***************************************************************************)
EXTENDS Integers, Sequences, FiniteSets, SequencesExt

CONSTANTS
  NVars,     \* the variables of the formulas are 1 .. NVars
  Formulas   \* the formulas asked about

(* A formula is a literal (a signed variable), or a connective with its    *)
(* arguments.                                                              *)
Lit(l) == [op |-> "Lit", lit |-> l, args |-> <<>>]
Op(o, as) == [op |-> o, lit |-> 0, args |-> as]
IsPositive(l) == l > 0
OfVar(l) == IF l > 0 THEN l ELSE -l

ASSUME NVarsAssumption == NVars \in Nat

VARIABLES
  query,     \* what is asked: its kind, the formulas, the values given
  nvars,     \* how many variables the solver has, numbered from 0
  decision,  \* those it may decide on
  clauses,   \* sets of solver literals
  dvars,     \* the solver's variable for each of the formula's, and for 0
  todo,      \* formulas still to be encoded
  outs,      \* the variables that stand for the encoded formulas
  work,      \* calls of helper still to be made, each for a formula and its variable
  model,     \* the solver's model, empty without one
  result,    \* the answer, an option: no or one assignment
  phase

vars == <<query, nvars, decision, clauses, dvars, todo, outs, work, model, result, phase>>

-----------------------------------------------------------------------------
(* The solver.                                                             *)

\* mkLit, toInt: the sign is the last bit.
Pos(v) == 2 * v
Neg(v) == 2 * v + 1
Negated(l) == IF l % 2 = 0 THEN l + 1 ELSE l - 1

NewVars(k) == nvars .. (nvars + k - 1)
AddVars(k) == nvars' = nvars + k

\* What propagation adds to the literals of a trail.
Units(trail) ==
  {l \in UNION clauses :
     \E c \in clauses : l \in c /\ \A m \in c \ {l} : Negated(m) \in trail}
RECURSIVE Propagate(_)
Propagate(trail) ==
  IF Units(trail) \subseteq trail THEN trail ELSE Propagate(trail \cup Units(trail))
HasConflict(trail) == \E l \in trail : Negated(l) \in trail

Decided(s) == {IF s[v] THEN Pos(v) ELSE Neg(v) : v \in decision}
\* All decision variables have values that agree with the assumptions.
Trails(assumptions) ==
  {t \in {Propagate(Decided(s)) :
            s \in {d \in [decision -> BOOLEAN] : assumptions \subseteq Decided(d)}} :
     ~HasConflict(t)}
ModelOf(trail) ==
  [v \in 0 .. (nvars - 1) |->
     IF Pos(v) \in trail THEN "TRUE" ELSE IF Neg(v) \in trail THEN "FALSE" ELSE "UNKNOWN"]

-----------------------------------------------------------------------------
(* The encoding.  One argument or none is not a case of its own: the       *)
(* clauses the code writes for them are the same.                          *)

MakeConj(ins, out) ==
  {{Pos(out)} \cup {Neg(v) : v \in Range(ins)}} \cup {{Neg(out), Pos(v)} : v \in Range(ins)}

(* Broken: only one direction of the equivalence. *)
HalfMakeDisj(ins, out) == {{Neg(out)} \cup {Pos(v) : v \in Range(ins)}}

MakeDisj(ins, out) ==
  {{Neg(out)} \cup {Pos(v) : v \in Range(ins)}} \cup {{Pos(out), Neg(v)} : v \in Range(ins)}

MakeNeg(v, out) == {{Pos(v), Pos(out)}, {Neg(v), Neg(out)}}
MakeIff(v, out) == {{Pos(v), Neg(out)}, {Pos(out), Neg(v)}}
MakeLit(v, pos, out) == IF pos THEN MakeIff(v, out) ELSE MakeNeg(v, out)

Gate(f, ins, out) ==
  CASE f.op = "Lit" -> MakeLit(dvars[OfVar(f.lit)], IsPositive(f.lit), out)
    [] f.op = "Not" -> MakeNeg(ins[1], out)
    [] f.op = "And" -> MakeConj(ins, out)
    [] f.op = "Or" -> MakeDisj(ins, out)

-----------------------------------------------------------------------------
\* The values of the variables 0 .. k; entry 0 stands for none.
Assignments(k) == {a \in [0 .. k -> BOOLEAN] : k >= 0 => ~a[0]}

Queries ==
  [kind : {"sat"}, fs : {<<f>> : f \in Formulas}, given : Assignments(-1)]
  \cup [kind : {"assume"}, fs : {<<f>> : f \in Formulas},
        given : UNION {Assignments(k) : k \in -1 .. NVars}]
  \cup [kind : {"equivalent"}, fs : {<<f, g>> : f \in Formulas, g \in Formulas},
        given : Assignments(-1)]

Init ==
  /\ query \in Queries
  /\ nvars = 0 /\ decision = {} /\ clauses = {} /\ dvars = <<>>
  /\ todo = <<>> /\ outs = <<>> /\ work = <<>>
  /\ model = <<>> /\ result = {}
  /\ phase = "new"

\* create_dvars on a new solver: one variable more than the formulas have.
CreateDvars ==
  /\ phase = "new"
  /\ dvars' = [i \in 0 .. NVars |-> nvars + i]
  /\ AddVars(NVars + 1)
  /\ decision' = decision \cup NewVars(NVars + 1)
  /\ todo' = query.fs
  /\ phase' = "encode"
  /\ UNCHANGED <<query, clauses, outs, work, model, result>>

\* to_eq_sat: a variable for the whole formula.
ToEqSat ==
  /\ phase = "encode" /\ work = <<>> /\ todo # <<>>
  /\ AddVars(1)
  /\ outs' = Append(outs, nvars)
  /\ work' = <<[f |-> Head(todo), out |-> nvars]>>
  /\ todo' = Tail(todo)
  /\ UNCHANGED <<query, decision, clauses, dvars, model, result, phase>>

\* One call of its helper: variables for the arguments, clauses, and the
\* calls for the arguments.
Helper ==
  /\ phase = "encode" /\ work # <<>>
  /\ LET f == Head(work).f
         k == Len(f.args)
         ins == [i \in 1 .. k |-> nvars + i - 1]
     IN  /\ AddVars(k)
         /\ clauses' = clauses \cup Gate(f, ins, Head(work).out)
         /\ work' = [i \in 1 .. k |-> [f |-> f.args[i], out |-> ins[i]]] \o Tail(work)
  /\ UNCHANGED <<query, decision, dvars, todo, outs, model, result, phase>>

Encoded == phase = "encode" /\ work = <<>> /\ todo = <<>>

\* The question: the formula holds, or the two differ.
Question ==
  IF query.kind = "equivalent"
  THEN {{Pos(outs[1]), Pos(outs[2])}, {Neg(outs[1]), Neg(outs[2])}}
  ELSE {{Pos(outs[1])}}
AddQuestion ==
  /\ Encoded
  /\ clauses' = clauses \cup Question
  /\ phase' = "solve"
  /\ UNCHANGED <<query, nvars, decision, dvars, todo, outs, work, model, result>>

\* assignment_to_lits, for the values that were given.
(* Broken: all given values are assumed true. *)
BareAssumptions == {Pos(dvars[i]) : i \in DOMAIN query.given}

Assumptions == {IF query.given[i] THEN Pos(dvars[i]) ELSE Neg(dvars[i]) : i \in DOMAIN query.given}

Solve ==
  /\ phase = "solve"
  /\ IF Trails(Assumptions) = {}
     THEN model' = <<>> /\ phase' = "done"
     ELSE /\ \E t \in Trails(Assumptions) : model' = ModelOf(t)
          /\ phase' = "read"
  /\ UNCHANGED <<query, nvars, decision, clauses, dvars, todo, outs, work, result>>

\* get_assignment: an unknown value is read as false.
Witness(v) == model[v] = "TRUE"
GetAssignment ==
  /\ phase = "read"
  /\ result' = {[i \in 0 .. NVars |-> i # 0 /\ Witness(dvars[i])]}
  /\ phase' = "done"
  /\ UNCHANGED <<query, nvars, decision, clauses, dvars, todo, outs, work, model>>

\* Nobody reads the solver after that: the collector deletes it.
Dealloc ==
  /\ phase = "done"
  /\ nvars' = 0 /\ decision' = {} /\ clauses' = {} /\ model' = <<>>
  /\ dvars' = <<>> /\ outs' = <<>>
  /\ phase' = "gone"
  /\ UNCHANGED <<query, todo, work, result>>

\* Not part of the program: nothing happens after that.
Gone == phase = "gone" /\ UNCHANGED vars

Next == CreateDvars \/ ToEqSat \/ Helper \/ AddQuestion \/ Solve \/ GetAssignment \/ Dealloc \/ Gone

Spec == Init /\ [][Next]_vars

-----------------------------------------------------------------------------
(* What a formula means, written without the encoding.                     *)
RECURSIVE Eval(_, _)
Eval(f, a) ==
  CASE f.op = "Lit" -> a[OfVar(f.lit)] = IsPositive(f.lit)
    [] f.op = "Not" -> ~Eval(f.args[1], a)
    [] f.op = "And" -> \A i \in DOMAIN f.args : Eval(f.args[i], a)
    [] f.op = "Or" -> \E i \in DOMAIN f.args : Eval(f.args[i], a)

Wanted(a) ==
  /\ \A i \in DOMAIN query.given : a[i] = query.given[i]
  /\ IF query.kind = "equivalent"
     THEN Eval(query.fs[1], a) # Eval(query.fs[2], a)
     ELSE Eval(query.fs[1], a)

TypeOK ==
  /\ query \in Queries
  /\ nvars \in Nat
  /\ decision \subseteq 0 .. (nvars - 1)
  /\ UNION clauses \subseteq 0 .. (2 * nvars - 1)
  /\ \A i \in DOMAIN dvars : dvars[i] \in decision
  /\ \A i \in DOMAIN outs : outs[i] \in 0 .. (nvars - 1)
  /\ \A i \in DOMAIN work : work[i].out \in 0 .. (nvars - 1)
  /\ Range(model) \subseteq {"TRUE", "FALSE", "UNKNOWN"}
  /\ result \subseteq Assignments(NVars)
  /\ phase \in {"new", "encode", "solve", "read", "done", "gone"}

(* Once a query is encoded, values of the decision variables alone, by     *)
(* unit propagation, give every variable of the solver a value without a   *)
(* conflict, and each formula's variable the value the formula has: so the *)
(* solver may leave them all undecided (new_inferred_var).                 *)
OutputsDetermined ==
  Encoded =>
    \A a \in [0 .. NVars -> BOOLEAN] :
      LET t == Propagate({IF a[i] THEN Pos(dvars[i]) ELSE Neg(dvars[i]) : i \in 0 .. NVars})
      IN  /\ ~HasConflict(t)
          /\ \A v \in 0 .. (nvars - 1) : Pos(v) \in t \/ Neg(v) \in t
          /\ \A j \in DOMAIN outs :
               (Pos(outs[j]) \in t) = Eval(query.fs[j], a)

OracleInv == TypeOK /\ OutputsDetermined

(* The answer is right: None only if no assignment is as asked for (a      *)
(* model, one that extends the given values, one on which two formulas     *)
(* differ), and an assignment that is returned is one.                     *)
AnswersRight ==
  phase \in {"done", "gone"} =>
    IF result = {} THEN \A a \in Assignments(NVars) : ~Wanted(a)
    ELSE \A a \in result : Wanted(a)

=============================================================================
