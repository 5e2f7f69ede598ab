------------------------------ MODULE ProverZ3 ------------------------------
(***************************************************************************)
(* The interface to the SMT solver: liquid/theoremProverZ3.ml behind       *)
(* liquid/theoremProver.ml, driven the way constraint.ml and the learners  *)
(* drive it.                                                               *)
(*                                                                         *)
(* One Z3 context serves every query of a run.  A path is translated to a  *)
(* Z3 constant once and remembered in a table (vart); the list me.vars     *)
(* remembers, between Barriers, which entries to forget when a scope is    *)
(* popped.  The context counts no references: what was built at a level of *)
(* Z3's own stack is freed when that level is popped.  So three stacks and *)
(* one table have to agree, or a hypothesis and a goal talk about          *)
(* different constants, or about freed ones.                               *)
(*                                                                         *)
(* A predicate is abstracted to the paths it mentions free, the paths it   *)
(* quantifies over, and which sets of predicates Z3 finds unsatisfiable.   *)
(***************************************************************************)
EXTENDS Naturals, Sequences

CONSTANTS
    Vars,           \* paths
    Preds,          \* predicates
    Free,           \* Free[p]: the paths p mentions outside its quantifiers
    Binders,        \* Binders[p]: the paths p quantifies over
    Neg,            \* Neg[p]: Not p
    Names,          \* names of Z3 constants ("z3v" and a number)
    Quantified,     \* a Bound entry of vart
    Contradicts(_)  \* is this set of predicates unsatisfiable?

ASSUME PredAssumption ==
    /\ Free \in [Preds -> SUBSET Vars] /\ Binders \in [Preds -> SUBSET Vars]
    /\ Neg \in [Preds -> Preds] /\ Quantified \notin Names

(* A quantifier never binds a path that is used free: bound paths are the  *)
(* u and v made for that purpose.  A Bound entry replaces a Const entry    *)
(* and outlives its quantifier, so the translation relies on it.           *)
ASSUME NamesApart ==
    \A p, q \in Preds : Free[p] \cap Binders[q] = {}

(* More facts are no less contradictory.                                   *)
ASSUME ContradictsMonotone ==
    \A S, T \in SUBSET Preds : S \subseteq T /\ Contradicts(S) => Contradicts(T)

VARIABLES
    memo,       \* me.vart: path -> constant, or Quantified
    sections,   \* me.vars cut at its Barriers, innermost last
    count,      \* me.count
    frames,     \* Z3's stack: what each level asserts, under which names
    alive,      \* the constants built at each level, the bottom level first
    pc,         \* where the client is
    held,       \* what the client has asserted and not yet withdrawn
    verdict     \* the last answer, and what the client asked

prover == <<memo, sections, count, frames, alive>>
vars == <<prover, pc, held, verdict>>

NoVerdict == [asked |-> {}, unsat |-> FALSE]

Elements(s) == {s[i] : i \in DOMAIN s}

Top(s) == s[Len(s)]
Front(s) == SubSeq(s, 1, Len(s) - 1)
AddTop(s, S) == [s EXCEPT ![Len(s)] = @ \cup S]

InUse == Elements(memo) \cup UNION Elements(alive)

(* fresh: a name of its own for each path of V.                            *)
FreshNames(V) ==
    {f \in [V -> Names \ InUse] : \A v, w \in V : f[v] = f[w] => v = w}

(* The table after p was translated, f being the names of new constants.   *)
Translated(p, f) ==
    [v \in DOMAIN memo \cup Free[p] \cup Binders[p] |->
        IF v \in Binders[p] THEN Quantified
        ELSE IF v \in DOMAIN f THEN f[v] ELSE memo[v]]

(* The declarations join the open section, a Barrier follows, and a new    *)
(* level of Z3 asserts the translation.                                    *)
Enter(p, f) ==
    /\ memo' = Translated(p, f)
    /\ sections' = Append(AddTop(sections, DOMAIN f \cup Binders[p]), {})
    /\ count' = count + 1
    /\ frames' = Append(frames,
           [pred |-> p, names |-> [v \in Free[p] |-> Translated(p, f)[v]]])

(* Broken: the scope of Z3 is opened before the predicate is translated.   *)
EagerPush(p) ==
    \E f \in FreshNames(Free[p] \ DOMAIN memo) :
        Enter(p, f) /\ alive' = Append(alive, Elements(f))

(* Broken: a path is translated anew although the table has it.            *)
AnewPush(p) ==
    \E f \in FreshNames(Free[p]) :
        Enter(p, f) /\ alive' = Append(AddTop(alive, Elements(f)), {})

(* push: p is translated at the level that is open, a path in the table as *)
(* the table says; only then a new level is opened.                        *)
Push(p) ==
    \E f \in FreshNames(Free[p] \ DOMAIN memo) :
        Enter(p, f) /\ alive' = Append(AddTop(alive, Elements(f)), {})

(* pop: forget what was declared since the last Barrier, close the level.  *)
Pop ==
    /\ count' = count - 1
    /\ memo' = [v \in DOMAIN memo \ Top(sections) |-> memo[v]]
    /\ sections' = Front(sections)
    /\ frames' = Front(frames)
    /\ alive' = Front(alive)

Asserted == {frames[i].pred : i \in DOMAIN frames}

(* Two levels of Z3's stack know a path by the same constant.              *)
SameNames ==
    \A i, j \in DOMAIN frames :
        \A v \in DOMAIN frames[i].names \cap DOMAIN frames[j].names :
            frames[i].names[v] = frames[j].names[v]

(* unsat: Z3 refutes what its stack asserts.  If a path went by two names  *)
(* the levels would say nothing about each other.                          *)
Unsat == SameNames /\ Contradicts(Asserted)

-----------------------------------------------------------------------------
Init ==
    /\ memo = [v \in {} |-> Quantified] /\ sections = <<{}>> /\ count = 0
    /\ frames = <<>> /\ alive = <<{}>>
    /\ pc = "idle" /\ held = <<>> /\ verdict = NoVerdict

(* implies p: the hypothesis is pushed at once, a closure is returned.     *)
Implies(p) ==
    /\ pc = "idle" /\ Push(p)
    /\ pc' = "open" /\ held' = <<p>> /\ verdict' = NoVerdict

(* implies_tp: the instances pattern_match found for the next goal.        *)
Wrap(w) ==
    /\ pc = "open" /\ Push(w)
    /\ pc' = "wrapped" /\ held' = Append(held, w) /\ verdict' = NoVerdict

Asked(q) == Elements(held) \cup {Neg[q]}

(* valid q, when what is held is refuted already.                          *)
Vacuous(q) ==
    /\ pc \in {"open", "wrapped"} /\ Unsat
    /\ verdict' = [asked |-> Asked(q), unsat |-> TRUE]
    /\ pc' = IF pc = "open" THEN "open" ELSE "told"
    /\ UNCHANGED <<prover, held>>

(* Broken: the goal itself is asserted, not its negation.                  *)
DeafAsk(q) ==
    /\ pc \in {"open", "wrapped"} /\ ~Unsat
    /\ Push(q)
    /\ verdict' = [asked |-> Asked(q), unsat |-> FALSE]
    /\ pc' = IF pc = "open" THEN "goal" ELSE "deepgoal"
    /\ UNCHANGED held

(* valid q, otherwise: Not q is pushed ...                                 *)
Ask(q) ==
    /\ pc \in {"open", "wrapped"} /\ ~Unsat
    /\ Push(Neg[q])
    /\ verdict' = [asked |-> Asked(q), unsat |-> FALSE]
    /\ pc' = IF pc = "open" THEN "goal" ELSE "deepgoal"
    /\ UNCHANGED held

(* ... checked, and popped.                                                *)
Answer ==
    /\ pc \in {"goal", "deepgoal"} /\ Pop
    /\ verdict' = [verdict EXCEPT !.unsat = Unsat]
    /\ pc' = IF pc = "goal" THEN "open" ELSE "told"
    /\ UNCHANGED held

(* Broken: the instances are withdrawn only after a goal that was proved.  *)
HastyUnwrap ==
    /\ pc = "told" /\ IF verdict.unsat THEN Pop ELSE UNCHANGED prover
    /\ pc' = "open" /\ held' = Front(held) /\ UNCHANGED verdict

(* implies_tp: the instances are withdrawn once the goal was decided.      *)
Unwrap ==
    /\ pc = "told" /\ Pop
    /\ pc' = "open" /\ held' = Front(held) /\ UNCHANGED verdict

(* finish: the hypothesis is withdrawn; the code asserts count = 0.        *)
Finish ==
    /\ pc = "open" /\ Pop
    /\ pc' = "idle" /\ held' = <<>> /\ UNCHANGED verdict

(* sat, unsatisfiable and model: push p ...                                *)
OneShot(p) ==
    /\ pc = "idle" /\ Push(p)
    /\ verdict' = [asked |-> {p}, unsat |-> FALSE]
    /\ pc' = "once" /\ held' = <<p>>

(* ... check it (model also reads the constants of p's paths), and pop.    *)
OneAnswer ==
    /\ pc = "once" /\ Pop
    /\ verdict' = [verdict EXCEPT !.unsat = Unsat]
    /\ pc' = "idle" /\ held' = <<>>

Next ==
    \/ \E p \in Preds : Implies(p) \/ Wrap(p) \/ Vacuous(p) \/ Ask(p) \/ OneShot(p)
    \/ Answer \/ Unwrap \/ Finish \/ OneAnswer

Spec == Init /\ [][Next]_vars

-----------------------------------------------------------------------------
TypeOK ==
    /\ memo \in UNION {[V -> Names \cup {Quantified}] : V \in SUBSET Vars}
    /\ sections \in Seq(SUBSET Vars) /\ alive \in Seq(SUBSET Names)
    /\ count \in Nat
    /\ frames \in Seq([pred : Preds, names : UNION {[V -> Names \cup {Quantified}] : V \in SUBSET Vars}])
    /\ pc \in {"idle", "open", "wrapped", "goal", "deepgoal", "told", "once"}
    /\ held \in Seq(Preds)
    /\ verdict \in [asked : SUBSET Preds, unsat : BOOLEAN]

(* The three stacks and the counter have the same depth, the depth the     *)
(* client's protocol calls for: finish finds count = 0, no scope of an     *)
(* earlier query is left open.                                             *)
Depth ==
    IF pc = "idle" THEN 0
    ELSE IF pc \in {"open", "once"} THEN 1
    ELSE IF pc = "deepgoal" THEN 3 ELSE 2

Balanced ==
    /\ count = Depth /\ Len(frames) = count
    /\ Len(sections) = count + 1 /\ Len(alive) = count + 1

(* No entry of the table names a constant that was freed with its level.   *)
NothingDangles ==
    \A v \in DOMAIN memo :
        memo[v] = Quantified \/ memo[v] \in UNION Elements(alive)

(* What is asserted and what will be asserted next speak of a path by the  *)
(* same constant: every path free on Z3's stack is in the table under the  *)
(* name the stack uses.  (So model finds the constant of every path of p,  *)
(* and its "Bound _ -> assert false" is not reached.)                      *)
OneName ==
    \A i \in DOMAIN frames : \A v \in DOMAIN frames[i].names :
        v \in DOMAIN memo /\ memo[v] = frames[i].names[v] /\ memo[v] \in Names

(* An answer is the answer to the question: about the hypothesis of this   *)
(* query, the instances held for this goal and the goal, and nothing else. *)
AnswersQuestion ==
    pc \in {"idle", "told", "open"} /\ verdict # NoVerdict =>
        (verdict.unsat <=> Contradicts(verdict.asked))

(* Every entry of the table was declared in a section, at whose level its  *)
(* constant was built; an entry is Quantified only for a bound path.       *)
Homes ==
    \A v \in DOMAIN memo :
        /\ \E i \in DOMAIN sections :
               v \in sections[i] /\ (memo[v] = Quantified \/ memo[v] \in alive[i])
        /\ memo[v] = Quantified => \E p \in Preds : v \in Binders[p]

(* A path an assertion uses was declared no later than the level of the    *)
(* assertion was opened, so it is forgotten no earlier than it.            *)
Older ==
    \A i \in DOMAIN frames : \A v \in DOMAIN frames[i].names :
        \A j \in DOMAIN sections : v \in sections[j] => j <= i

(* Z3's stack holds what the client holds, and the question's last fact.   *)
Faithful ==
    /\ \A i \in DOMAIN frames : DOMAIN frames[i].names = Free[frames[i].pred]
    /\ Len(held) = IF pc \in {"goal", "deepgoal"} THEN count - 1 ELSE count
    /\ \A i \in DOMAIN held : frames[i].pred = held[i]
    /\ pc \in {"goal", "deepgoal"} =>
           verdict.asked = Elements(held) \cup {frames[count].pred}
    /\ pc = "once" => verdict.asked = Elements(held)

(* The inductive invariant of the interface.                               *)
ProverInv ==
    /\ TypeOK /\ Balanced /\ OneName
    /\ Homes /\ Older /\ Faithful /\ AnswersQuestion
=============================================================================
