--------------------------- MODULE SynthesisLoop ---------------------------
(***************************************************************************)
(* The learning loop around the solver: testloop and loop of solve in      *)
(* liquid/constraint.ml, with the callbacks of liquid/qualifymod.ml.       *)
(*                                                                         *)
(* testloop runs the instrumented program for calls to learn from          *)
(* (query_pos_samples).  loop asks for bad samples that the specifications *)
(* that failed would still admit (query_neg_samples), learns candidate     *)
(* specifications that reject every bad sample of this loop, and solves    *)
(* the constraints again with the candidates as qualifiers.                *)
(*                                                                         *)
(* A candidate is known by the bad samples it admits and by the verdict of *)
(* the solver (LiquidSolver.tla) on a table of candidates.                 *)
(***************************************************************************)
EXTENDS Naturals

CONSTANTS
    Funs,           \* the functions of the program
    Main,           \* the one tests are written for (main_function)
    Measures,       \* those that measure a data type
    Points,         \* the assignments under which a function goes wrong
    Fake,           \* the sample that stands for no sample at all
    Specs,          \* candidate specifications
    Admits,         \* Admits[c]: the bad assignments c does not exclude
    Goals,          \* constraints the solver may report
    Verdict(_),     \* what it reports, given the candidates of each function
    Tests,          \* the calls of Main the generator can write
    Called,         \* Called[t]: the functions that log a call when t runs
    Flags,          \* settings of a run, see LoopAssumption
    IterCap         \* iterations are counted up to here

(* Adding candidates never makes the solver report more; see               *)
(* ProvedStaysProved in LiquidSolver.tla.                                  *)
ASSUME LoopAssumption ==
    /\ Main \in Funs /\ Measures \subseteq Funs /\ Fake \notin Points
    /\ Admits \in [Specs -> SUBSET Points]
    /\ Called \in [Tests -> SUBSET Funs]
    /\ Tests # {} /\ IterCap \in Nat /\ IterCap >= 5
    /\ Flags \subseteq [hoflag : BOOLEAN, dty : BOOLEAN, reachability : BOOLEAN,
                      logs : SUBSET Funs, shared : BOOLEAN]
    /\ \A c \in [Funs -> SUBSET Specs] :
           Verdict(c) \subseteq Verdict([f \in Funs |-> {}])
    /\ Verdict([f \in Funs |-> {}]) \subseteq Goals

VARIABLES
    pc,
    flags,      \* Backwalker.hoflag, se_env.dty, Clflags.reachability, the
                \* functions the program logs calls of without any test, and
                \* whether its last statement is on the file's last line
    tested,     \* testcounter > 0
    ran,        \* the tests appended to the instrumented file
    pos,        \* the functions with a logged call in pos_samples
    iter,       \* iter_count
    neg,        \* neg_samples, and prev_neg_samples for the next iteration
    failed,     \* prev_failed_invariant
    sol,        \* the candidates the solution prev_s was solved with
    unsat,
    shown       \* history: every bad sample found since loop was entered

vars == <<pc, flags, tested, ran, pos, iter, neg, failed, sol, unsat, shown>>

Tables(S) == UNION {[D -> SUBSET S] : D \in SUBSET Funs}
Empty == [f \in {} |-> {}]
At(table, f) == IF f \in DOMAIN table THEN table[f] ELSE {}
Learned(table) == [f \in Funs |-> At(table, f)]

Init ==
    /\ pc = "test" /\ flags \in Flags /\ tested = FALSE /\ ran = {} /\ pos = {}
    /\ iter = 1 /\ neg = Empty /\ failed = Empty /\ shown = Learned(Empty)
    /\ sol = Learned(Empty) /\ unsat = Verdict(sol)

-----------------------------------------------------------------------------
(* Whether new tests are derivable, and the tests: always, and some.       *)
DriveNewTest == {<<TRUE, T>> : T \in (SUBSET Tests) \ {{}}}

(* What the file logs.  modify puts tests and a close_out in the place of  *)
(* the last line, and with that close_out the pretty-printer puts the last *)
(* statement of the program, which runs it, if the margin has room.        *)
Logged(tests) ==
    (UNION {Called[t] : t \in tests}) \cup
        IF tests # {} /\ flags.shared THEN {} ELSE flags.logs

(* query_pos_samples: append tests to the file, except the first time, run *)
(* it and read the log; without a new test and with samples at hand, none. *)
QueryPosSamples(b, T) ==
    IF b \/ pos = {}
    THEN /\ ran' = IF pos = {} THEN ran ELSE ran \cup T
         /\ pos' = Logged(ran')
    ELSE ran' = ran /\ pos' = {}

(* Broken: testing goes on until every test was tried.                     *)
TriedFinished == ran = Tests

(* Broken: testing stops there even with errors left.                      *)
CountedFinished == tested /\ (unsat = {} \/ ran = Tests)

Finished == unsat = {} /\ tested

TestLoop ==
    /\ pc = "test" /\ ~Finished
    /\ tested' = TRUE
    /\ \E bt \in DriveNewTest : QueryPosSamples(bt[1], bt[2])
    /\ pc' = IF pos' = {} THEN "done" ELSE "ask"
    /\ neg' = Empty /\ failed' = Empty /\ shown' = Learned(Empty)
    /\ UNCHANGED <<flags, iter, sol, unsat>>

Finish ==
    /\ pc = "test" /\ Finished
    /\ pc' = "done"
    /\ UNCHANGED <<flags, tested, ran, pos, iter, neg, failed, sol, unsat, shown>>

(* What the prover may find for f: some bad assignments that one of the    *)
(* failed candidates admits, any at all when there is none to refute yet.  *)
Searched == IF failed = Empty THEN Funs ELSE DOMAIN failed
Refutes(f) ==
    IF failed = Empty THEN Points ELSE UNION {Admits[c] : c \in failed[f]}

(* query_neg_samples: real samples are only sought for higher-order        *)
(* programs; the table is overwritten for Main, or for everyone.           *)
QueryNegSamples ==
    LET fakes == IF flags.hoflag THEN Measures
                 ELSE IF flags.dty THEN Measures \cup {Main} ELSE {Main}
        Fakes == [f \in Funs |-> IF f \in fakes THEN {Fake} ELSE {}]
        D == Searched \cup {Main}
    IN  IF flags.hoflag /\ ~flags.dty
        THEN {n \in [D -> SUBSET Points] :
                  \A f \in D : n[f] \subseteq IF f = Main THEN {} ELSE Refutes(f)}
        ELSE {Fakes}

(* Broken: only the new samples count.                                     *)
ForgetfulMerge(n, prev) == n

Merge(n, prev) == [f \in DOMAIN n |-> n[f] \cup At(prev, f)]

(* Broken: no bound on the iterations.                                     *)
EndlessGiveUp(n) == ~flags.reachability /\ \A f \in DOMAIN n : n[f] = {}

GiveUp(n) ==
    \/ ~flags.reachability /\ \A f \in DOMAIN n : n[f] = {}
    \/ iter' >= 5 /\ ~flags.hoflag

(* The head of loop: count, ask for bad samples, stop or merge them into   *)
(* those of the earlier iterations.                                        *)
Ask ==
    /\ pc = "ask"
    /\ iter' = IF iter = IterCap THEN iter ELSE iter + 1
    /\ \E n \in QueryNegSamples :
        /\ shown' = [f \in Funs |-> shown[f] \cup At(n, f)]
        /\ \/ GiveUp(n) /\ neg' = neg /\ pc' = "back"
           \/ ~GiveUp(n) /\ neg' = Merge(n, neg) /\ pc' = "learn"
    /\ UNCHANGED <<flags, tested, ran, pos, failed, sol, unsat>>

(* learn_from_samples: candidates for the functions that logged a call.    *)
(* For higher-order programs each of them separates the bad samples;       *)
(* for Main there are only the conditions of its own text.                 *)
Separators(f) ==
    {c \in Specs : (flags.hoflag /\ f # Main) => Admits[c] \cap neg[f] = {}}
FromText == ~flags.dty /\ neg[Main] \subseteq {Fake}

LearnFromSamples ==
    {inv \in Tables(Specs) :
        /\ DOMAIN inv \ {Main} = (DOMAIN neg \cap pos) \ {Main}
        /\ Main \in DOMAIN inv =>
               IF FromText THEN inv[Main] # {} ELSE Main \in pos
        /\ ~FromText /\ Main \in pos => Main \in DOMAIN inv
        /\ \A f \in DOMAIN inv : inv[f] \subseteq Separators(f)}

(* Nothing to learn from: the loop ends with what it had.                  *)
NothingLearned ==
    /\ pc = "learn" /\ Empty \in LearnFromSamples
    /\ pc' = "back"
    /\ UNCHANGED <<flags, tested, ran, pos, iter, neg, failed, sol, unsat, shown>>

(* Broken: a failed table is reported but not handed on.                   *)
StaleSolve ==
    /\ pc = "learn"
    /\ \E inv \in LearnFromSamples \ {Empty} :
        /\ unsat' = Verdict(Learned(inv)) /\ failed' = inv
        /\ sol' = IF unsat' = {} THEN Learned(inv) ELSE sol
    /\ pc' = IF unsat' = {} THEN "back" ELSE "ask"
    /\ UNCHANGED <<flags, tested, ran, pos, iter, neg, shown>>

(* make_further_solution on a copy of the first table, solve, validate.    *)
SolveAgain ==
    /\ pc = "learn"
    /\ \E inv \in LearnFromSamples \ {Empty} :
        /\ sol' = Learned(inv) /\ unsat' = Verdict(sol')
        /\ failed' = inv
    /\ pc' = IF unsat' = {} THEN "back" ELSE "ask"
    /\ UNCHANGED <<flags, tested, ran, pos, iter, neg, shown>>

(* loop returns to testloop.                                               *)
Back ==
    /\ pc = "back"
    /\ iter' = IF flags.hoflag THEN iter ELSE 1
    /\ pc' = "test"
    /\ UNCHANGED <<flags, tested, ran, pos, neg, failed, sol, unsat, shown>>

(* solve returns.                                                          *)
Done == pc = "done" /\ UNCHANGED vars

Next ==
    \/ TestLoop \/ Finish \/ Ask \/ NothingLearned \/ SolveAgain \/ Back \/ Done

Spec == Init /\ [][Next]_vars

(* One thread runs the loop and every call it makes returns.               *)
FairSpec == Spec /\ WF_vars(Next)

-----------------------------------------------------------------------------
TypeOK ==
    /\ pc \in {"test", "ask", "learn", "back", "done"}
    /\ flags \in Flags /\ tested \in BOOLEAN
    /\ ran \in SUBSET Tests /\ pos \in SUBSET Funs
    /\ iter \in 1 .. IterCap
    /\ neg \in Tables(Points \cup {Fake}) /\ failed \in Tables(Specs)
    /\ sol \in [Funs -> SUBSET Specs] /\ unsat \in SUBSET Goals
    /\ shown \in [Funs -> SUBSET (Points \cup {Fake})]

(* The errors that are reported are the errors of the solution that is     *)
(* printed, whichever of its four exits loop took (solve returns s and     *)
(* unsat of two different variables).                                      *)
AnswersTogether == unsat = Verdict(sol)

(* What failed is what was solved last: the bad samples asked for next     *)
(* refute candidates of the solution at hand, not of an earlier one.       *)
RefutesTheLatest == pc = "ask" /\ failed # Empty => Learned(failed) = sol

(* A bad sample is never forgotten within one loop, so no candidate that   *)
(* was refuted is learned again (prev_neg_samples is merged path by path,  *)
(* and only for the paths the new table has).                              *)
NoRelapse ==
    pc = "ask" /\ flags.hoflag =>
        \A f \in DOMAIN failed \ {Main} : \A c \in failed[f] :
            Admits[c] \cap shown[f] = {}

(* Once everything is proved it stays proved: neither the round of tests   *)
(* that is always run nor a later loop replaces a solution without errors  *)
(* by one with errors.                                                     *)
ProofKept == [][unsat = {} => unsat' = {}]_vars

(* A first-order program gets at most three rounds of learning for one set *)
(* of samples: iter_count is reset whenever loop is left.                  *)
FewRounds == ~flags.hoflag => iter <= 5 /\ (pc = "test" => iter = 1)

(* In every state: the report belongs to the solution, the candidates that *)
(* failed are those just solved, and the rounds are counted.               *)
LoopInv == TypeOK /\ AnswersTogether /\ RefutesTheLatest /\ FewRounds

(* With errors left, solve only ends when the program logged no call.      *)
GivesUpOnlyBlind == pc = "done" /\ unsat # {} => pos = {}

(* For a first-order program every loop comes back to testloop.            *)
LoopComesBack == pc = "ask" /\ ~flags.hoflag ~> pc \in {"test", "done"}

(* "Terminates if no new test can be generated" (liquid/qualifymod.ml,     *)
(* end of query_pos_samples): when the file already holds every test the   *)
(* generator can write, the synthesis ends.                                *)
EndsWithoutNewTest == ran = Tests ~> pc = "done"
=============================================================================
