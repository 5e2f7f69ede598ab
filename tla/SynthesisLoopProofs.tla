------------------------ MODULE SynthesisLoopProofs ------------------------
(* Proofs about the learning loop, for any program, any candidates, any    *)
(* number of rounds.                                                       *)
EXTENDS SynthesisLoop, TLAPS

Nothing == [f \in Funs |-> {}]

(* A table with no path is the empty one, and nothing was learned from it. *)
LEMMA EmptyTable ==
    /\ \A S : Empty \in Tables(S)
    /\ \A S : \A t \in Tables(S) : t # Empty <=> DOMAIN t # {}
    /\ Learned(Empty) = Nothing
<1>1. ASSUME NEW S PROVE Empty \in Tables(S)
  <2>1. Empty \in [{} -> SUBSET S]
    BY DEF Empty
  <2> QED BY <2>1 DEF Tables
<1>2. ASSUME NEW S, NEW t \in Tables(S) PROVE t # Empty <=> DOMAIN t # {}
  <2>1. PICK D \in SUBSET Funs : t \in [D -> SUBSET S]
    BY DEF Tables
  <2>2. DOMAIN t = D /\ t = [f \in D |-> t[f]]
    BY <2>1
  <2>3. DOMAIN Empty = {}
    BY DEF Empty
  <2>4. D = {} => t = Empty
    BY <2>2 DEF Empty
  <2> QED BY <2>2, <2>3, <2>4
<1>3. Learned(Empty) = Nothing
  BY DEF Learned, At, Empty, Nothing
<1> QED BY <1>1, <1>2, <1>3

(* What a table says of each function.                                     *)
LEMMA TableType ==
    ASSUME NEW S, NEW t \in Tables(S)
    PROVE  /\ DOMAIN t \subseteq Funs
           /\ \A f \in DOMAIN t : t[f] \subseteq S
           /\ \A f \in Funs : At(t, f) \subseteq S
           /\ Learned(t) \in [Funs -> SUBSET S]
<1>1. PICK D \in SUBSET Funs : t \in [D -> SUBSET S]
  BY DEF Tables
<1>2. DOMAIN t \subseteq Funs /\ \A f \in DOMAIN t : t[f] \subseteq S
  BY <1>1
<1>3. \A f \in Funs : At(t, f) \subseteq S
  BY <1>2 DEF At
<1> QED BY <1>2, <1>3 DEF Learned

LEMMA MakeTable ==
    ASSUME NEW S, NEW t, NEW D, t \in [D -> SUBSET S], D \subseteq Funs
    PROVE  t \in Tables(S)
  BY DEF Tables

(* What query_neg_samples returns: a table with an entry for Main and for  *)
(* each function searched, or for every function.                          *)
LEMMA BadSamples ==
    ASSUME LoopAssumption, TypeOK, NEW n \in QueryNegSamples
    PROVE  /\ n \in Tables(Points \cup {Fake})
           /\ Main \in DOMAIN n
           /\ Searched \subseteq DOMAIN n
           /\ flags.dty => DOMAIN n = Funs
<1>1. Searched \subseteq Funs /\ Main \in Funs
  BY TableType DEF Searched, TypeOK, LoopAssumption
<1>2. CASE flags.hoflag /\ ~flags.dty
  <2> DEFINE D == Searched \cup {Main}
  <2>1. n \in [D -> SUBSET Points]
    BY <1>2 DEF QueryNegSamples
  <2>2. n \in [D -> SUBSET (Points \cup {Fake})]
    <3>1. DOMAIN n = D /\ n = [f \in D |-> n[f]] /\ \A f \in D : n[f] \in SUBSET Points
      BY <2>1
    <3>2. \A f \in D : n[f] \in SUBSET (Points \cup {Fake})
      BY <3>1
    <3> QED BY <3>1, <3>2
  <2>3. n \in Tables(Points \cup {Fake})
    BY <2>2, <1>1, MakeTable
  <2> QED BY <1>2, <2>1, <2>3
<1>3. CASE ~(flags.hoflag /\ ~flags.dty)
  <2> DEFINE F == IF flags.hoflag THEN Measures
                  ELSE IF flags.dty THEN Measures \cup {Main} ELSE {Main}
  <2>1. n = [f \in Funs |-> IF f \in F THEN {Fake} ELSE {}]
    BY <1>3 DEF QueryNegSamples
  <2> HIDE DEF F
  <2>2. n \in [Funs -> SUBSET (Points \cup {Fake})]
    BY <2>1
  <2>3. DOMAIN n = Funs
    BY <2>1
  <2>4. n \in Tables(Points \cup {Fake})
    BY <2>2, MakeTable
  <2> QED BY <1>1, <2>3, <2>4
<1> QED BY <1>2, <1>3

-----------------------------------------------------------------------------
(* The merged samples keep what the new table and the old one say.         *)
LEMMA Merged ==
    ASSUME NEW S, NEW n \in Tables(S), NEW prev \in Tables(S)
    PROVE  /\ Merge(n, prev) \in Tables(S)
           /\ DOMAIN Merge(n, prev) = DOMAIN n
           /\ \A f \in DOMAIN n : Merge(n, prev)[f] = n[f] \cup At(prev, f)
<1>1. /\ DOMAIN n \subseteq Funs
      /\ \A f \in DOMAIN n : n[f] \subseteq S /\ At(prev, f) \subseteq S
  BY TableType
<1>2. Merge(n, prev) \in [DOMAIN n -> SUBSET S]
  BY <1>1 DEF Merge
<1>3. Merge(n, prev) \in Tables(S)
  BY <1>1, <1>2, MakeTable
<1> QED BY <1>3 DEF Merge

(* What learn_from_samples returns besides the empty table.                *)
LEMMA Candidates ==
    ASSUME NEW inv \in LearnFromSamples \ {Empty}
    PROVE  /\ inv \in Tables(Specs) /\ DOMAIN inv # {}
           /\ Learned(inv) \in [Funs -> SUBSET Specs]
           /\ DOMAIN inv \ {Main} \subseteq DOMAIN neg
           /\ \A f \in DOMAIN inv : inv[f] \subseteq Separators(f)
<1>1. /\ inv \in Tables(Specs) /\ inv # Empty
      /\ DOMAIN inv \ {Main} = (DOMAIN neg \cap pos) \ {Main}
      /\ \A f \in DOMAIN inv : inv[f] \subseteq Separators(f)
  BY DEF LearnFromSamples
<1>2. DOMAIN inv # {}
  BY <1>1, EmptyTable
<1>3. Learned(inv) \in [Funs -> SUBSET Specs]
  BY <1>1, TableType
<1> QED BY <1>1, <1>2, <1>3

(* The verdict on any candidates is among the goals, and empty if nothing  *)
(* was needed to prove them all.                                           *)
LEMMA VerdictType ==
    ASSUME LoopAssumption, NEW c \in [Funs -> SUBSET Specs]
    PROVE  Verdict(c) \subseteq Goals /\ Verdict(c) \subseteq Verdict(Nothing)
  BY DEF LoopAssumption, Nothing

(* What DriveNewTest makes QueryPosSamples log.                            *)
LEMMA LogType ==
    ASSUME LoopAssumption, TypeOK, NEW T \in SUBSET Tests
    PROVE  Logged(T) \subseteq Funs
<1>1. flags.logs \subseteq Funs /\ \A t \in T : Called[t] \subseteq Funs
  BY DEF LoopAssumption, TypeOK
<1>2. UNION {Called[t] : t \in T} \subseteq Funs
  BY <1>1
<1> QED BY <1>1, <1>2 DEF Logged

-----------------------------------------------------------------------------
(* The bound on the iterations: a first-order program is asked about at    *)
(* most four times with a count below five, and once more to give up.      *)
CountInv ==
    ~flags.hoflag =>
        /\ iter <= 5
        /\ pc = "test" => iter = 1
        /\ pc \in {"ask", "learn"} => iter <= 4

(* The bad samples at hand: all that were ever shown, for each function    *)
(* that still has an entry; and what failed has entries.                   *)
NegInv ==
    flags.hoflag =>
        /\ pc = "ask" /\ failed = Empty => neg = Empty /\ shown = Nothing
        /\ pc \in {"ask", "learn"} /\ (pc = "ask" => failed # Empty) =>
               /\ Main \in DOMAIN neg
               /\ flags.dty => DOMAIN neg = Funs
               /\ \A f \in DOMAIN neg : shown[f] \subseteq neg[f]
        /\ pc = "ask" => DOMAIN failed \ {Main} \subseteq DOMAIN neg

(* A solution without errors is never solved again, except before the      *)
(* first round of tests: then nothing was needed to prove everything.      *)
ProofInv ==
    /\ pc # "test" => tested
    /\ pc = "test" /\ ~tested => sol = Nothing
    /\ pc \in {"ask", "learn"} /\ unsat = {} => Verdict(Nothing) = {}

IInv ==
    /\ TypeOK /\ AnswersTogether /\ RefutesTheLatest /\ NoRelapse /\ GivesUpOnlyBlind
    /\ CountInv /\ NegInv /\ ProofInv

LEMMA InitInv == Init /\ LoopAssumption => IInv
<1> SUFFICES ASSUME Init, LoopAssumption PROVE IInv
  OBVIOUS
<1>1. /\ sol = Nothing /\ shown = Nothing /\ neg = Empty /\ failed = Empty
      /\ unsat = Verdict(Nothing)
  BY EmptyTable DEF Init
<1>2. TypeOK
  <2>1. Nothing \in [Funs -> SUBSET Specs] /\ Nothing \in [Funs -> SUBSET (Points \cup {Fake})]
    BY DEF Nothing
  <2>2. unsat \in SUBSET Goals
    BY <1>1, <2>1, VerdictType DEF Nothing
  <2>3. neg \in Tables(Points \cup {Fake}) /\ failed \in Tables(Specs)
    BY <1>1, EmptyTable
  <2>4. iter \in 1 .. IterCap
    BY DEF Init, LoopAssumption
  <2>5. /\ sol \in [Funs -> SUBSET Specs]
        /\ shown \in [Funs -> SUBSET (Points \cup {Fake})]
    BY <1>1, <2>1
  <2> QED BY <2>2, <2>3, <2>4, <2>5 DEF Init, TypeOK
<1>3. DOMAIN failed = {}
  BY <1>1 DEF Empty
<1> QED
  BY <1>1, <1>2, <1>3
  DEF Init, IInv, AnswersTogether, RefutesTheLatest, NoRelapse, GivesUpOnlyBlind,
      CountInv, NegInv, ProofInv

-----------------------------------------------------------------------------
(* One lemma per action.                                                   *)

LEMMA TestLoopInv == LoopAssumption /\ IInv /\ TestLoop => IInv'
<1> SUFFICES ASSUME LoopAssumption, IInv, TestLoop PROVE IInv'
  OBVIOUS
<1> USE DEF IInv
<1>1. /\ pc = "test" /\ ~Finished /\ tested' = TRUE
      /\ pc' = IF pos' = {} THEN "done" ELSE "ask"
      /\ neg' = Empty /\ failed' = Empty /\ shown' = Nothing
      /\ UNCHANGED <<flags, iter, sol, unsat>>
  BY EmptyTable DEF TestLoop
<1>2. ran' \in SUBSET Tests /\ pos' \in SUBSET Funs
  <2>1. PICK bt \in DriveNewTest : QueryPosSamples(bt[1], bt[2])
    BY DEF TestLoop
  <2>2. bt[2] \subseteq Tests
    <3>1. PICK T \in (SUBSET Tests) \ {{}} : bt = <<TRUE, T>>
      BY Zenon DEF DriveNewTest
    <3> QED BY <3>1
  <2>3. ran' \in SUBSET Tests
    BY <2>1, <2>2 DEF QueryPosSamples, TypeOK
  <2>4. \A R \in SUBSET Tests : Logged(R) \subseteq Funs
    BY LogType
  <2> QED BY <2>1, <2>3, <2>4 DEF QueryPosSamples
<1>3. TypeOK'
  <2>1. Nothing \in [Funs -> SUBSET (Points \cup {Fake})]
    BY DEF Nothing
  <2>2. neg' \in Tables(Points \cup {Fake}) /\ failed' \in Tables(Specs)
    BY <1>1, EmptyTable
  <2> QED BY <1>1, <1>2, <2>1, <2>2 DEF TypeOK
<1>4. DOMAIN failed' = {}
  BY <1>1 DEF Empty
<1>5. AnswersTogether' /\ RefutesTheLatest' /\ NoRelapse'
  BY <1>1, <1>4 DEF AnswersTogether, RefutesTheLatest, NoRelapse
<1>6. GivesUpOnlyBlind'
  BY <1>1 DEF GivesUpOnlyBlind
<1>7. CountInv' /\ NegInv'
  BY <1>1, <1>4 DEF CountInv, NegInv, TypeOK
<1>8. ProofInv'
  BY <1>1 DEF ProofInv, Finished, AnswersTogether, TypeOK
<1> QED BY <1>3, <1>5, <1>6, <1>7, <1>8

LEMMA FinishInv == LoopAssumption /\ IInv /\ Finish => IInv'
<1> SUFFICES ASSUME LoopAssumption, IInv, Finish PROVE IInv'
  OBVIOUS
<1>1. TypeOK'
  BY DEF IInv, TypeOK, Finish
<1>2. AnswersTogether' /\ RefutesTheLatest' /\ NoRelapse' /\ GivesUpOnlyBlind'
  BY DEF IInv, Finish, Finished, AnswersTogether, RefutesTheLatest, NoRelapse, GivesUpOnlyBlind
<1>3. CountInv' /\ NegInv' /\ ProofInv'
  BY DEF IInv, Finish, Finished, CountInv, NegInv, ProofInv
<1> QED BY <1>1, <1>2, <1>3 DEF IInv

LEMMA AskInv == LoopAssumption /\ IInv /\ Ask => IInv'
<1> SUFFICES ASSUME LoopAssumption, IInv, Ask PROVE IInv'
  OBVIOUS
<1> USE DEF IInv
<1>1. PICK n \in QueryNegSamples :
        /\ shown' = [f \in Funs |-> shown[f] \cup At(n, f)]
        /\ \/ GiveUp(n) /\ neg' = neg /\ pc' = "back"
           \/ ~GiveUp(n) /\ neg' = Merge(n, neg) /\ pc' = "learn"
  BY DEF Ask
<1>2. /\ pc = "ask" /\ iter' = IF iter = IterCap THEN iter ELSE iter + 1
      /\ UNCHANGED <<flags, tested, ran, pos, failed, sol, unsat>>
  BY DEF Ask
<1>3. /\ n \in Tables(Points \cup {Fake}) /\ Main \in DOMAIN n
      /\ Searched \subseteq DOMAIN n
      /\ flags.dty => DOMAIN n = Funs
  BY BadSamples
<1>4. /\ Merge(n, neg) \in Tables(Points \cup {Fake})
      /\ DOMAIN Merge(n, neg) = DOMAIN n
      /\ \A f \in DOMAIN n : Merge(n, neg)[f] = n[f] \cup At(neg, f)
  BY <1>3, Merged DEF TypeOK
<1>5. DOMAIN n \subseteq Funs /\ \A f \in Funs : At(n, f) \subseteq Points \cup {Fake}
  BY <1>3, TableType
<1>6. TypeOK'
  <2>1. shown' \in [Funs -> SUBSET (Points \cup {Fake})]
    BY <1>1, <1>5 DEF TypeOK
  <2>2. neg' \in Tables(Points \cup {Fake}) /\ pc' \in {"back", "learn"}
    BY <1>1, <1>4 DEF TypeOK
  <2>3. iter' \in 1 .. IterCap
    BY <1>2 DEF TypeOK, LoopAssumption
  <2> QED BY <1>2, <2>1, <2>2, <2>3 DEF TypeOK
<1>7. AnswersTogether' /\ RefutesTheLatest' /\ NoRelapse' /\ GivesUpOnlyBlind'
  BY <1>1, <1>2 DEF AnswersTogether, RefutesTheLatest, NoRelapse, GivesUpOnlyBlind
<1>8. CountInv'
  <2>1. CASE ~flags.hoflag
    <3>1. iter <= 4 /\ iter' = iter + 1 /\ iter \in Nat
      BY <1>2, <2>1 DEF CountInv, TypeOK, LoopAssumption
    <3>2. pc' = "learn" => ~(iter' >= 5)
      BY <1>1, <1>2, <2>1 DEF GiveUp
    <3> QED BY <1>1, <1>2, <3>1, <3>2 DEF CountInv
  <2>2. CASE flags.hoflag
    BY <1>2, <2>2 DEF CountInv
  <2> QED BY <2>1, <2>2
<1>9. NegInv'
  <2> SUFFICES ASSUME flags.hoflag, pc' = "learn"
               PROVE  /\ Main \in DOMAIN neg'
                      /\ flags.dty => DOMAIN neg' = Funs
                      /\ \A f \in DOMAIN neg' : shown'[f] \subseteq neg'[f]
    BY <1>1, <1>2 DEF NegInv
  <2>1. neg' = Merge(n, neg)
    BY <1>1
  <2>2. ASSUME NEW f \in DOMAIN n PROVE shown[f] \subseteq At(neg, f)
    <3>1. CASE failed = Empty
      BY <1>2, <1>5, <3>1 DEF NegInv, Nothing
    <3>2. CASE failed # Empty
      <4>1. f \in DOMAIN neg
        <5>1. CASE flags.dty
          BY <1>2, <1>5, <3>2, <5>1 DEF NegInv
        <5>2. CASE ~flags.dty
          <6>1. n \in [Searched \cup {Main} -> SUBSET Points]
            BY <5>2 DEF QueryNegSamples
          <6>2. f \in DOMAIN failed \cup {Main}
            BY <6>1, <3>2 DEF Searched
          <6> QED BY <1>2, <3>2, <6>2 DEF NegInv
        <5> QED BY <5>1, <5>2
      <4> QED BY <1>2, <3>2, <4>1 DEF NegInv, At
    <3> QED BY <3>1, <3>2
  <2>3. \A f \in DOMAIN n : shown'[f] = shown[f] \cup n[f]
    BY <1>1, <1>5 DEF At
  <2>4. ASSUME NEW f \in DOMAIN neg' PROVE shown'[f] \subseteq neg'[f]
    <3>1. f \in DOMAIN n /\ neg'[f] = n[f] \cup At(neg, f)
      BY <1>4, <2>1
    <3> QED BY <3>1, <2>2, <2>3
  <2>5. DOMAIN neg' = DOMAIN n
    BY <1>4, <2>1
  <2>6. Main \in DOMAIN neg' /\ (flags.dty => DOMAIN neg' = Funs)
    BY <1>3, <2>5
  <2> QED BY <2>4, <2>6
<1>10. ProofInv'
  BY <1>1, <1>2 DEF ProofInv
<1> QED BY <1>6, <1>7, <1>8, <1>9, <1>10

LEMMA NothingLearnedInv == LoopAssumption /\ IInv /\ NothingLearned => IInv'
<1> SUFFICES ASSUME LoopAssumption, IInv, NothingLearned PROVE IInv'
  OBVIOUS
<1>1. TypeOK'
  BY DEF IInv, TypeOK, NothingLearned
<1>2. AnswersTogether' /\ RefutesTheLatest' /\ NoRelapse' /\ GivesUpOnlyBlind'
  BY DEF IInv, NothingLearned, AnswersTogether, RefutesTheLatest, NoRelapse, GivesUpOnlyBlind
<1>3. CountInv' /\ NegInv' /\ ProofInv'
  BY DEF IInv, NothingLearned, CountInv, NegInv, ProofInv, TypeOK
<1> QED BY <1>1, <1>2, <1>3 DEF IInv

LEMMA SolveAgainInv == LoopAssumption /\ IInv /\ SolveAgain => IInv'
<1> SUFFICES ASSUME LoopAssumption, IInv, SolveAgain PROVE IInv'
  OBVIOUS
<1> USE DEF IInv
<1>1. PICK inv \in LearnFromSamples \ {Empty} :
        sol' = Learned(inv) /\ unsat' = Verdict(sol') /\ failed' = inv
  BY DEF SolveAgain
<1>2. /\ pc = "learn" /\ pc' = IF unsat' = {} THEN "back" ELSE "ask"
      /\ UNCHANGED <<flags, tested, ran, pos, iter, neg, shown>>
  BY DEF SolveAgain
<1>3. /\ inv \in Tables(Specs) /\ DOMAIN inv # {}
      /\ Learned(inv) \in [Funs -> SUBSET Specs]
      /\ DOMAIN inv \ {Main} \subseteq DOMAIN neg
      /\ \A f \in DOMAIN inv : inv[f] \subseteq Separators(f)
  BY Candidates
<1>4. unsat' \subseteq Goals /\ unsat' \subseteq Verdict(Nothing)
  BY <1>1, <1>3, VerdictType
<1>5. TypeOK'
  BY <1>1, <1>2, <1>3, <1>4 DEF TypeOK
<1>6. AnswersTogether' /\ RefutesTheLatest' /\ GivesUpOnlyBlind'
  BY <1>1, <1>2 DEF AnswersTogether, RefutesTheLatest, GivesUpOnlyBlind
<1>7. NoRelapse'
  <2> SUFFICES ASSUME flags.hoflag, NEW f \in DOMAIN inv \ {Main}, NEW c \in inv[f]
               PROVE  Admits[c] \cap shown[f] = {}
    BY <1>1, <1>2 DEF NoRelapse
  <2>1. Admits[c] \cap neg[f] = {}
    BY <1>3 DEF Separators
  <2>2. shown[f] \subseteq neg[f]
    BY <1>2, <1>3 DEF NegInv
  <2> QED BY <2>1, <2>2
<1>8. NegInv'
  <2>1. failed' # Empty
    BY <1>1, <1>3 DEF Empty
  <2> QED BY <1>1, <1>2, <1>3, <2>1 DEF NegInv
<1>9. CountInv'
  BY <1>2 DEF CountInv, TypeOK
<1>10. ProofInv'
  BY <1>2 DEF ProofInv
<1> QED BY <1>5, <1>6, <1>7, <1>8, <1>9, <1>10

LEMMA BackInv == LoopAssumption /\ IInv /\ Back => IInv'
<1> SUFFICES ASSUME LoopAssumption, IInv, Back PROVE IInv'
  OBVIOUS
<1>1. TypeOK'
  BY DEF IInv, TypeOK, Back, LoopAssumption
<1>2. AnswersTogether' /\ RefutesTheLatest' /\ NoRelapse' /\ GivesUpOnlyBlind'
  BY DEF IInv, Back, AnswersTogether, RefutesTheLatest, NoRelapse, GivesUpOnlyBlind
<1>3. CountInv' /\ NegInv' /\ ProofInv'
  BY DEF IInv, Back, CountInv, NegInv, ProofInv, TypeOK
<1> QED BY <1>1, <1>2, <1>3 DEF IInv

LEMMA StutterInv == IInv /\ UNCHANGED vars => IInv'
  BY DEF IInv, vars, TypeOK, AnswersTogether, RefutesTheLatest, NoRelapse, GivesUpOnlyBlind,
         CountInv, NegInv, ProofInv

-----------------------------------------------------------------------------
(* The inductive invariant.                                                *)
THEOREM Invariance == Spec => []IInv
<1>1. Init => IInv
  BY InitInv, LoopAssumption
<1>2. IInv /\ [Next]_vars => IInv'
  BY LoopAssumption, TestLoopInv, FinishInv, AskInv, NothingLearnedInv, SolveAgainInv,
     BackInv, StutterInv DEF Next, Done
<1> QED BY <1>1, <1>2, PTL DEF Spec

(* The report belongs to the solution, the candidates that failed are      *)
(* those just solved, the rounds of a first-order program are bounded.     *)
THEOREM LoopCorrect == Spec => []LoopInv
<1>1. IInv => LoopInv
  <2>1. CountInv => FewRounds
    BY DEF CountInv, FewRounds
  <2> QED BY <2>1 DEF IInv, LoopInv
<1> QED BY <1>1, Invariance, PTL

(* A refuted candidate is never learned again within one loop.             *)
THEOREM RefutedStaysRefuted == Spec => []NoRelapse
<1>1. IInv => NoRelapse
  BY DEF IInv
<1> QED BY <1>1, Invariance, PTL

(* The synthesis only ends with errors left if the program logged nothing. *)
THEOREM EndsProvedOrBlind == Spec => []GivesUpOnlyBlind
<1>1. IInv => GivesUpOnlyBlind
  BY DEF IInv
<1> QED BY <1>1, Invariance, PTL

(* A solution without errors is never replaced by one with errors.         *)
THEOREM ProofNeverLost == Spec => ProofKept
<1>1. IInv /\ [Next]_vars => (unsat = {} => unsat' = {})
  <2> SUFFICES ASSUME IInv, [Next]_vars, unsat = {} PROVE unsat' = {}
    OBVIOUS
  <2>1. CASE SolveAgain
    <3>1. PICK inv \in LearnFromSamples \ {Empty} : unsat' = Verdict(Learned(inv))
      BY <2>1 DEF SolveAgain
    <3>2. Learned(inv) \in [Funs -> SUBSET Specs]
      BY Candidates
    <3>3. Verdict(Learned(inv)) \subseteq Verdict(Nothing)
      BY <3>2, VerdictType, LoopAssumption
    <3>4. Verdict(Nothing) = {}
      BY <2>1 DEF IInv, ProofInv, SolveAgain
    <3> QED BY <3>1, <3>3, <3>4
  <2>2. CASE ~SolveAgain
    BY <2>2 DEF Next, vars, TestLoop, Finish, Ask, NothingLearned, Back, Done
  <2> QED BY <2>1, <2>2
<1>2. Spec => [][unsat = {} => unsat' = {}]_vars
  BY <1>1, Invariance, PTL DEF Spec
<1> QED BY <1>2 DEF ProofKept
=============================================================================
