--------------------------- MODULE ProverZ3Proofs ---------------------------
(* Proofs about the interface to Z3, for every set of predicates and every *)
(* sequence of queries.                                                    *)
EXTENDS ProverZ3, SequenceTheorems, TLAPS

(***************************************************************************)
(* Sequences whose last element is the open section.                       *)
(***************************************************************************)

(* Adding to the open section leaves the others alone.                     *)
LEMMA AddTopProps ==
    ASSUME NEW X, NEW s \in Seq(SUBSET X), Len(s) > 0, NEW S \in SUBSET X
    PROVE  /\ AddTop(s, S) \in Seq(SUBSET X)
           /\ Len(AddTop(s, S)) = Len(s)
           /\ \A i \in 1..Len(s) : s[i] \subseteq AddTop(s, S)[i]
           /\ \A i \in 1..Len(s) : i # Len(s) => AddTop(s, S)[i] = s[i]
           /\ AddTop(s, S)[Len(s)] = s[Len(s)] \cup S
<1>1. DOMAIN s = 1..Len(s)
  OBVIOUS
<1>2. \A i \in 1..Len(s) : s[i] \in SUBSET X
  OBVIOUS
<1>3. AddTop(s, S) = [i \in 1..Len(s) |-> IF i = Len(s) THEN s[i] \cup S ELSE s[i]]
  BY <1>1 DEF AddTop
<1>4. \A i \in 1..Len(s) :
          (IF i = Len(s) THEN s[i] \cup S ELSE s[i]) \in SUBSET X
  BY <1>2
<1> QED BY <1>3, <1>4

(* Closing the innermost section leaves the others.                        *)
LEMMA FrontProps ==
    ASSUME NEW T, NEW s \in Seq(T), Len(s) > 0
    PROVE  /\ Front(s) \in Seq(T)
           /\ Len(Front(s)) = Len(s) - 1
           /\ \A i \in 1..(Len(s) - 1) : Front(s)[i] = s[i]
<1> DEFINE n == Len(s) - 1
<1>1. n \in Nat /\ \A i \in 1..n : s[i] \in T
  OBVIOUS
<1>2. /\ SubSeq(s, 1, n) \in Seq(T)
      /\ Len(SubSeq(s, 1, n)) = IF 1 <= n THEN n - 1 + 1 ELSE 0
      /\ \A i \in 1..(n - 1 + 1) : SubSeq(s, 1, n)[i] = s[1 + i - 1]
  <2> HIDE DEF n
  <2> QED BY <1>1, SubSeqProperties
<1>3. Front(s) = SubSeq(s, 1, n)
  BY DEF Front
<1> HIDE DEF n
<1>4. \A i \in 1..n : 1 + i - 1 = i
  BY <1>1
<1>5. Front(s) \in Seq(T) /\ Len(Front(s)) = n /\ \A i \in 1..n : Front(s)[i] = s[i]
  BY <1>1, <1>2, <1>3, <1>4
<1> QED BY <1>5 DEF n

(* The domain and the elements of a sequence.                              *)
LEMMA SeqDomain ==
    ASSUME NEW T, NEW s \in Seq(T)
    PROVE  DOMAIN s = 1..Len(s) /\ Len(s) \in Nat /\ \A i \in 1..Len(s) : s[i] \in T
  OBVIOUS

(***************************************************************************)
(* The part of the invariant that speaks of the prover's state alone.      *)
(***************************************************************************)

Frame == [pred : Preds, names : UNION {[V -> Names \cup {Quantified}] : V \in SUBSET Vars}]

Typed ==
    /\ memo \in UNION {[V -> Names \cup {Quantified}] : V \in SUBSET Vars}
    /\ sections \in Seq(SUBSET Vars) /\ alive \in Seq(SUBSET Names)
    /\ count \in Nat /\ frames \in Seq(Frame)

Stacks ==
    Len(frames) = count /\ Len(sections) = count + 1 /\ Len(alive) = count + 1

Uses == \A i \in DOMAIN frames : DOMAIN frames[i].names = Free[frames[i].pred]

StackInv == Typed /\ Stacks /\ OneName /\ Homes /\ Older /\ Uses

(* A level of Z3 asserts a predicate.                                      *)
LEMMA FrameType ==
    ASSUME frames \in Seq(Frame), NEW i \in DOMAIN frames
    PROVE  frames[i].pred \in Preds
<1>1. frames[i] \in Frame
  OBVIOUS
<1> QED BY <1>1 DEF Frame

(* The table after a translation is a table, and it names every path that  *)
(* p uses by a constant.                                                   *)
LEMMA TranslatedProps ==
    ASSUME StackInv, NEW p \in Preds, NEW f \in FreshNames(Free[p] \ DOMAIN memo)
    PROVE  /\ Translated(p, f) \in UNION {[V -> Names \cup {Quantified}] : V \in SUBSET Vars}
           /\ DOMAIN Translated(p, f) = DOMAIN memo \cup Free[p] \cup Binders[p]
           /\ \A v \in Free[p] : Translated(p, f)[v] \in Names
           /\ \A v \in Free[p] : v \in DOMAIN memo => Translated(p, f)[v] = memo[v]
<1> DEFINE W == DOMAIN memo \cup Free[p] \cup Binders[p]
<1>1. /\ Free[p] \in SUBSET Vars /\ Binders[p] \in SUBSET Vars
      /\ Free[p] \cap Binders[p] = {}
  BY PredAssumption, NamesApart
<1>2. PICK V \in SUBSET Vars : memo \in [V -> Names \cup {Quantified}]
  BY DEF StackInv, Typed
<1>3. DOMAIN memo = V /\ W \in SUBSET Vars
  BY <1>1, <1>2
<1>4. f \in [Free[p] \ V -> Names]
  BY <1>3 DEF FreshNames
<1>5. ASSUME NEW v \in W
      PROVE  (IF v \in Binders[p] THEN Quantified
              ELSE IF v \in DOMAIN f THEN f[v] ELSE memo[v]) \in Names \cup {Quantified}
  BY <1>2, <1>3, <1>4, <1>5
<1>6. Translated(p, f) \in [W -> Names \cup {Quantified}]
  BY <1>5 DEF Translated
<1>7. ASSUME NEW v \in Free[p], v \in V
      PROVE  memo[v] \in Names
  <2>1. memo[v] \in Names \cup {Quantified}
    BY <1>2, <1>7
  <2>2. memo[v] # Quantified
    BY <1>3, <1>7, NamesApart DEF StackInv, Homes
  <2> QED BY <2>1, <2>2
<1>8. \A v \in Free[p] : Translated(p, f)[v] = IF v \in V THEN memo[v] ELSE f[v]
  BY <1>1, <1>3, <1>4 DEF Translated
<1> QED BY <1>3, <1>4, <1>6, <1>7, <1>8

(* push keeps the table, the three stacks and the assertions in agreement. *)
LEMMA PushStack ==
    ASSUME StackInv, NEW p \in Preds, Push(p)
    PROVE  /\ StackInv' /\ count' = count + 1
           /\ \A i \in 1..count : frames'[i] = frames[i]
           /\ frames'[count'].pred = p
<1>1. PICK f \in FreshNames(Free[p] \ DOMAIN memo) :
          Enter(p, f) /\ alive' = Append(AddTop(alive, Elements(f)), {})
  BY DEF Push
<1> DEFINE new == Free[p] \ DOMAIN memo
           S2 == AddTop(sections, new \cup Binders[p])
           A2 == AddTop(alive, Elements(f))
           fr == [pred |-> p, names |-> [v \in Free[p] |-> Translated(p, f)[v]]]
<1>2. /\ Free[p] \in SUBSET Vars /\ Binders[p] \in SUBSET Vars
      /\ Free[p] \cap Binders[p] = {}
  BY PredAssumption, NamesApart
<1>3. f \in [new -> Names] /\ Elements(f) \in SUBSET Names
  BY DEF FreshNames, Elements
<1>4. /\ memo' = Translated(p, f) /\ count' = count + 1
      /\ sections' = Append(S2, {}) /\ alive' = Append(A2, {})
      /\ frames' = Append(frames, fr)
  BY <1>1, <1>3 DEF Enter
<1>5. /\ S2 \in Seq(SUBSET Vars) /\ Len(S2) = count + 1
      /\ \A i \in 1..(count + 1) : sections[i] \subseteq S2[i]
      /\ \A i \in 1..(count + 1) : i # count + 1 => S2[i] = sections[i]
      /\ S2[count + 1] = sections[count + 1] \cup new \cup Binders[p]
  <2>1. sections \in Seq(SUBSET Vars) /\ Len(sections) = count + 1 /\ count \in Nat
    BY DEF StackInv, Typed, Stacks
  <2>2. new \cup Binders[p] \in SUBSET Vars
    BY <1>2
  <2>3. Len(sections) > 0
    BY <2>1
  <2> HIDE DEF new
  <2>4. /\ S2 \in Seq(SUBSET Vars) /\ Len(S2) = Len(sections)
        /\ \A i \in 1..Len(sections) : sections[i] \subseteq S2[i]
        /\ \A i \in 1..Len(sections) : i # Len(sections) => S2[i] = sections[i]
        /\ S2[Len(sections)] = sections[Len(sections)] \cup (new \cup Binders[p])
    BY <2>1, <2>2, <2>3, AddTopProps, ZenonT(30)
  <2> HIDE DEF S2
  <2> QED BY <2>1, <2>4
<1>6. /\ A2 \in Seq(SUBSET Names) /\ Len(A2) = count + 1
      /\ \A i \in 1..(count + 1) : alive[i] \subseteq A2[i]
      /\ A2[count + 1] = alive[count + 1] \cup Elements(f)
  <2>1. alive \in Seq(SUBSET Names) /\ Len(alive) = count + 1 /\ count \in Nat
    BY DEF StackInv, Typed, Stacks
  <2>2. Len(alive) > 0
    BY <2>1
  <2>3. /\ A2 \in Seq(SUBSET Names) /\ Len(A2) = Len(alive)
        /\ \A i \in 1..Len(alive) : alive[i] \subseteq A2[i]
        /\ A2[Len(alive)] = alive[Len(alive)] \cup Elements(f)
    BY <1>3, <2>1, <2>2, AddTopProps
  <2> HIDE DEF A2
  <2> QED BY <2>1, <2>3
<1>7. count \in Nat /\ frames \in Seq(Frame) /\ Len(frames) = count
  BY DEF StackInv, Typed, Stacks
<1>8. fr \in Frame
  <2>1. [v \in Free[p] |-> Translated(p, f)[v]] \in [Free[p] -> Names \cup {Quantified}]
    BY TranslatedProps
  <2> QED BY <1>2, <2>1 DEF Frame
<1> HIDE DEF S2, A2, fr, new
<1>9. /\ Len(frames') = count + 1 /\ frames' \in Seq(Frame)
      /\ \A i \in 1..count : frames'[i] = frames[i]
      /\ frames'[count + 1] = fr
  BY <1>4, <1>7, <1>8
<1>10. /\ Len(sections') = count + 2 /\ sections' \in Seq(SUBSET Vars)
       /\ \A i \in 1..(count + 1) : sections'[i] = S2[i]
       /\ sections'[count + 2] = {}
  BY <1>4, <1>5, <1>7
<1>11. /\ Len(alive') = count + 2 /\ alive' \in Seq(SUBSET Names)
       /\ \A i \in 1..(count + 1) : alive'[i] = A2[i]
  BY <1>4, <1>6, <1>7
<1>12. Typed' /\ Stacks'
  <2>1. memo' \in UNION {[V -> Names \cup {Quantified}] : V \in SUBSET Vars}
    BY <1>4, TranslatedProps
  <2>2. Stacks'
    BY <1>4, <1>7, <1>9, <1>10, <1>11 DEF Stacks
  <2>3. count' \in Nat
    BY <1>4, <1>7
  <2> QED BY <1>9, <1>10, <1>11, <2>1, <2>2, <2>3 DEF Typed
<1>13. Uses'
  BY <1>7, <1>9 DEF Uses, StackInv, fr
<1>14. Homes'
  <2>1. SUFFICES ASSUME NEW v \in DOMAIN memo'
        PROVE  /\ \E i \in DOMAIN sections' : v \in sections'[i]
                      /\ (memo'[v] = Quantified \/ memo'[v] \in alive'[i])
               /\ memo'[v] = Quantified => \E q \in Preds : v \in Binders[q]
    BY DEF Homes
  <2>2. DOMAIN sections' = 1..(count + 2) /\ DOMAIN sections = 1..(count + 1)
    BY <1>7, <1>10 DEF StackInv, Typed, Stacks
  <2>3. CASE v \in Binders[p]
    <3>1. memo'[v] = Quantified
      BY <1>4, <2>1, <2>3, TranslatedProps DEF Translated
    <3>2. v \in sections'[count + 1]
      BY <1>5, <1>7, <1>10, <2>3
    <3> QED BY <1>7, <2>2, <2>3, <3>1, <3>2
  <2>4. CASE v \notin Binders[p] /\ v \in new
    <3>1. memo'[v] = f[v] /\ f[v] \in Elements(f) /\ f[v] \in Names
      BY <1>3, <1>4, <2>1, <2>4, TranslatedProps DEF Translated, Elements
    <3>2. v \in sections'[count + 1] /\ f[v] \in alive'[count + 1]
      BY <1>5, <1>6, <1>7, <1>10, <1>11, <2>4, <3>1
    <3>3. memo'[v] # Quantified
      BY <3>1, PredAssumption
    <3> QED BY <1>7, <2>2, <3>1, <3>2, <3>3
  <2>5. CASE v \notin Binders[p] /\ v \notin new
    <3>1. v \in DOMAIN memo /\ memo'[v] = memo[v]
      BY <1>3, <1>4, <2>1, <2>5, TranslatedProps DEF Translated, new
    <3>2. PICK i \in 1..(count + 1) :
              v \in sections[i] /\ (memo[v] = Quantified \/ memo[v] \in alive[i])
      BY <2>2, <3>1 DEF StackInv, Homes
    <3>3. v \in sections'[i] /\ (memo[v] = Quantified \/ memo[v] \in alive'[i])
      BY <1>5, <1>6, <1>7, <1>10, <1>11, <3>2
    <3>4. memo[v] = Quantified => \E q \in Preds : v \in Binders[q]
      BY <3>1 DEF StackInv, Homes
    <3> QED BY <1>7, <2>2, <3>1, <3>3, <3>4
  <2> QED BY <2>3, <2>4, <2>5
<1>15. OneName'
  <2>1. SUFFICES ASSUME NEW i \in 1..(count + 1), NEW v \in DOMAIN frames'[i].names
                 PROVE  /\ v \in DOMAIN memo' /\ memo'[v] = frames'[i].names[v]
                        /\ memo'[v] \in Names
    BY <1>7, <1>9 DEF OneName
  <2>2. CASE i = count + 1
    <3>1. frames'[i].names = [w \in Free[p] |-> Translated(p, f)[w]]
      BY <1>9, <2>2 DEF fr
    <3>2. v \in Free[p] /\ frames'[i].names[v] = Translated(p, f)[v]
      BY <2>1, <3>1
    <3> QED BY <1>4, <3>2, TranslatedProps
  <2>3. CASE i # count + 1
    <3>1. i \in DOMAIN frames /\ frames'[i] = frames[i]
      BY <1>7, <1>9, <2>3
    <3>2. v \in DOMAIN memo /\ memo[v] = frames[i].names[v] /\ memo[v] \in Names
      BY <2>1, <3>1 DEF StackInv, OneName
    <3>3. v \notin Binders[p]
      <4>1. frames[i].pred \in Preds
        BY <1>7, <3>1, FrameType
      <4>2. v \in Free[frames[i].pred]
        BY <2>1, <3>1 DEF StackInv, Uses
      <4> QED BY <4>1, <4>2, NamesApart
    <3>4. memo'[v] = memo[v]
      BY <1>3, <1>4, <3>2, <3>3 DEF Translated, new
    <3> QED BY <1>4, <3>1, <3>2, <3>4, TranslatedProps
  <2> QED BY <2>2, <2>3
<1>16. Older'
  <2>1. SUFFICES ASSUME NEW i \in 1..(count + 1), NEW v \in DOMAIN frames'[i].names,
                        NEW j \in 1..(count + 2), v \in sections'[j]
                 PROVE  j <= i
    BY <1>7, <1>9, <1>10 DEF Older
  <2>2. j # count + 2
    BY <1>10, <2>1
  <2>3. CASE i = count + 1
    BY <1>7, <2>2, <2>3
  <2>4. CASE i # count + 1
    <3>1. i \in DOMAIN frames /\ frames'[i] = frames[i]
      BY <1>7, <1>9, <2>4
    <3>2. v \in DOMAIN memo
      BY <2>1, <3>1 DEF StackInv, OneName
    <3>3. v \notin Binders[p]
      <4>1. frames[i].pred \in Preds
        BY <1>7, <3>1, FrameType
      <4>2. v \in Free[frames[i].pred]
        BY <2>1, <3>1 DEF StackInv, Uses
      <4> QED BY <4>1, <4>2, NamesApart
    <3>4. j \in 1..(count + 1) /\ v \in S2[j]
      BY <1>7, <1>10, <2>1, <2>2
    <3>5. v \in sections[j]
      BY <1>5, <1>7, <3>2, <3>3, <3>4 DEF new
    <3>6. j \in DOMAIN sections
      BY <3>4 DEF StackInv, Typed, Stacks
    <3> QED BY <2>1, <3>1, <3>5, <3>6 DEF StackInv, Older
  <2> QED BY <2>3, <2>4
<1>17. frames'[count'].pred = p
  BY <1>4, <1>9 DEF fr
<1> QED BY <1>4, <1>9, <1>12, <1>13, <1>14, <1>15, <1>16, <1>17 DEF StackInv

(* So does pop, when a level is open.                                      *)
LEMMA PopStack ==
    ASSUME StackInv, count > 0, Pop
    PROVE  /\ StackInv' /\ count' = count - 1
           /\ \A i \in 1..(count - 1) : frames'[i] = frames[i]
<1>1. /\ count \in Nat /\ frames \in Seq(Frame) /\ Len(frames) = count
      /\ sections \in Seq(SUBSET Vars) /\ Len(sections) = count + 1
      /\ alive \in Seq(SUBSET Names) /\ Len(alive) = count + 1
  BY DEF StackInv, Typed, Stacks
<1>2. /\ count' = count - 1 /\ frames' = Front(frames)
      /\ sections' = Front(sections) /\ alive' = Front(alive)
      /\ memo' = [v \in DOMAIN memo \ sections[count + 1] |-> memo[v]]
  BY <1>1 DEF Pop, Top
<1>3. /\ frames' \in Seq(Frame) /\ Len(frames') = count - 1
      /\ \A i \in 1..(count - 1) : frames'[i] = frames[i]
  <2>1. Len(frames) > 0
    BY <1>1
  <2> QED BY <1>1, <1>2, <2>1, FrontProps
<1>4. /\ sections' \in Seq(SUBSET Vars) /\ Len(sections') = count
      /\ \A i \in 1..count : sections'[i] = sections[i]
  <2>1. Len(sections) > 0 /\ Len(sections) - 1 = count
    BY <1>1
  <2> QED BY <1>1, <1>2, <2>1, FrontProps
<1>5. /\ alive' \in Seq(SUBSET Names) /\ Len(alive') = count
      /\ \A i \in 1..count : alive'[i] = alive[i]
  <2>1. Len(alive) > 0 /\ Len(alive) - 1 = count
    BY <1>1
  <2> QED BY <1>1, <1>2, <2>1, FrontProps
<1>6. Typed' /\ Stacks'
  <2>1. memo' \in UNION {[V -> Names \cup {Quantified}] : V \in SUBSET Vars}
    <3>1. PICK V \in SUBSET Vars : memo \in [V -> Names \cup {Quantified}]
      BY DEF StackInv, Typed
    <3>2. V \ sections[count + 1] \in SUBSET Vars
      OBVIOUS
    <3>3. memo' \in [V \ sections[count + 1] -> Names \cup {Quantified}]
      BY <1>2, <3>1
    <3> QED BY <3>2, <3>3
  <2>2. count' \in Nat
    BY <1>1, <1>2
  <2>3. Stacks'
    BY <1>1, <1>2, <1>3, <1>4, <1>5 DEF Stacks
  <2> QED BY <1>3, <1>4, <1>5, <2>1, <2>2, <2>3 DEF Typed
<1>7. Uses'
  BY <1>1, <1>3 DEF Uses, StackInv
<1>8. ASSUME NEW v \in DOMAIN memo'
      PROVE  v \in DOMAIN memo /\ v \notin sections[count + 1] /\ memo'[v] = memo[v]
  BY <1>2, <1>8
<1>9. Homes'
  <2>1. SUFFICES ASSUME NEW v \in DOMAIN memo'
        PROVE  /\ \E i \in DOMAIN sections' : v \in sections'[i]
                      /\ (memo'[v] = Quantified \/ memo'[v] \in alive'[i])
               /\ memo'[v] = Quantified => \E q \in Preds : v \in Binders[q]
    BY DEF Homes
  <2>2. PICK i \in 1..(count + 1) :
            v \in sections[i] /\ (memo[v] = Quantified \/ memo[v] \in alive[i])
    BY <1>1, <1>8, <2>1 DEF StackInv, Homes
  <2>3. i \in 1..count
    BY <1>1, <1>8, <2>1, <2>2
  <2>4. i \in DOMAIN sections' /\ sections'[i] = sections[i] /\ alive'[i] = alive[i]
    BY <1>4, <1>5, <2>3
  <2>5. memo[v] = Quantified => \E q \in Preds : v \in Binders[q]
    BY <1>8, <2>1 DEF StackInv, Homes
  <2> QED BY <1>8, <2>1, <2>2, <2>4, <2>5
<1>10. ASSUME NEW i \in 1..(count - 1), NEW v \in DOMAIN frames'[i].names
       PROVE  i \in DOMAIN frames /\ v \in DOMAIN frames[i].names
              /\ frames'[i] = frames[i]
  BY <1>1, <1>3, <1>10
<1>11. OneName'
  <2>1. SUFFICES ASSUME NEW i \in 1..(count - 1), NEW v \in DOMAIN frames'[i].names
                 PROVE  /\ v \in DOMAIN memo' /\ memo'[v] = frames'[i].names[v]
                        /\ memo'[v] \in Names
    BY <1>1, <1>3 DEF OneName
  <2>2. v \in DOMAIN memo /\ memo[v] = frames[i].names[v] /\ memo[v] \in Names
    BY <1>10, <2>1 DEF StackInv, OneName
  <2>3. v \notin sections[count + 1]
    <3>1. count + 1 \in DOMAIN sections /\ ~(count + 1 <= i)
      BY <1>1, <2>1
    <3> QED BY <1>10, <2>1, <3>1 DEF StackInv, Older
  <2> QED BY <1>2, <1>10, <2>1, <2>2, <2>3
<1>12. Older'
  <2>1. SUFFICES ASSUME NEW i \in 1..(count - 1), NEW v \in DOMAIN frames'[i].names,
                        NEW j \in 1..count, v \in sections'[j]
                 PROVE  j <= i
    BY <1>1, <1>3, <1>4 DEF Older
  <2>2. j \in DOMAIN sections /\ v \in sections[j]
    BY <1>1, <1>4, <2>1
  <2> QED BY <1>10, <2>1, <2>2 DEF StackInv, Older
<1> QED BY <1>2, <1>3, <1>6, <1>7, <1>9, <1>11, <1>12 DEF StackInv

(***************************************************************************)
(* The client's part.                                                      *)
(***************************************************************************)

Asking == pc \in {"goal", "deepgoal"}

ClientInv ==
    /\ pc \in {"idle", "open", "wrapped", "goal", "deepgoal", "told", "once"}
    /\ held \in Seq(Preds)
    /\ verdict \in [asked : SUBSET Preds, unsat : BOOLEAN]
    /\ count = Depth
    /\ Len(held) = IF Asking THEN count - 1 ELSE count
    /\ \A i \in 1..Len(held) : frames[i].pred = held[i]
    /\ Asking => verdict.asked = Elements(held) \cup {frames[count].pred}
    /\ pc = "once" => verdict.asked = Elements(held)
    /\ AnswersQuestion

(* The inductive invariant, split into the prover's part and the client's. *)
LEMMA Parts == ProverInv <=> StackInv /\ ClientInv
<1>1. ASSUME ProverInv PROVE StackInv /\ ClientInv
  <2> USE <1>1 DEF ProverInv
  <2>1. StackInv
    BY DEF StackInv, Typed, Stacks, Uses, TypeOK, Balanced, Faithful, Frame
  <2>2. held \in Seq(Preds)
    BY DEF TypeOK
  <2>3. DOMAIN held = 1..Len(held)
    BY <2>2, SeqDomain
  <2> QED BY <2>1, <2>2, <2>3 DEF ClientInv, TypeOK, Balanced, Faithful, Asking
<1>2. ASSUME StackInv, ClientInv PROVE ProverInv
  <2> USE <1>2
  <2>1. TypeOK
    BY DEF StackInv, Typed, ClientInv, TypeOK, Frame
  <2>2. Balanced
    BY DEF StackInv, Stacks, ClientInv, Balanced
  <2>3. DOMAIN held = 1..Len(held)
    BY SeqDomain DEF ClientInv
  <2>4. Faithful
    BY <2>3 DEF ClientInv, StackInv, Uses, Faithful, Asking
  <2> QED BY <2>1, <2>2, <2>4 DEF ProverInv, StackInv, ClientInv
<1> QED BY <1>1, <1>2

(* Z3 answers for exactly what is held, and for the goal while one is      *)
(* asked.                                                                  *)
LEMMA UnsatMeans ==
    ASSUME StackInv, ClientInv
    PROVE  Unsat <=> Contradicts(IF Asking THEN verdict.asked ELSE Elements(held))
<1>1. SameNames
  <2>1. SUFFICES ASSUME NEW i \in DOMAIN frames, NEW j \in DOMAIN frames,
                        NEW v \in DOMAIN frames[i].names \cap DOMAIN frames[j].names
                 PROVE  frames[i].names[v] = frames[j].names[v]
    BY DEF SameNames
  <2>2. memo[v] = frames[i].names[v] /\ memo[v] = frames[j].names[v]
    BY <2>1 DEF StackInv, OneName
  <2> QED BY <2>2
<1>2. /\ count \in Nat /\ DOMAIN frames = 1..count
      /\ held \in Seq(Preds) /\ DOMAIN held = 1..Len(held)
      /\ \A i \in 1..Len(held) : frames[i].pred = held[i]
  <2>1. count \in Nat /\ frames \in Seq(Frame) /\ Len(frames) = count
    BY DEF StackInv, Typed, Stacks
  <2>2. held \in Seq(Preds) /\ \A i \in 1..Len(held) : frames[i].pred = held[i]
    BY DEF ClientInv
  <2> QED BY <2>1, <2>2, SeqDomain
<1>3. CASE ~Asking
  <2>1. Len(held) = count
    BY <1>3 DEF ClientInv
  <2>2. Asserted = Elements(held)
    BY <1>2, <2>1 DEF Asserted, Elements
  <2> QED BY <1>1, <1>3, <2>2 DEF Unsat
<1>4. CASE Asking
  <2>1. Len(held) = count - 1 /\ count # 0
    <3>1. Len(held) = count - 1 /\ count = Depth
      BY <1>4 DEF ClientInv
    <3>2. CASE pc = "goal"
      BY <3>1, <3>2 DEF Depth
    <3>3. CASE pc = "deepgoal"
      BY <3>1, <3>3 DEF Depth
    <3> QED BY <1>4, <3>1, <3>2, <3>3 DEF Asking
  <2>2. Asserted = Elements(held) \cup {frames[count].pred}
    <3>1. 1..count = 1..Len(held) \cup {count}
      BY <1>2, <2>1
    <3> QED BY <1>2, <3>1 DEF Asserted, Elements
  <2> QED BY <1>1, <1>4, <2>2 DEF Unsat, ClientInv
<1> QED BY <1>3, <1>4

-----------------------------------------------------------------------------
(* The context starts empty.                                               *)
LEMMA InvInit == Init => StackInv /\ ClientInv
<1> SUFFICES ASSUME Init PROVE StackInv /\ ClientInv
  OBVIOUS
<1> USE DEF Init
<1>1. StackInv
  <2>1. memo \in [{} -> Names \cup {Quantified}] /\ DOMAIN memo = {}
    OBVIOUS
  <2>2. Typed
    BY <2>1 DEF Typed
  <2>3. Stacks /\ Uses /\ OneName /\ Older
    BY DEF Stacks, Uses, OneName, Older
  <2>4. Homes
    BY <2>1 DEF Homes
  <2> QED BY <2>2, <2>3, <2>4 DEF StackInv
<1>2. ClientInv
  BY DEF ClientInv, Depth, Asking, NoVerdict, AnswersQuestion
<1> QED BY <1>1, <1>2

(* A query of implies or of sat, unsatisfiable, model opens one level.     *)
LEMMA InvOpen ==
    ASSUME StackInv, ClientInv, NEW p \in Preds, Implies(p) \/ OneShot(p)
    PROVE  StackInv' /\ ClientInv'
<1>1. StackInv /\ ClientInv
  OBVIOUS
<1>2. pc = "idle" /\ Push(p) /\ held' = <<p>>
  BY DEF Implies, OneShot
<1>3. count = 0
  BY <1>1, <1>2 DEF ClientInv, Depth
<1>4. StackInv' /\ count' = 1 /\ frames'[1].pred = p
  BY <1>1, <1>2, <1>3, PushStack
<1>5. held' \in Seq(Preds) /\ Len(held') = 1 /\ held'[1] = p /\ Elements(held') = {p}
  BY <1>2 DEF Elements
<1>6. ClientInv'
  <2>1. CASE Implies(p)
    BY <1>4, <1>5, <2>1
       DEF Implies, ClientInv, Depth, Asking, NoVerdict, AnswersQuestion
  <2>2. CASE OneShot(p)
    BY <1>4, <1>5, <2>2 DEF OneShot, ClientInv, Depth, Asking, AnswersQuestion
  <2> QED BY <2>1, <2>2
<1> QED BY <1>4, <1>6

(* Instances for a goal open a second one.                                 *)
LEMMA InvWrap ==
    ASSUME StackInv, ClientInv, NEW w \in Preds, Wrap(w)
    PROVE  StackInv' /\ ClientInv'
<1>1. StackInv /\ ClientInv
  OBVIOUS
<1>2. /\ pc = "open" /\ pc' = "wrapped" /\ Push(w)
      /\ held' = Append(held, w) /\ verdict' = NoVerdict
  BY DEF Wrap
<1>3. /\ count = 1 /\ Len(held) = 1 /\ held \in Seq(Preds)
      /\ frames[1].pred = held[1]
  BY <1>1, <1>2 DEF ClientInv, Depth, Asking
<1>4. /\ StackInv' /\ count' = 2 /\ frames'[1] = frames[1] /\ frames'[2].pred = w
  BY <1>1, <1>2, <1>3, PushStack
<1>5. /\ held' \in Seq(Preds) /\ Len(held') = 2
      /\ held'[1] = held[1] /\ held'[2] = w
  <2>1. /\ Append(held, w) \in Seq(Preds) /\ Len(Append(held, w)) = Len(held) + 1
        /\ \A i \in 1..Len(held) : Append(held, w)[i] = held[i]
        /\ Append(held, w)[Len(held) + 1] = w
    <3>1. w \in Preds /\ held \in Seq(Preds)
      BY <1>3
    <3> QED BY <3>1, AppendProperties
  <2> QED BY <1>2, <1>3, <2>1
<1>6. ClientInv'
  BY <1>2, <1>3, <1>4, <1>5 DEF ClientInv, Depth, Asking, NoVerdict, AnswersQuestion
<1> QED BY <1>4, <1>6

(* What the client holds, and the facts it asks about, are predicates.     *)
LEMMA AskedProps ==
    ASSUME ClientInv, NEW q \in Preds
    PROVE  Asked(q) \in SUBSET Preds /\ Elements(held) \subseteq Asked(q)
<1>1. Neg[q] \in Preds
  BY PredAssumption
<1>2. Elements(held) \in SUBSET Preds
  BY SeqDomain DEF ClientInv, Elements
<1> QED BY <1>1, <1>2 DEF Asked

(* A goal that needs no check is answered as a check would.                *)
LEMMA InvVacuous ==
    ASSUME StackInv, ClientInv, NEW q \in Preds, Vacuous(q)
    PROVE  StackInv' /\ ClientInv'
<1>1. StackInv /\ ClientInv
  OBVIOUS
<1>2. /\ pc \in {"open", "wrapped"} /\ Unsat
      /\ verdict' = [asked |-> Asked(q), unsat |-> TRUE]
      /\ pc' = IF pc = "open" THEN "open" ELSE "told"
      /\ UNCHANGED <<memo, sections, count, frames, alive, held>>
  BY DEF Vacuous, prover
<1>3. Contradicts(Elements(held))
  BY <1>1, <1>2, UnsatMeans DEF Asking
<1>4. Contradicts(Asked(q))
  BY <1>1, <1>3, AskedProps, ContradictsMonotone
<1>5. StackInv'
  BY <1>1, <1>2 DEF StackInv, Typed, Stacks, OneName, Homes, Older, Uses
<1>6. ClientInv'
  <2>1. Asked(q) \in SUBSET Preds
    BY <1>1, AskedProps
  <2>2. count = Depth' /\ ~Asking /\ ~Asking'
    BY <1>1, <1>2 DEF ClientInv, Depth, Asking
  <2> QED BY <1>1, <1>2, <1>4, <2>1, <2>2 DEF ClientInv, AnswersQuestion
<1> QED BY <1>5, <1>6

(* The negated goal opens the innermost level.                             *)
LEMMA InvAsk ==
    ASSUME StackInv, ClientInv, NEW q \in Preds, Ask(q)
    PROVE  StackInv' /\ ClientInv'
<1>1. StackInv /\ ClientInv
  OBVIOUS
<1>2. /\ pc \in {"open", "wrapped"} /\ Push(Neg[q])
      /\ verdict' = [asked |-> Asked(q), unsat |-> FALSE]
      /\ pc' = IF pc = "open" THEN "goal" ELSE "deepgoal"
      /\ held' = held
  BY DEF Ask
<1>3. Neg[q] \in Preds
  BY PredAssumption
<1>4. /\ StackInv' /\ count' = count + 1 /\ frames'[count'].pred = Neg[q]
      /\ \A i \in 1..count : frames'[i] = frames[i]
  BY <1>1, <1>2, <1>3, PushStack
<1>5. /\ count' = Depth' /\ ~Asking /\ Asking' /\ Len(held) = count
      /\ count' - 1 = count
  BY <1>1, <1>2, <1>4 DEF ClientInv, Depth, Asking
<1>6. Asked(q) \in SUBSET Preds
  BY <1>1, AskedProps
<1>7. verdict'.asked = Elements(held) \cup {frames'[count'].pred}
  BY <1>2, <1>4 DEF Asked
<1>8. pc' \in {"goal", "deepgoal"}
  BY <1>2
<1>9. ClientInv'
  BY <1>1, <1>2, <1>4, <1>5, <1>6, <1>7, <1>8 DEF ClientInv, AnswersQuestion
<1> QED BY <1>4, <1>9

(* The answer to a goal is the answer to the question asked, and its level *)
(* is closed.                                                              *)
LEMMA InvAnswer ==
    ASSUME StackInv, ClientInv, Answer
    PROVE  StackInv' /\ ClientInv'
<1>1. StackInv /\ ClientInv
  OBVIOUS
<1>2. /\ Asking /\ Pop /\ verdict' = [verdict EXCEPT !.unsat = Unsat]
      /\ pc' = IF pc = "goal" THEN "open" ELSE "told"
      /\ held' = held
  BY DEF Answer, Asking
<1>3. count > 0
  BY <1>1, <1>2 DEF ClientInv, Depth, Asking
<1>4. /\ StackInv' /\ count' = count - 1
      /\ \A i \in 1..(count - 1) : frames'[i] = frames[i]
  BY <1>1, <1>2, <1>3, PopStack
<1>5. Unsat <=> Contradicts(verdict.asked)
  BY <1>1, <1>2, UnsatMeans
<1>6. Unsat \in BOOLEAN
  BY DEF Unsat, SameNames
<1>7. /\ verdict' \in [asked : SUBSET Preds, unsat : BOOLEAN]
      /\ verdict'.asked = verdict.asked /\ verdict'.unsat = Unsat
  BY <1>1, <1>2, <1>6 DEF ClientInv
<1>8. /\ count' = Depth' /\ ~Asking' /\ Len(held) = count - 1
      /\ pc' \in {"open", "told"}
  BY <1>1, <1>2, <1>4 DEF ClientInv, Depth, Asking
<1>9. AnswersQuestion'
  BY <1>5, <1>7 DEF AnswersQuestion
<1>10. ClientInv'
  BY <1>1, <1>2, <1>4, <1>7, <1>8, <1>9 DEF ClientInv
<1> QED BY <1>4, <1>10

(* The instances of a goal are withdrawn.                                  *)
LEMMA InvUnwrap ==
    ASSUME StackInv, ClientInv, Unwrap
    PROVE  StackInv' /\ ClientInv'
<1>1. /\ pc = "told" /\ Pop /\ pc' = "open" /\ held' = Front(held)
      /\ verdict' = verdict
  BY DEF Unwrap
<1>2. count = 2 /\ Len(held) = 2 /\ held \in Seq(Preds)
  BY <1>1 DEF ClientInv, Depth, Asking
<1>3. StackInv' /\ count' = 1 /\ frames'[1] = frames[1]
  BY <1>1, <1>2, PopStack
<1>4. held' \in Seq(Preds) /\ Len(held') = 1 /\ held'[1] = held[1]
  <2>1. Len(held) > 0
    BY <1>2
  <2>2. /\ Front(held) \in Seq(Preds) /\ Len(Front(held)) = Len(held) - 1
        /\ \A i \in 1..(Len(held) - 1) : Front(held)[i] = held[i]
    BY <1>2, <2>1, FrontProps
  <2> QED BY <1>1, <1>2, <2>2
<1>5. AnswersQuestion'
  BY <1>1 DEF ClientInv, AnswersQuestion
<1>6. ClientInv'
  BY <1>1, <1>2, <1>3, <1>4, <1>5 DEF ClientInv, Depth, Asking
<1> QED BY <1>3, <1>6

(* The last level is closed: by finish, or after a query of its own.       *)
LEMMA InvClose ==
    ASSUME StackInv, ClientInv, Finish \/ OneAnswer
    PROVE  StackInv' /\ ClientInv'
<1>1. pc \in {"open", "once"} /\ Pop /\ pc' = "idle" /\ held' = <<>>
  BY DEF Finish, OneAnswer
<1>2. count = 1
  BY <1>1 DEF ClientInv, Depth
<1>3. StackInv' /\ count' = 0
  BY <1>1, <1>2, PopStack
<1>4. AnswersQuestion' /\ verdict' \in [asked : SUBSET Preds, unsat : BOOLEAN]
  <2>1. CASE Finish
    BY <2>1 DEF Finish, ClientInv, AnswersQuestion
  <2>2. CASE OneAnswer
    <3>1. pc = "once" /\ verdict' = [verdict EXCEPT !.unsat = Unsat]
      BY <2>2 DEF OneAnswer
    <3>2. Unsat <=> Contradicts(verdict.asked)
      BY <3>1, UnsatMeans DEF ClientInv, Asking
    <3>3. Unsat \in BOOLEAN
      BY DEF Unsat, SameNames
    <3>4. /\ verdict' \in [asked : SUBSET Preds, unsat : BOOLEAN]
          /\ verdict'.asked = verdict.asked /\ verdict'.unsat = Unsat
      BY <3>1, <3>3 DEF ClientInv
    <3> QED BY <3>2, <3>4 DEF AnswersQuestion
  <2> QED BY <2>1, <2>2
<1>5. ClientInv'
  BY <1>1, <1>3, <1>4 DEF ClientInv, Depth, Asking
<1> QED BY <1>3, <1>5

(* Every step of the client preserves the invariant.                       *)
LEMMA InvNext ==
    ASSUME StackInv, ClientInv, [Next]_vars
    PROVE  StackInv' /\ ClientInv'
<1>1. ASSUME NEW p \in Preds, Implies(p) \/ OneShot(p) PROVE StackInv' /\ ClientInv'
  BY <1>1, InvOpen
<1>2. ASSUME NEW p \in Preds, Wrap(p) PROVE StackInv' /\ ClientInv'
  BY <1>2, InvWrap
<1>3. ASSUME NEW p \in Preds, Vacuous(p) PROVE StackInv' /\ ClientInv'
  BY <1>3, InvVacuous
<1>4. ASSUME NEW p \in Preds, Ask(p) PROVE StackInv' /\ ClientInv'
  BY <1>4, InvAsk
<1>5. CASE Answer
  BY <1>5, InvAnswer
<1>6. CASE Unwrap
  BY <1>6, InvUnwrap
<1>7. CASE Finish \/ OneAnswer
  BY <1>7, InvClose
<1>8. CASE UNCHANGED vars
  <2>1. UNCHANGED <<memo, sections, count, frames, alive, pc, held, verdict>>
    BY <1>8 DEF vars, prover
  <2>2. StackInv'
    BY <2>1 DEF StackInv, Typed, Stacks, OneName, Homes, Older, Uses
  <2>3. ClientInv'
    BY <2>1 DEF ClientInv, Depth, Asking, AnswersQuestion
  <2> QED BY <2>2, <2>3
<1> QED BY <1>1, <1>2, <1>3, <1>4, <1>5, <1>6, <1>7, <1>8 DEF Next

-----------------------------------------------------------------------------
(* The inductive invariant holds in every state of every client.           *)
THEOREM Invariance == Spec => []ProverInv
<1>1. StackInv /\ ClientInv /\ [Next]_vars => (StackInv /\ ClientInv)'
  BY InvNext
<1> QED BY InvInit, <1>1, Parts, PTL DEF Spec

(* The table, the three stacks and the client's variables keep their type. *)
THEOREM TypeCorrect == Spec => []TypeOK
<1>1. ProverInv => TypeOK
  BY DEF ProverInv
<1> QED BY <1>1, Invariance, PTL

(* push and pop are balanced: Z3's stack, the Barriers and me.count have   *)
(* the depth of the query that runs, 0 between queries.                    *)
THEOREM ScopesBalance == Spec => []Balanced
<1>1. ProverInv => Balanced
  BY DEF ProverInv
<1> QED BY <1>1, Invariance, PTL

(* No constant in the table was freed.                                     *)
THEOREM NoDanglingEntry == Spec => []NothingDangles
<1>1. ProverInv => NothingDangles
  <2>1. SUFFICES ASSUME ProverInv, NEW v \in DOMAIN memo, memo[v] # Quantified
                 PROVE  memo[v] \in UNION Elements(alive)
    BY DEF NothingDangles
  <2>2. PICK i \in DOMAIN sections : memo[v] \in alive[i]
    BY <2>1 DEF ProverInv, Homes
  <2>3. i \in DOMAIN alive
    <3>1. /\ sections \in Seq(SUBSET Vars) /\ alive \in Seq(SUBSET Names)
          /\ Len(sections) = Len(alive)
      BY <2>1 DEF ProverInv, TypeOK, Balanced
    <3>2. DOMAIN sections = 1..Len(sections) /\ DOMAIN alive = 1..Len(alive)
      BY <3>1, SeqDomain
    <3> QED BY <3>1, <3>2
  <2> QED BY <2>2, <2>3 DEF Elements
<1> QED BY <1>1, Invariance, PTL

(* Hypothesis, instances and goal use one constant for a path.             *)
THEOREM OneConstantPerPath == Spec => []OneName
<1>1. ProverInv => OneName
  BY DEF ProverInv
<1> QED BY <1>1, Invariance, PTL

(* Every answer is the answer to the question of the client.               *)
THEOREM AnswersTheQuestion == Spec => []AnswersQuestion
<1>1. ProverInv => AnswersQuestion
  BY DEF ProverInv
<1> QED BY <1>1, Invariance, PTL
=============================================================================
