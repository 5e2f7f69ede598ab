------------------------ MODULE FormulaHandlesProofs ------------------------
(***************************************************************************)
(* Proofs about the formulas shared by OCaml and the C learner, for every  *)
(* number of addresses, of blocks and of slots: no pointer dangles, only   *)
(* formulas with all their slots set are freed, and nothing leaks but what *)
(* the stubs are known to keep.                                            *)
(*                                                                         *)
(* The argument is an account of references.  Every reference of a formula *)
(* has an owner: a block, a slot still to be given back, the C code that   *)
(* builds, the learner, or nobody any more (`kept`).  The count of a live  *)
(* formula is exactly the number of its owners; a formula being freed has  *)
(* none.  That the slots form no cycle is what makes exact counts enough   *)
(* for the second half.                                                    *)
(***************************************************************************)
EXTENDS FormulaHandles, FiniteSetTheorems, SequenceTheorems, TLAPS

Live == Allocated \ BeingFreed

One(P) == IF P THEN 1 ELSE 0
Owners(f) == Cardinality(Blocks(f)) + Cardinality(Slots(f))
             + One(f \in built) + One(mine = f) + kept[f]

(* Where the pieces of the heap lie.                                       *)
HeapInv ==
  /\ \A f \in Formulas : Len(sub[f]) <= MaxSlots
  /\ \A f \in Formulas : kind[f] = "none" => sub[f] = <<>>
  /\ \A f \in Formulas : f \notin BeingFreed => done[f] = 0
  /\ BeingFreed \subseteq Allocated
  /\ \A i, j \in 1 .. Len(freeing) : freeing[i] = freeing[j] => i = j

(* The account: a live formula has as many references as owners, and one   *)
(* at least; any other has no owner.                                       *)
CountInv ==
  /\ \A f \in Live : ref[f] = Owners(f) /\ ref[f] > 0
  /\ \A f \in Formulas \ Live : Owners(f) = 0

(* A slot was never set only in a formula whose creation reference is kept.*)
FilledInv ==
  \A f \in Formulas : \A i \in DOMAIN sub[f] : sub[f][i] = None => kept[f] > 0

(* No cycle: each set of formulas has one that no slot of the set leads to.*)
Acyclic ==
  \A B \in SUBSET Formulas : B # {} => \E f \in B : \A s \in Slots(f) : s[1] \notin B

(* What OCaml can reach, or a stub protects, is a block in use.            *)
RootInv ==
  \A h \in Handles : h \in rooted \cup args \/ h = asked => block[h] # None

(* Who holds what in which phase.                                          *)
PhaseInv ==
  /\ wrap # None => phase \in {"client", "callback", "query"}
  /\ phase = "query" => wrap \in built
  /\ mine # None <=> asked # None \/ phase \in {"query", "answered"}
  /\ phase = "callback" => asked # None
  /\ asked # None => phase \in {"callback", "copy"}

(* What Val_boolformula is about to wrap is kept alive by something that   *)
(* the collector, which runs before it is counted, cannot touch.           *)
WrapInv ==
  wrap # None /\ phase # "query" =>
    \/ kept[wrap] > 0
    \/ \E h \in args : block[h] = wrap
    \/ \E h \in args : block[h] # None /\ \E i \in DOMAIN sub[block[h]] : sub[block[h]][i] = wrap

Inv == HeapInv /\ CountInv /\ FilledInv /\ Acyclic
Stubs == RootInv /\ PhaseInv /\ WrapInv
IInv == TypeOK /\ Inv /\ Stubs

-----------------------------------------------------------------------------
(* Counting.                                                               *)

LEMMA BlocksFinite ==
  ASSUME NEW f
  PROVE  /\ IsFiniteSet(Blocks(f)) /\ Cardinality(Blocks(f)) \in Nat
         /\ Cardinality(Blocks(f)) = 0 <=> Blocks(f) = {}
<1>1. IsFiniteSet(Blocks(f))
  BY HandlesAssumption, FS_Subset DEF Blocks
<1> QED BY <1>1, FS_CardinalityType, FS_EmptySet

LEMMA SlotsFinite ==
  ASSUME NEW f
  PROVE  /\ IsFiniteSet(Slots(f)) /\ Cardinality(Slots(f)) \in Nat
         /\ Cardinality(Slots(f)) = 0 <=> Slots(f) = {}
<1>1. IsFiniteSet(1 .. MaxSlots)
  BY BoundsAssumption, FS_Interval
<1>2. IsFiniteSet(Formulas \X (1 .. MaxSlots))
  BY <1>1, FormulasAssumption, FS_Product
<1>3. IsFiniteSet(Slots(f))
  BY <1>2, FS_Subset DEF Slots
<1> QED BY <1>3, FS_CardinalityType, FS_EmptySet

(* A formula has no owner exactly when nothing holds it.                   *)
LEMMA OwnersType ==
  ASSUME TypeOK, NEW f \in Formulas
  PROVE  /\ Owners(f) \in Nat
         /\ Owners(f) = 0 <=> /\ Blocks(f) = {} /\ Slots(f) = {}
                              /\ f \notin built /\ mine # f /\ kept[f] = 0
<1>1. kept[f] \in Nat
  BY DEF TypeOK
<1>2. \A P \in BOOLEAN : One(P) \in Nat /\ (One(P) = 0 <=> ~P)
  BY DEF One
<1>3. (f \in built) \in BOOLEAN /\ (mine = f) \in BOOLEAN
  OBVIOUS
<1>4. One(f \in built) \in Nat /\ (One(f \in built) = 0 <=> f \notin built)
  BY <1>2, <1>3 DEF One
<1>5. One(mine = f) \in Nat /\ (One(mine = f) = 0 <=> mine # f)
  BY <1>2, <1>3 DEF One
<1> DEFINE a == Cardinality(Blocks(f))
           b == Cardinality(Slots(f))
           c == One(f \in built)
           d == One(mine = f)
<1>6. Owners(f) = a + b + c + d + kept[f]
  BY DEF Owners
<1>7. a \in Nat /\ b \in Nat /\ c \in Nat /\ d \in Nat
  BY <1>4, <1>5, BlocksFinite, SlotsFinite
<1>8. /\ a = 0 <=> Blocks(f) = {}
      /\ b = 0 <=> Slots(f) = {}
      /\ c = 0 <=> f \notin built
      /\ d = 0 <=> mine # f
  BY <1>4, <1>5, BlocksFinite, SlotsFinite
<1> HIDE DEF a, b, c, d
<1> QED BY <1>1, <1>6, <1>7, <1>8

(* A slot, and the formula it leads to.                                    *)
LEMMA SlotPair ==
  ASSUME NEW f
  PROVE  /\ \A p, i : <<p, i>> \in Slots(f) <=>
               /\ p \in Formulas /\ i \in 1 .. MaxSlots
               /\ i \in DOMAIN sub[p] /\ i > done[p] /\ sub[p][i] = f
         /\ \A p, i : <<p, i>> \in Slots(f)' <=>
               /\ p \in Formulas /\ i \in 1 .. MaxSlots
               /\ i \in DOMAIN sub'[p] /\ i > done'[p] /\ sub'[p][i] = f
  BY DEF Slots

LEMMA SlotsEqual ==
  ASSUME NEW S, S \subseteq Formulas \X (1 .. MaxSlots),
         NEW T, T \subseteq Formulas \X (1 .. MaxSlots),
         \A p \in Formulas, i \in 1 .. MaxSlots : <<p, i>> \in S <=> <<p, i>> \in T
  PROVE  S = T
  OBVIOUS

LEMMA SlotsBound ==
  ASSUME NEW f
  PROVE  /\ Slots(f) \subseteq Formulas \X (1 .. MaxSlots)
         /\ Slots(f)' \subseteq Formulas \X (1 .. MaxSlots)
  BY DEF Slots

LEMMA SlotsSame ==
  ASSUME NEW f,
         \A p \in Formulas, i \in 1 .. MaxSlots : <<p, i>> \in Slots(f)' <=> <<p, i>> \in Slots(f)
  PROVE  Slots(f)' = Slots(f)
<1>1. /\ Slots(f) \subseteq Formulas \X (1 .. MaxSlots)
      /\ Slots(f)' \subseteq Formulas \X (1 .. MaxSlots)
  BY SlotsBound
<1> QED BY <1>1, SlotsEqual

-----------------------------------------------------------------------------
(* What is being freed: a formula is put before the others, or the first   *)
(* one is done.                                                            *)

LEMMA Push ==
  ASSUME NEW q \in Seq(Formulas), NEW f \in Formulas
  PROVE  /\ <<f>> \o q \in Seq(Formulas)
         /\ {(<<f>> \o q)[i] : i \in 1 .. Len(<<f>> \o q)} = {q[i] : i \in 1 .. Len(q)} \cup {f}
         /\ (\A i, j \in 1 .. Len(q) : q[i] = q[j] => i = j) /\ f \notin {q[i] : i \in 1 .. Len(q)}
            => \A i, j \in 1 .. Len(<<f>> \o q) : (<<f>> \o q)[i] = (<<f>> \o q)[j] => i = j
<1> DEFINE r == <<f>> \o q
<1>1. <<f>> \in Seq(Formulas) /\ Len(<<f>>) = 1 /\ <<f>>[1] = f
  OBVIOUS
<1>2. Len(q) \in Nat
  BY LenProperties
<1>3. /\ r \in Seq(Formulas) /\ Len(r) = 1 + Len(q)
      /\ \A i \in 1 .. 1 + Len(q) : r[i] = IF i <= 1 THEN f ELSE q[i - 1]
  BY <1>1, <1>2, ConcatProperties
<1> HIDE DEF r
<1>4. r[1] = f /\ \A i \in 1 .. Len(q) : r[i + 1] = q[i]
  BY <1>2, <1>3
<1>5. {r[i] : i \in 1 .. Len(r)} = {q[i] : i \in 1 .. Len(q)} \cup {f}
  <2>1. \A i \in 1 .. Len(r) : i = 1 \/ (i - 1 \in 1 .. Len(q) /\ r[i] = q[i - 1])
    BY <1>2, <1>3
  <2>2. \A i \in 1 .. Len(q) : i + 1 \in 1 .. Len(r)
    BY <1>2, <1>3
  <2>3. 1 \in 1 .. Len(r)
    BY <1>2, <1>3
  <2> QED BY <1>4, <2>1, <2>2, <2>3
<1>6. ASSUME \A i, j \in 1 .. Len(q) : q[i] = q[j] => i = j,
             f \notin {q[i] : i \in 1 .. Len(q)},
             NEW i \in 1 .. Len(r), NEW j \in 1 .. Len(r), r[i] = r[j]
      PROVE  i = j
  <2>1. i = 1 \/ (i - 1 \in 1 .. Len(q) /\ r[i] = q[i - 1])
    BY <1>2, <1>3
  <2>2. j = 1 \/ (j - 1 \in 1 .. Len(q) /\ r[j] = q[j - 1])
    BY <1>2, <1>3
  <2>3. i \in Int /\ j \in Int
    BY <1>2, <1>3
  <2>4. \A m \in 1 .. Len(q) : q[m] # f
    BY <1>6
  <2> QED BY <1>4, <1>6, <2>1, <2>2, <2>3, <2>4
<1> QED BY <1>3, <1>5, <1>6 DEF r

LEMMA Pop ==
  ASSUME NEW q \in Seq(Formulas), q # <<>>,
         \A i, j \in 1 .. Len(q) : q[i] = q[j] => i = j
  PROVE  /\ Tail(q) \in Seq(Formulas)
         /\ Head(q) \in {q[i] : i \in 1 .. Len(q)}
         /\ {Tail(q)[i] : i \in 1 .. Len(Tail(q))} = {q[i] : i \in 1 .. Len(q)} \ {Head(q)}
         /\ \A i, j \in 1 .. Len(Tail(q)) : Tail(q)[i] = Tail(q)[j] => i = j
<1> DEFINE r == Tail(q)
<1>1. Len(q) \in Nat /\ Len(q) > 0 /\ Head(q) = q[1]
  BY EmptySeq, LenProperties
<1>2. /\ r \in Seq(Formulas) /\ Len(r) = Len(q) - 1
      /\ \A i \in 1 .. Len(r) : r[i] = q[i + 1]
  BY HeadTailProperties
<1> HIDE DEF r
<1>3. \A i \in 1 .. Len(r) : i + 1 \in 1 .. Len(q) /\ i + 1 # 1
  BY <1>1, <1>2
<1>4. \A i \in 1 .. Len(q) : i = 1 \/ (i - 1 \in 1 .. Len(r) /\ r[i - 1] = q[i])
  BY <1>1, <1>2
<1>5. 1 \in 1 .. Len(q)
  BY <1>1
<1>6. {r[i] : i \in 1 .. Len(r)} = {q[i] : i \in 1 .. Len(q)} \ {q[1]}
  <2>1. ASSUME NEW i \in 1 .. Len(r)
        PROVE  r[i] \in {q[j] : j \in 1 .. Len(q)} \ {q[1]}
    BY <1>2, <1>3, <1>5
  <2>2. ASSUME NEW i \in 1 .. Len(q), q[i] # q[1]
        PROVE  q[i] \in {r[j] : j \in 1 .. Len(r)}
    BY <1>4, <2>2
  <2> QED BY <2>1, <2>2
<1>7. ASSUME NEW i \in 1 .. Len(r), NEW j \in 1 .. Len(r), r[i] = r[j] PROVE i = j
  <2>1. i + 1 = j + 1
    BY <1>2, <1>3, <1>7
  <2> QED BY <1>2, <2>1
<1> QED BY <1>1, <1>2, <1>5, <1>6, <1>7 DEF r

-----------------------------------------------------------------------------
(* What an operation on the heap does to the slots.                        *)

LEMMA SameSlots ==
  ASSUME UNCHANGED <<sub, done>>
  PROVE  \A g \in Formulas : Slots(g)' = Slots(g)
  BY DEF Slots

(* A new formula has no slot that is set.                                  *)
LEMMA NewSlots ==
  ASSUME TypeOK, HeapInv, NEW f \in Formulas, kind[f] = "none",
         NEW q, \A i \in DOMAIN q : q[i] = None,
         sub' = [sub EXCEPT ![f] = q], UNCHANGED done
  PROVE  \A g \in Formulas : Slots(g)' = Slots(g)
<1> SUFFICES ASSUME NEW g \in Formulas PROVE Slots(g)' = Slots(g)
  OBVIOUS
<1>1. sub[f] = <<>> /\ sub'[f] = q
  BY DEF TypeOK, HeapInv
<1>2. ASSUME NEW p \in Formulas, NEW i \in 1 .. MaxSlots
      PROVE  <<p, i>> \in Slots(g)' <=> <<p, i>> \in Slots(g)
  <2>1. CASE p = f
    BY <1>1, <2>1, SlotPair, FormulasAssumption
  <2>2. CASE p # f
    BY <2>2, SlotPair DEF TypeOK
  <2> QED BY <2>1, <2>2
<1> QED BY <1>2, SlotsSame

(* A child is appended.                                                    *)
LEMMA AppendSlot ==
  ASSUME TypeOK, HeapInv, NEW p \in Formulas, p \notin BeingFreed, NEW c \in Formulas,
         Len(sub[p]) < MaxSlots,
         sub' = [sub EXCEPT ![p] = Append(@, c)], UNCHANGED done
  PROVE  \E s : /\ s[1] = p /\ s \notin Slots(c) /\ Slots(c)' = Slots(c) \cup {s}
                /\ \A g \in Formulas \ {c} : Slots(g)' = Slots(g)
<1> DEFINE n == Len(sub[p]) + 1
<1>1. sub[p] \in Seq(Formulas \cup {None}) /\ done[p] = 0
  BY DEF TypeOK, HeapInv
<1>2. /\ DOMAIN sub[p] = 1 .. (n - 1) /\ n \in Nat /\ n > 0 /\ n \in 1 .. MaxSlots
      /\ DOMAIN Append(sub[p], c) = 1 .. n
      /\ Append(sub[p], c)[n] = c
      /\ \A i \in 1 .. (n - 1) : Append(sub[p], c)[i] = sub[p][i]
  BY <1>1, BoundsAssumption, LenProperties
<1>3. sub'[p] = Append(sub[p], c)
  BY DEF TypeOK
<1> HIDE DEF n
<1>4. ASSUME NEW g \in Formulas, NEW r \in Formulas, NEW i \in 1 .. MaxSlots
      PROVE  <<r, i>> \in Slots(g)' <=> <<r, i>> \in Slots(g) \/ (g = c /\ r = p /\ i = n)
  <2>1. CASE r = p
    <3>1. i \in 1 .. n <=> i \in 1 .. (n - 1) \/ i = n
      BY <1>2
    <3> QED BY <1>1, <1>2, <1>3, <2>1, <3>1, SlotPair
  <2>2. CASE r # p
    <3>1. sub'[r] = sub[r] /\ done'[r] = done[r]
      BY <2>2 DEF TypeOK
    <3> QED BY <2>2, <3>1, SlotPair
  <2> QED BY <2>1, <2>2
<1>5. <<p, n>> \notin Slots(c)
  BY <1>2, SlotPair
<1>6. Slots(c)' = Slots(c) \cup {<<p, n>>}
  <2>1. Slots(c) \cup {<<p, n>>} \subseteq Formulas \X (1 .. MaxSlots)
    BY <1>2, SlotsBound
  <2> QED BY <1>4, <2>1, SlotsBound, SlotsEqual
<1>7. ASSUME NEW g \in Formulas \ {c} PROVE Slots(g)' = Slots(g)
  <2>1. \A r \in Formulas, i \in 1 .. MaxSlots : <<r, i>> \in Slots(g)' <=> <<r, i>> \in Slots(g)
    BY <1>4
  <2> QED BY <2>1, SlotsSame
<1> QED BY <1>5, <1>6, <1>7

(* A slot is set.                                                          *)
LEMMA PutSlot ==
  ASSUME TypeOK, HeapInv, NEW p \in Formulas, p \notin BeingFreed, NEW c \in Formulas,
         NEW i \in DOMAIN sub[p],
         sub' = [sub EXCEPT ![p] = [@ EXCEPT ![i] = c]], UNCHANGED done
  PROVE  \A g \in Formulas :
           /\ Slots(g)' = IF g = c THEN Slots(g) \cup {<<p, i>>} ELSE Slots(g) \ {<<p, i>>}
           /\ <<p, i>> \in Slots(g) <=> sub[p][i] = g
<1>1. sub[p] \in Seq(Formulas \cup {None}) /\ done[p] = 0 /\ Len(sub[p]) <= MaxSlots
  BY DEF TypeOK, HeapInv
<1>2. i \in 1 .. MaxSlots /\ i > 0 /\ DOMAIN sub[p] = 1 .. Len(sub[p])
  BY <1>1, BoundsAssumption, LenProperties
<1>3. sub'[p] = [sub[p] EXCEPT ![i] = c]
  BY DEF TypeOK
<1>4. DOMAIN sub'[p] = DOMAIN sub[p] /\ \A j \in DOMAIN sub[p] : sub'[p][j] = IF j = i THEN c ELSE sub[p][j]
  BY <1>1, <1>2, <1>3
<1> SUFFICES ASSUME NEW g \in Formulas
             PROVE  /\ Slots(g)' = IF g = c THEN Slots(g) \cup {<<p, i>>} ELSE Slots(g) \ {<<p, i>>}
                    /\ <<p, i>> \in Slots(g) <=> sub[p][i] = g
  OBVIOUS
<1>5. <<p, i>> \in Slots(g) <=> sub[p][i] = g
  BY <1>1, <1>2, SlotPair
<1>6. ASSUME NEW r \in Formulas, NEW j \in 1 .. MaxSlots
      PROVE  <<r, j>> \in Slots(g)' <=> IF r = p /\ j = i THEN g = c ELSE <<r, j>> \in Slots(g)
  <2>1. CASE r = p
    BY <1>1, <1>2, <1>4, <2>1, SlotPair
  <2>2. CASE r # p
    <3>1. sub'[r] = sub[r] /\ done'[r] = done[r]
      BY <2>2 DEF TypeOK
    <3> QED BY <2>2, <3>1, SlotPair
  <2> QED BY <2>1, <2>2
<1>7. CASE g = c
  <2>1. Slots(g) \cup {<<p, i>>} \subseteq Formulas \X (1 .. MaxSlots)
    BY <1>2, SlotsBound
  <2>2. Slots(g)' = Slots(g) \cup {<<p, i>>}
    BY <1>6, <1>7, <2>1, SlotsBound, SlotsEqual
  <2> QED BY <1>5, <1>7, <2>2
<1>8. CASE g # c
  <2>1. Slots(g) \ {<<p, i>>} \subseteq Formulas \X (1 .. MaxSlots)
    BY SlotsBound
  <2>2. Slots(g)' = Slots(g) \ {<<p, i>>}
    BY <1>6, <1>8, <2>1, SlotsBound, SlotsEqual
  <2> QED BY <1>5, <1>8, <2>2
<1> QED BY <1>7, <1>8

(* boolformula_free goes on to the next slot.                              *)
LEMMA StepSlot ==
  ASSUME TypeOK, HeapInv, NEW f \in Formulas, NEW c \in Formulas,
         done[f] < Len(sub[f]), sub[f][done[f] + 1] = c,
         done' = [done EXCEPT ![f] = @ + 1], UNCHANGED sub
  PROVE  \E s : /\ s \in Slots(c) /\ Slots(c)' = Slots(c) \ {s}
                /\ \A g \in Formulas \ {c} : Slots(g)' = Slots(g)
<1> DEFINE i == done[f] + 1
<1>1. sub[f] \in Seq(Formulas \cup {None}) /\ done[f] \in Nat /\ Len(sub[f]) <= MaxSlots
  BY DEF TypeOK, HeapInv
<1>2. i \in 1 .. MaxSlots /\ i \in DOMAIN sub[f] /\ i > done[f] /\ done'[f] = i
  BY <1>1, BoundsAssumption, LenProperties DEF TypeOK
<1>3. \A j \in 1 .. MaxSlots : j > i <=> j > done[f] /\ j # i
  BY <1>1
<1>4. sub[f][i] = c
  OBVIOUS
<1> HIDE DEF i
<1>5. \A g \in Formulas : <<f, i>> \in Slots(g) <=> g = c
  BY <1>2, <1>4, SlotPair
<1>6. ASSUME NEW g \in Formulas, NEW r \in Formulas, NEW j \in 1 .. MaxSlots
      PROVE  <<r, j>> \in Slots(g)' <=> <<r, j>> \in Slots(g) /\ ~(r = f /\ j = i)
  <2>1. CASE r = f
    BY <1>2, <1>3, <2>1, SlotPair
  <2>2. CASE r # f
    <3>1. sub'[r] = sub[r] /\ done'[r] = done[r]
      BY <2>2 DEF TypeOK
    <3> QED BY <2>2, <3>1, SlotPair
  <2> QED BY <2>1, <2>2
<1>7. Slots(c)' = Slots(c) \ {<<f, i>>}
  <2>1. Slots(c) \ {<<f, i>>} \subseteq Formulas \X (1 .. MaxSlots)
    BY SlotsBound
  <2> QED BY <1>6, <2>1, SlotsBound, SlotsEqual
<1>8. ASSUME NEW g \in Formulas \ {c} PROVE Slots(g)' = Slots(g)
  BY <1>5, <1>6, SlotsBound, SlotsEqual
<1> QED BY <1>5, <1>7, <1>8

(* boolformula_free is done with a formula, whose slots are all passed.    *)
LEMMA LastSlot ==
  ASSUME TypeOK, HeapInv, NEW f \in Formulas, done[f] = Len(sub[f]),
         sub' = [sub EXCEPT ![f] = <<>>], done' = [done EXCEPT ![f] = 0]
  PROVE  \A g \in Formulas : Slots(g)' = Slots(g)
<1>1. sub[f] \in Seq(Formulas \cup {None}) /\ done[f] \in Nat
  BY DEF TypeOK
<1>2. DOMAIN sub[f] = 1 .. done[f] /\ sub'[f] = <<>>
  BY <1>1, LenProperties DEF TypeOK
<1> SUFFICES ASSUME NEW g \in Formulas PROVE Slots(g)' = Slots(g)
  OBVIOUS
<1>3. ASSUME NEW r \in Formulas, NEW j \in 1 .. MaxSlots
      PROVE  <<r, j>> \in Slots(g)' <=> <<r, j>> \in Slots(g)
  <2>1. CASE r = f
    <3>1. ~(j \in 1 .. done[f] /\ j > done[f])
      BY <1>1
    <3>2. j \notin DOMAIN sub'[f]
      BY <1>2
    <3> QED BY <1>2, <2>1, <3>1, <3>2, SlotPair
  <2>2. CASE r # f
    BY <2>2, SlotPair DEF TypeOK
  <2> QED BY <2>1, <2>2
<1> QED BY <1>3, SlotsBound, SlotsEqual

-----------------------------------------------------------------------------
(* No cycle appears when slots go away, nor when the formula that gets a   *)
(* child cannot be reached from it.                                        *)

LEMMA AcyclicShrinks ==
  ASSUME Acyclic, \A g \in Formulas : Slots(g)' \subseteq Slots(g)
  PROVE  Acyclic'
  BY DEF Acyclic

LEMMA AcyclicGrows ==
  ASSUME Acyclic, NEW p \in Formulas, NEW c \in Formulas, p \notin Reach({c}),
         \A g \in Formulas \ {c} : Slots(g)' \subseteq Slots(g),
         \A s \in Slots(c)' : s \in Slots(c) \/ s[1] = p
  PROVE  Acyclic'
<1>1. PICK T \in SUBSET Formulas : c \in T /\ Closed(T) /\ p \notin T
  BY DEF Reach
<1> SUFFICES ASSUME NEW B \in SUBSET Formulas, B # {},
                    \A f \in B : \E s \in Slots(f)' : s[1] \in B
             PROVE  FALSE
  BY DEF Acyclic
<1>2. PICK f \in B : \A s \in Slots(f) : s[1] \notin B
  BY DEF Acyclic
<1>3. PICK s \in Slots(f)' : s[1] \in B
  OBVIOUS
<1>4. p \in B
  BY <1>2, <1>3
<1>5. B \ T \in SUBSET Formulas /\ B \ T # {}
  BY <1>1, <1>4
<1>6. PICK g \in B \ T : \A r \in Slots(g) : r[1] \notin B \ T
  BY <1>5 DEF Acyclic
<1>7. PICK r \in Slots(g)' : r[1] \in B
  BY <1>6
<1>8. g # c /\ r \in Slots(g)
  BY <1>1, <1>6, <1>7
<1>9. r[1] \in T
  BY <1>6, <1>7, <1>8
<1> QED BY <1>1, <1>6, <1>8, <1>9 DEF Closed

-----------------------------------------------------------------------------
(* The account of references.                                              *)

(* What has an owner is live, and what is not has none.                    *)
LEMMA OwnedLive ==
  ASSUME TypeOK, CountInv, NEW f \in Formulas
  PROVE  /\ Owners(f) # 0 => f \in Live
         /\ Blocks(f) # {} \/ Slots(f) # {} \/ f \in built \/ mine = f \/ kept[f] # 0
            => f \in Live /\ Owners(f) # 0
  BY OwnersType DEF CountInv

(* boolformula_free takes one reference from f: an owner less, or, when    *)
(* there is no other, the formula is put among those being freed.          *)
LEMMA FreeOne ==
  ASSUME TypeOK, HeapInv, CountInv, NEW f \in Formulas, Free(f), UNCHANGED kind,
         Owners(f) # 0,
         \A g \in Formulas : Owners(g)' = IF g = f THEN Owners(g) - 1 ELSE Owners(g)
  PROVE  /\ CountInv'
         /\ ref' \in [Formulas -> Nat] /\ freeing' \in Seq(Formulas)
         /\ BeingFreed \subseteq BeingFreed' /\ BeingFreed' \subseteq Allocated'
         /\ \A i, j \in 1 .. Len(freeing') : freeing'[i] = freeing'[j] => i = j
<1>1. f \in Live
  BY OwnedLive
<1>2. ref[f] = Owners(f) /\ ref[f] \in Nat /\ ref[f] > 0 /\ Allocated' = Allocated
  BY <1>1 DEF CountInv, TypeOK, Allocated
<1>3. CASE ref[f] > 1 /\ ref' = [ref EXCEPT ![f] = @ - 1] /\ UNCHANGED freeing
  <2>1. BeingFreed' = BeingFreed /\ Live' = Live
    BY <1>2, <1>3 DEF BeingFreed, Live
  <2>2. ref' \in [Formulas -> Nat]
    BY <1>2, <1>3 DEF TypeOK
  <2>3. \A g \in Formulas : ref'[g] = IF g = f THEN ref[g] - 1 ELSE ref[g]
    BY <1>3 DEF TypeOK
  <2>4. \A g \in Live : g \in Formulas
    BY DEF Live, Allocated
  <2>5. \A g \in Live : ref'[g] = Owners(g)' /\ ref'[g] > 0
    BY <1>2, <1>3, <2>3, <2>4 DEF CountInv
  <2>6. \A g \in Formulas \ Live : Owners(g)' = 0
    BY <1>1 DEF CountInv
  <2>7. CountInv'
    BY <2>1, <2>5, <2>6 DEF CountInv
  <2> QED BY <1>2, <1>3, <2>1, <2>2, <2>7 DEF HeapInv, TypeOK
<1>4. CASE ref[f] <= 1 /\ freeing' = <<f>> \o freeing /\ UNCHANGED ref
  <2>1. f \in Allocated /\ f \notin BeingFreed
    BY <1>1 DEF Live
  <2>2. /\ freeing' \in Seq(Formulas) /\ BeingFreed' = BeingFreed \cup {f}
        /\ \A i, j \in 1 .. Len(freeing') : freeing'[i] = freeing'[j] => i = j
    <3>1. /\ freeing \in Seq(Formulas) /\ f \notin {freeing[i] : i \in 1 .. Len(freeing)}
          /\ \A i, j \in 1 .. Len(freeing) : freeing[i] = freeing[j] => i = j
      BY <2>1 DEF TypeOK, HeapInv, BeingFreed
    <3>2. /\ freeing' \in Seq(Formulas)
          /\ {freeing'[i] : i \in 1 .. Len(freeing')} = {freeing[i] : i \in 1 .. Len(freeing)} \cup {f}
          /\ \A i, j \in 1 .. Len(freeing') : freeing'[i] = freeing'[j] => i = j
      BY <1>4, <3>1, Push
    <3> QED BY <3>2 DEF BeingFreed
  <2>3. Live' = Live \ {f}
    BY <1>2, <2>2 DEF Live
  <2>4. Owners(f)' = 0
    BY <1>2, <1>4
  <2>5. \A g \in Live : g \in Formulas
    BY DEF Live, Allocated
  <2>6. CountInv'
    BY <1>4, <2>3, <2>4, <2>5 DEF CountInv
  <2> QED BY <1>2, <1>4, <2>1, <2>2, <2>6 DEF HeapInv, TypeOK
<1> QED BY <1>3, <1>4 DEF Free

(* A live formula gets one reference and one owner.                        *)
LEMMA GainOne ==
  ASSUME TypeOK, CountInv, NEW f \in Live,
         ref' = [ref EXCEPT ![f] = @ + 1], UNCHANGED <<kind, freeing>>,
         \A g \in Formulas : Owners(g)' = IF g = f THEN Owners(g) + 1 ELSE Owners(g)
  PROVE  CountInv' /\ ref' \in [Formulas -> Nat]
<1>1. Live' = Live /\ f \in Formulas /\ Live \subseteq Formulas
  BY DEF Live, Allocated, BeingFreed
<1>2. ref' \in [Formulas -> Nat] /\ \A g \in Formulas : ref'[g] = IF g = f THEN ref[g] + 1 ELSE ref[g]
  BY <1>1 DEF TypeOK
<1>3. ref[f] \in Nat
  BY <1>1 DEF TypeOK
<1>4. \A g \in Live : ref'[g] = Owners(g)' /\ ref'[g] > 0
  BY <1>1, <1>2, <1>3 DEF CountInv
<1>5. \A g \in Formulas \ Live : Owners(g)' = 0
  BY <1>1 DEF CountInv
<1> QED BY <1>1, <1>2, <1>4, <1>5 DEF CountInv

(* A new formula has one reference and one owner.                          *)
LEMMA NewOne ==
  ASSUME TypeOK, HeapInv, CountInv, NEW f \in Formulas, NEW k \in {"literal", "node"}, NEW q,
         New(f, k, q), UNCHANGED freeing,
         \A g \in Formulas : Owners(g)' = IF g = f THEN Owners(g) + 1 ELSE Owners(g)
  PROVE  /\ CountInv' /\ ref' \in [Formulas -> Nat]
         /\ kind' \in [Formulas -> {"none", "literal", "node"}]
         /\ Allocated' = Allocated \cup {f}
<1>1. kind[f] = "none" /\ kind' = [kind EXCEPT ![f] = k] /\ ref' = [ref EXCEPT ![f] = 1]
  BY DEF New
<1>2. /\ kind' \in [Formulas -> {"none", "literal", "node"}]
      /\ \A g \in Formulas : kind'[g] = IF g = f THEN k ELSE kind[g]
  BY <1>1 DEF TypeOK
<1>3. /\ ref' \in [Formulas -> Nat]
      /\ \A g \in Formulas : ref'[g] = IF g = f THEN 1 ELSE ref[g]
  BY <1>1 DEF TypeOK
<1>4. Allocated' = Allocated \cup {f} /\ BeingFreed' = BeingFreed /\ f \notin BeingFreed
  BY <1>1, <1>2 DEF Allocated, BeingFreed, HeapInv
<1>5. Live' = Live \cup {f} /\ f \notin Live /\ Live \subseteq Formulas
  BY <1>1, <1>4 DEF Live, Allocated
<1>6. Owners(f)' = 1
  BY <1>5 DEF CountInv
<1>7. \A g \in Live' : ref'[g] = Owners(g)' /\ ref'[g] > 0
  BY <1>3, <1>5, <1>6 DEF CountInv
<1>8. \A g \in Formulas \ Live' : Owners(g)' = 0
  BY <1>5 DEF CountInv
<1> QED BY <1>2, <1>3, <1>4, <1>7, <1>8 DEF CountInv

(* A block is given to a formula, or taken from it.                        *)
LEMMA BlockGiven ==
  ASSUME TypeOK, NEW h \in Handles, block[h] = None, NEW f \in Formulas,
         block' = [block EXCEPT ![h] = f]
  PROVE  \A g \in Formulas : Cardinality(Blocks(g)')
            = IF g = f THEN Cardinality(Blocks(g)) + 1 ELSE Cardinality(Blocks(g))
<1> SUFFICES ASSUME NEW g \in Formulas
             PROVE  Cardinality(Blocks(g)')
                    = IF g = f THEN Cardinality(Blocks(g)) + 1 ELSE Cardinality(Blocks(g))
  OBVIOUS
<1>1. \A x \in Handles : block'[x] = IF x = h THEN f ELSE block[x]
  BY DEF TypeOK
<1>2. h \notin Blocks(g)
  BY FormulasAssumption DEF Blocks
<1>3. CASE g = f
  <2>1. Blocks(g)' = Blocks(g) \cup {h}
    BY <1>1, <1>3 DEF Blocks
  <2> QED BY <1>2, <1>3, <2>1, BlocksFinite, FS_AddElement
<1>4. CASE g # f
  <2>1. Blocks(g)' = Blocks(g)
    BY <1>1, <1>2, <1>4 DEF Blocks
  <2> QED BY <1>4, <2>1
<1> QED BY <1>3, <1>4

LEMMA BlockTaken ==
  ASSUME TypeOK, NEW h \in Handles, NEW f \in Formulas, block[h] = f,
         block' = [block EXCEPT ![h] = None]
  PROVE  \A g \in Formulas : Cardinality(Blocks(g)')
            = IF g = f THEN Cardinality(Blocks(g)) - 1 ELSE Cardinality(Blocks(g))
<1> SUFFICES ASSUME NEW g \in Formulas
             PROVE  Cardinality(Blocks(g)')
                    = IF g = f THEN Cardinality(Blocks(g)) - 1 ELSE Cardinality(Blocks(g))
  OBVIOUS
<1>1. \A x \in Handles : block'[x] = IF x = h THEN None ELSE block[x]
  BY DEF TypeOK
<1>2. h \in Blocks(g) <=> g = f
  BY DEF Blocks
<1>3. CASE g = f
  <2>1. Blocks(g)' = Blocks(g) \ {h}
    BY <1>1, <1>3, FormulasAssumption DEF Blocks
  <2> QED BY <1>2, <1>3, <2>1, BlocksFinite, FS_RemoveElement
<1>4. CASE g # f
  <2>1. Blocks(g)' = Blocks(g)
    BY <1>1, <1>2, <1>4, FormulasAssumption DEF Blocks
  <2> QED BY <1>4, <2>1
<1> QED BY <1>3, <1>4

(* Owners come and go one at a time.                                       *)
LEMMA OwnersParts ==
  ASSUME NEW g
  PROVE  /\ Owners(g) = Cardinality(Blocks(g)) + Cardinality(Slots(g))
                        + One(g \in built) + One(mine = g) + kept[g]
         /\ Owners(g)' = Cardinality(Blocks(g)') + Cardinality(Slots(g)')
                         + One(g \in built') + One(mine' = g) + kept'[g]
         /\ Cardinality(Blocks(g)) \in Nat /\ Cardinality(Slots(g)) \in Nat
         /\ One(g \in built) \in Nat /\ One(mine = g) \in Nat
         /\ UNCHANGED block => Blocks(g)' = Blocks(g)
<1>1. One(g \in built) \in Nat /\ One(mine = g) \in Nat
  BY DEF One
<1> QED BY <1>1, BlocksFinite, SlotsFinite DEF Owners, Blocks

(* The heap stays, and each reference has an owner as before.              *)
LEMMA Transfer ==
  ASSUME TypeOK, Inv, UNCHANGED heap, kept' \in [Formulas -> Nat],
         \A g \in Formulas : Owners(g)' = Owners(g) /\ kept'[g] >= kept[g]
  PROVE  Inv'
<1>1. UNCHANGED <<kind, sub, ref, freeing, done>>
  BY DEF heap
<1>2. BeingFreed' = BeingFreed /\ Allocated' = Allocated /\ Live' = Live /\ Live \subseteq Formulas
  BY <1>1 DEF BeingFreed, Allocated, Live
<1>3. HeapInv'
  BY <1>1, <1>2 DEF Inv, HeapInv
<1>4. CountInv'
  BY <1>1, <1>2 DEF Inv, CountInv
<1>5. FilledInv'
  <2>1. \A g \in Formulas : kept[g] > 0 => kept'[g] > 0
    BY DEF TypeOK
  <2> QED BY <1>1, <2>1 DEF Inv, FilledInv
<1>6. Acyclic'
  BY <1>1, SameSlots, AcyclicShrinks DEF Inv
<1> QED BY <1>3, <1>4, <1>5, <1>6 DEF Inv

(* Nothing a reference depends on changes.                                 *)
LEMMA InvSame ==
  ASSUME TypeOK, Inv, UNCHANGED <<heap, block, built, kept, mine>>
  PROVE  Inv'
<1>1. UNCHANGED <<sub, done>>
  BY DEF heap
<1>2. ASSUME NEW g \in Formulas PROVE Owners(g)' = Owners(g) /\ kept'[g] >= kept[g]
  BY <1>1, SameSlots, OwnersParts DEF TypeOK
<1>3. kept' \in [Formulas -> Nat]
  BY DEF TypeOK
<1> QED BY <1>2, <1>3, Transfer

(* The pointer to be wrapped stays alive while what protects it stays.     *)
LEMMA WrapSame ==
  ASSUME TypeOK, CountInv, WrapInv, UNCHANGED <<wrap, phase, args, kept>>,
         \A h \in args : block[h] # None => block'[h] = block[h],
         \A f \in Live : sub'[f] = sub[f]
  PROVE  WrapInv'
<1> SUFFICES ASSUME wrap # None, phase # "query", ~(kept[wrap] > 0)
             PROVE  \/ \E h \in args : block'[h] = wrap
                    \/ \E h \in args : block'[h] # None
                                       /\ \E i \in DOMAIN sub'[block'[h]] : sub'[block'[h]][i] = wrap
  BY DEF WrapInv
<1>1. CASE \E h \in args : block[h] = wrap
  BY <1>1
<1>2. ASSUME NEW h \in args, block[h] # None,
             NEW i \in DOMAIN sub[block[h]], sub[block[h]][i] = wrap
      PROVE  /\ block'[h] # None
             /\ \E j \in DOMAIN sub'[block'[h]] : sub'[block'[h]][j] = wrap
  <2>1. PICK f \in Formulas : f = block[h]
    BY <1>2 DEF TypeOK
  <2>2. Blocks(f) # {}
    BY <2>1 DEF TypeOK, Blocks
  <2>3. f \in Live
    BY <2>2, OwnedLive
  <2>4. block'[h] = f /\ sub'[f] = sub[f]
    BY <1>2, <2>1, <2>3
  <2> QED BY <1>2, <2>1, <2>4, FormulasAssumption
<1> QED BY <1>1, <1>2 DEF WrapInv

-----------------------------------------------------------------------------
(* The initial state.                                                      *)
LEMMA IInvInit == Init => IInv
<1> SUFFICES ASSUME Init PROVE IInv
  OBVIOUS
<1>1. TypeOK
  BY DEF Init, TypeOK
<1>2. BeingFreed = {} /\ Allocated = {} /\ Live = {}
  BY DEF Init, BeingFreed, Allocated, Live
<1>3. HeapInv
  BY <1>2, BoundsAssumption DEF Init, HeapInv
<1>4. \A f \in Formulas : Slots(f) = {} /\ Blocks(f) = {}
  BY FormulasAssumption DEF Init, Slots, Blocks
<1>5. CountInv
  <2>1. ASSUME NEW f \in Formulas PROVE Owners(f) = 0
    <3>1. f \notin built /\ mine # f /\ kept[f] = 0
      BY FormulasAssumption DEF Init
    <3> QED BY <1>1, <1>4, <3>1, OwnersType
  <2> QED BY <1>2, <2>1 DEF CountInv
<1>6. FilledInv
  BY DEF Init, FilledInv
<1>7. Acyclic
  BY <1>4 DEF Acyclic
<1>8. Stubs
  BY HandlesAssumption DEF Init, Stubs, RootInv, PhaseInv, WrapInv
<1> QED BY <1>1, <1>3, <1>5, <1>6, <1>7, <1>8 DEF IInv, Inv

-----------------------------------------------------------------------------
(* Steps that move no reference.                                           *)

(* The stub returns a child of a formula its argument keeps alive.         *)
LEMMA NextGet ==
  ASSUME IInv, NEW h \in Handles, NEW i \in 1 .. MaxSlots, Get(h, i)
  PROVE  IInv'
<1>1. /\ TypeOK /\ Inv /\ RootInv /\ PhaseInv
  BY DEF IInv, Stubs
<1>2. /\ Client /\ h \in rooted /\ i \in DOMAIN sub[block[h]] /\ sub[block[h]][i] # None
      /\ wrap' = sub[block[h]][i] /\ args' = {h}
      /\ UNCHANGED <<heap, block, rooted, asked, built, kept, phase, mine>>
  BY DEF Get, Return
<1>3. block[h] \in Formulas /\ block[h] # None
  BY <1>1, <1>2, FormulasAssumption DEF TypeOK, RootInv
<1>4. wrap' \in Formulas
  <2>1. sub[block[h]] \in Seq(Formulas \cup {None})
    BY <1>1, <1>3 DEF TypeOK
  <2>2. sub[block[h]][i] \in Formulas \cup {None}
    BY <1>2, <2>1, ElementOfSeq, LenProperties
  <2> QED BY <1>2, <2>2
<1>5. TypeOK'
  BY <1>1, <1>2, <1>4 DEF TypeOK, heap
<1>6. Inv'
  BY <1>1, <1>2, InvSame
<1>7. RootInv' /\ PhaseInv'
  BY <1>1, <1>2, <1>3 DEF RootInv, PhaseInv, Client
<1>8. WrapInv'
  BY <1>2, <1>3 DEF WrapInv, heap
<1> QED BY <1>5, <1>6, <1>7, <1>8 DEF IInv, Stubs

(* OCaml code goes on, the learner is called, or it gives up.              *)
LEMMA NextQuiet ==
  ASSUME IInv, (\E h \in Handles : Copy(h)) \/ Go \/ Answer \/ Conflict
  PROVE  IInv'
<1>1. /\ TypeOK /\ Inv /\ RootInv /\ PhaseInv
  BY DEF IInv, Stubs
<1>2. /\ wrap = None
      /\ UNCHANGED <<heap, block, rooted, wrap, built, kept, mine>>
  BY DEF Copy, Go, Answer, Conflict, Client, Building
<1>3. /\ args' \in SUBSET Handles /\ args' \subseteq args \cup rooted
      /\ asked' \in {asked, None}
      /\ phase' \in {"copy", "build", "answered", "client"}
  BY <1>1 DEF Copy, Go, Answer, Conflict, TypeOK
<1>4. TypeOK'
  BY <1>1, <1>2, <1>3 DEF TypeOK, heap
<1>5. Inv'
  BY <1>1, <1>2, InvSame
<1>6. RootInv'
  BY <1>1, <1>2, <1>3, HandlesAssumption DEF RootInv
<1>7. PhaseInv'
  BY <1>1, <1>2 DEF Copy, Go, Answer, Conflict, Client, Building, PhaseInv
<1>8. WrapInv'
  BY <1>2 DEF WrapInv
<1> QED BY <1>4, <1>5, <1>6, <1>7, <1>8 DEF IInv, Stubs

(* OCaml code forgets a block.                                             *)
LEMMA NextDrop ==
  ASSUME IInv, NEW h \in Handles, Drop(h)
  PROVE  IInv'
<1>1. /\ TypeOK /\ Inv /\ RootInv /\ PhaseInv /\ WrapInv
  BY DEF IInv, Stubs
<1>2. /\ rooted' = rooted \ {h}
      /\ UNCHANGED <<heap, block, args, wrap, asked, built, kept, phase, mine>>
  BY DEF Drop
<1>3. TypeOK'
  BY <1>1, <1>2 DEF TypeOK, heap
<1>4. Inv'
  BY <1>1, <1>2, InvSame
<1>5. RootInv' /\ PhaseInv'
  BY <1>1, <1>2 DEF RootInv, PhaseInv
<1>6. WrapInv'
  BY <1>1, <1>2, WrapSame DEF heap, Inv
<1> QED BY <1>3, <1>4, <1>5, <1>6 DEF IInv, Stubs

(* Nothing happens at all.                                                 *)
LEMMA NextSame ==
  ASSUME IInv, UNCHANGED vars
  PROVE  IInv'
<1>1. /\ TypeOK /\ Inv /\ RootInv /\ PhaseInv /\ WrapInv
  BY DEF IInv, Stubs
<1>2. UNCHANGED <<heap, block, rooted, args, wrap, asked, built, mine, kept, phase>>
  BY DEF vars
<1>3. TypeOK'
  BY <1>1, <1>2 DEF TypeOK, heap
<1>4. Inv'
  BY <1>1, <1>2, InvSame
<1>5. RootInv' /\ PhaseInv'
  BY <1>1, <1>2 DEF RootInv, PhaseInv
<1>6. WrapInv'
  BY <1>1, <1>2, WrapSame DEF heap, Inv
<1> QED BY <1>3, <1>4, <1>5, <1>6 DEF IInv, Stubs

-----------------------------------------------------------------------------
(* Steps that hand a reference from one owner to another.                  *)

(* The reference of C code that is done is kept for good.                  *)
LEMMA NextCopied ==
  ASSUME IInv, NEW f \in Formulas, Copied(f)
  PROVE  IInv'
<1>1. /\ TypeOK /\ Inv /\ RootInv /\ PhaseInv
  BY DEF IInv, Stubs
<1>2. /\ phase = "copy" /\ built = {f} /\ built' = {}
      /\ kept' = [kept EXCEPT ![f] = @ + 1]
      /\ phase' = Caller /\ wrap' = f /\ args' = args
      /\ UNCHANGED <<heap, block, rooted, asked, mine>>
  BY DEF Copied, Return
<1>3. /\ kept' \in [Formulas -> Nat]
      /\ \A g \in Formulas : kept'[g] = IF g = f THEN kept[g] + 1 ELSE kept[g]
      /\ \A g \in Formulas : kept[g] \in Nat
  BY <1>1, <1>2 DEF TypeOK
<1>4. ASSUME NEW g \in Formulas PROVE Owners(g)' = Owners(g)
  <2>1. Slots(g)' = Slots(g) /\ Blocks(g)' = Blocks(g)
    BY <1>2, SameSlots, OwnersParts DEF heap
  <2>2. /\ One(g \in built) = IF g = f THEN 1 ELSE 0
        /\ One(g \in built') = 0 /\ One(mine' = g) = One(mine = g)
    BY <1>2 DEF One
  <2> QED BY <1>3, <2>1, <2>2, OwnersParts
<1>5. Inv'
  BY <1>1, <1>2, <1>3, <1>4, Transfer
<1>6. TypeOK'
  BY <1>1, <1>2, <1>3 DEF TypeOK, heap, Caller
<1>7. RootInv' /\ PhaseInv'
  BY <1>1, <1>2 DEF RootInv, PhaseInv, Caller
<1>8. WrapInv'
  BY <1>2, <1>3 DEF WrapInv
<1> QED BY <1>5, <1>6, <1>7, <1>8 DEF IInv, Stubs

(* The learner holds the conjecture while its copy is shown.               *)
LEMMA NextAsk ==
  ASSUME IInv, NEW f \in Formulas, NEW c \in Formulas, Ask(f, c)
  PROVE  IInv'
<1>1. /\ TypeOK /\ Inv /\ RootInv /\ PhaseInv
  BY DEF IInv, Stubs
<1>2. /\ wrap = None /\ phase = "build" /\ f # c /\ built = {f, c} /\ built' = {f}
      /\ wrap' = f /\ mine' = c /\ phase' = "query"
      /\ UNCHANGED <<heap, block, rooted, args, asked, kept>>
  BY DEF Ask, Building
<1>3. mine = None
  BY <1>1, <1>2 DEF PhaseInv
<1>4. ASSUME NEW g \in Formulas PROVE Owners(g)' = Owners(g) /\ kept'[g] >= kept[g]
  <2>1. Slots(g)' = Slots(g) /\ Blocks(g)' = Blocks(g)
    BY <1>2, SameSlots, OwnersParts DEF heap
  <2>2. /\ One(g \in built) = IF g = f \/ g = c THEN 1 ELSE 0
        /\ One(g \in built') = IF g = f THEN 1 ELSE 0
        /\ One(mine' = g) = IF g = c THEN 1 ELSE 0
        /\ One(mine = g) = 0
    BY <1>2, <1>3, FormulasAssumption DEF One
  <2>3. kept[g] \in Nat /\ kept' = kept
    BY <1>1, <1>2 DEF TypeOK
  <2> QED BY <1>2, <2>1, <2>2, <2>3, OwnersParts
<1>5. Inv'
  BY <1>1, <1>2, <1>4, Transfer DEF TypeOK
<1>6. TypeOK'
  BY <1>1, <1>2 DEF TypeOK, heap
<1>7. RootInv' /\ PhaseInv'
  BY <1>1, <1>2, <1>3, FormulasAssumption DEF RootInv, PhaseInv
<1>8. WrapInv'
  BY <1>2 DEF WrapInv
<1> QED BY <1>5, <1>6, <1>7, <1>8 DEF IInv, Stubs

(* The copy goes from its maker to the block the callback is given.        *)
LEMMA NextIsEquivalent ==
  ASSUME IInv, NEW h \in Handles, IsEquivalent(h)
  PROVE  IInv'
<1>1. /\ TypeOK /\ Inv /\ RootInv /\ PhaseInv
  BY DEF IInv, Stubs
<1>2. /\ phase = "query" /\ block[h] = None
      /\ block' = [block EXCEPT ![h] = wrap] /\ asked' = h /\ rooted' = rooted \cup {h}
      /\ built' = built \ {wrap} /\ wrap' = None /\ phase' = "callback"
      /\ UNCHANGED <<heap, args, kept, mine>>
  BY DEF IsEquivalent
<1>3. PICK f \in Formulas : f = wrap /\ f \in built
  BY <1>1, <1>2 DEF PhaseInv, TypeOK
<1>4. block' = [block EXCEPT ![h] = f] /\ built' = built \ {f}
  BY <1>2, <1>3
<1>5. ASSUME NEW g \in Formulas PROVE Owners(g)' = Owners(g) /\ kept'[g] >= kept[g]
  <2>1. Slots(g)' = Slots(g)
    BY <1>2, SameSlots DEF heap
  <2>2. Cardinality(Blocks(g)') = IF g = f THEN Cardinality(Blocks(g)) + 1
                                          ELSE Cardinality(Blocks(g))
    BY <1>1, <1>2, <1>4, BlockGiven
  <2>3. /\ One(mine' = g) = One(mine = g)
        /\ g = f => One(g \in built) = 1 /\ One(g \in built') = 0
        /\ g # f => One(g \in built) = One(g \in built')
    BY <1>2, <1>3, <1>4 DEF One
  <2>4. kept[g] \in Nat /\ kept' = kept
    BY <1>1, <1>2 DEF TypeOK
  <2> QED BY <2>1, <2>2, <2>3, <2>4, OwnersParts
<1>6. Inv'
  BY <1>1, <1>2, <1>5, Transfer DEF TypeOK
<1>7. TypeOK'
  BY <1>1, <1>2, <1>4 DEF TypeOK, heap
<1>8. RootInv' /\ PhaseInv'
  BY <1>1, <1>2, <1>3, <1>4, FormulasAssumption, HandlesAssumption DEF RootInv, PhaseInv, TypeOK
<1>9. WrapInv'
  BY <1>2 DEF WrapInv
<1> QED BY <1>6, <1>7, <1>8, <1>9 DEF IInv, Stubs

(* The learner leaves, and its reference to the conjecture is kept: the    *)
(* callback raised, or the conjecture is what the stub returns.            *)
LEMMA NextLeave ==
  ASSUME IInv, Raise \/ Learned
  PROVE  IInv'
<1>1. /\ TypeOK /\ Inv /\ RootInv /\ PhaseInv
  BY DEF IInv, Stubs
<1>2. PICK f \in Formulas : f = mine
  BY <1>1 DEF Raise, Learned, PhaseInv, TypeOK
<1>3. /\ kept' = [kept EXCEPT ![f] = @ + 1] /\ mine' = None /\ phase' = "client"
      /\ UNCHANGED <<heap, block, rooted, built>>
      /\ \/ wrap = None /\ wrap' = None /\ asked' = None /\ UNCHANGED args
         \/ wrap' = f /\ args' = {} /\ asked' = asked /\ asked = None
  BY <1>1, <1>2 DEF Raise, Learned, Return, Client, PhaseInv
<1>4. /\ kept' \in [Formulas -> Nat]
      /\ \A g \in Formulas : kept'[g] = IF g = f THEN kept[g] + 1 ELSE kept[g]
      /\ \A g \in Formulas : kept[g] \in Nat
  BY <1>1, <1>3 DEF TypeOK
<1>5. ASSUME NEW g \in Formulas PROVE Owners(g)' = Owners(g)
  <2>1. Slots(g)' = Slots(g) /\ Blocks(g)' = Blocks(g)
    BY <1>3, SameSlots, OwnersParts DEF heap
  <2>2. /\ One(g \in built') = One(g \in built)
        /\ One(mine = g) = IF g = f THEN 1 ELSE 0
        /\ One(mine' = g) = 0
    BY <1>2, <1>3, FormulasAssumption DEF One
  <2> QED BY <1>4, <2>1, <2>2, OwnersParts
<1>6. Inv'
  BY <1>1, <1>3, <1>4, <1>5, Transfer
<1>7. TypeOK'
  BY <1>1, <1>3, <1>4 DEF TypeOK, heap
<1>8. RootInv'
  BY <1>1, <1>3, HandlesAssumption DEF RootInv
<1>9. PhaseInv'
  BY <1>3 DEF PhaseInv
<1>10. WrapInv'
  BY <1>3, <1>4 DEF WrapInv
<1> QED BY <1>6, <1>7, <1>8, <1>9, <1>10 DEF IInv, Stubs

-----------------------------------------------------------------------------
(* Steps that add a reference.                                             *)

(* A slot of a live formula is an owner of what it leads to.               *)
LEMMA LiveSlot ==
  ASSUME TypeOK, HeapInv, NEW f \in Live, NEW i \in DOMAIN sub[f],
         NEW g \in Formulas, sub[f][i] = g
  PROVE  Slots(g) # {}
<1>1. f \in Formulas /\ done[f] = 0 /\ sub[f] \in Seq(Formulas \cup {None}) /\ Len(sub[f]) <= MaxSlots
  BY DEF Live, Allocated, HeapInv, TypeOK
<1>2. i \in 1 .. MaxSlots /\ i > 0
  BY <1>1, BoundsAssumption, LenProperties
<1> QED BY <1>1, <1>2, SlotPair

(* Val_boolformula wraps a live formula.                                   *)
LEMMA WrapLive ==
  ASSUME IInv, wrap # None
  PROVE  wrap \in Live
<1>1. TypeOK /\ HeapInv /\ CountInv /\ PhaseInv /\ WrapInv
  BY DEF IInv, Inv, Stubs
<1>2. PICK f \in Formulas : f = wrap
  BY <1>1 DEF TypeOK
<1>3. CASE f \in built \/ kept[f] > 0 \/ Blocks(f) # {} \/ Slots(f) # {}
  BY <1>1, <1>2, <1>3, OwnedLive DEF TypeOK
<1>4. ASSUME NEW h \in args, block[h] # None,
             NEW i \in DOMAIN sub[block[h]], sub[block[h]][i] = f
      PROVE  Slots(f) # {}
  <2>1. PICK p \in Formulas : p = block[h] /\ Blocks(p) # {}
    BY <1>1, <1>4 DEF TypeOK, Blocks
  <2>2. p \in Live
    BY <1>1, <2>1, OwnedLive
  <2> QED BY <1>1, <1>4, <2>1, <2>2, LiveSlot
<1>5. ASSUME NEW h \in args, block[h] = f PROVE Blocks(f) # {}
  BY <1>1, <1>5 DEF TypeOK, Blocks
<1>6. phase = "query" => f \in built
  BY <1>1, <1>2 DEF PhaseInv
<1> QED BY <1>1, <1>2, <1>3, <1>4, <1>5, <1>6 DEF WrapInv

(* Val_boolformula counts the block it has allocated.                      *)
LEMMA NextWrap ==
  ASSUME IInv, NEW h \in Handles, Wrap(h)
  PROVE  IInv'
<1>1. /\ TypeOK /\ Inv /\ HeapInv /\ CountInv /\ FilledInv /\ Acyclic /\ RootInv /\ PhaseInv
  BY DEF IInv, Inv, Stubs
<1>2. /\ wrap # None /\ phase # "query" /\ block[h] = None
      /\ block' = [block EXCEPT ![h] = wrap] /\ rooted' = rooted \cup {h}
      /\ ref' = [ref EXCEPT ![wrap] = @ + 1] /\ wrap' = None /\ args' = {}
      /\ UNCHANGED <<kind, sub, freeing, done, asked, built, kept, phase, mine>>
  BY DEF Wrap
<1>3. PICK f \in Live : f = wrap
  BY <1>2, WrapLive
<1>4. f \in Formulas
  BY DEF Live, Allocated
<1>5. block' = [block EXCEPT ![h] = f] /\ ref' = [ref EXCEPT ![f] = @ + 1]
  BY <1>2, <1>3
<1>6. ASSUME NEW g \in Formulas PROVE Owners(g)' = IF g = f THEN Owners(g) + 1 ELSE Owners(g)
  <2>1. Slots(g)' = Slots(g)
    BY <1>2, SameSlots
  <2>2. Cardinality(Blocks(g)') = IF g = f THEN Cardinality(Blocks(g)) + 1
                                          ELSE Cardinality(Blocks(g))
    BY <1>1, <1>2, <1>4, <1>5, BlockGiven
  <2>3. One(mine' = g) = One(mine = g) /\ One(g \in built) = One(g \in built')
    BY <1>2
  <2>4. kept[g] \in Nat /\ kept' = kept
    BY <1>1, <1>2 DEF TypeOK
  <2> QED BY <2>1, <2>2, <2>3, <2>4, OwnersParts
<1>7. CountInv' /\ ref' \in [Formulas -> Nat]
  BY <1>1, <1>2, <1>5, <1>6, GainOne
<1>8. HeapInv' /\ FilledInv'
  BY <1>1, <1>2 DEF HeapInv, FilledInv, BeingFreed, Allocated
<1>9. Acyclic'
  BY <1>1, <1>2, SameSlots, AcyclicShrinks
<1>10. TypeOK'
  <2>1. block' \in [Handles -> Formulas \cup {None}]
    BY <1>1, <1>4, <1>5 DEF TypeOK
  <2>2. rooted' \in SUBSET Handles /\ args' \in SUBSET Handles
    BY <1>1, <1>2 DEF TypeOK
  <2>3. /\ wrap' = None
        /\ UNCHANGED <<kind, sub, freeing, done, asked, built, kept, phase, mine>>
    BY <1>2
  <2> QED BY <1>1, <1>7, <2>1, <2>2, <2>3 DEF TypeOK
<1>11. RootInv' /\ PhaseInv'
  BY <1>1, <1>2, <1>4, <1>5, FormulasAssumption DEF RootInv, PhaseInv, TypeOK
<1>12. WrapInv'
  BY <1>2 DEF WrapInv
<1> QED BY <1>7, <1>8, <1>9, <1>10, <1>11, <1>12 DEF IInv, Inv, Stubs

(* A formula is allocated, its slots not set.                              *)
LEMMA InvNew ==
  ASSUME TypeOK, Inv, NEW f \in Formulas, NEW k \in {"literal", "node"},
         NEW q \in Seq(Formulas \cup {None}), Len(q) <= MaxSlots, \A i \in DOMAIN q : q[i] = None,
         New(f, k, q), UNCHANGED <<freeing, done>>,
         \A g \in Formulas : Owners(g)' = IF g = f THEN Owners(g) + 1 ELSE Owners(g),
         \A g \in Formulas : kept[g] > 0 => kept'[g] > 0,
         q # <<>> => kept'[f] > 0
  PROVE  /\ Inv' /\ ref' \in [Formulas -> Nat]
         /\ kind' \in [Formulas -> {"none", "literal", "node"}]
         /\ sub' \in [Formulas -> Seq(Formulas \cup {None})]
<1>1. HeapInv /\ CountInv /\ FilledInv /\ Acyclic
  BY DEF Inv
<1>2. kind[f] = "none" /\ sub' = [sub EXCEPT ![f] = q] /\ kind' = [kind EXCEPT ![f] = k]
  BY DEF New
<1>3. /\ CountInv' /\ ref' \in [Formulas -> Nat]
      /\ kind' \in [Formulas -> {"none", "literal", "node"}]
      /\ Allocated' = Allocated \cup {f}
  BY <1>1, NewOne
<1>4. /\ sub' \in [Formulas -> Seq(Formulas \cup {None})]
      /\ \A g \in Formulas : sub'[g] = IF g = f THEN q ELSE sub[g]
      /\ \A g \in Formulas : kind'[g] = IF g = f THEN k ELSE kind[g]
  BY <1>2 DEF TypeOK
<1>5. HeapInv'
  <2>1. \A g \in Formulas : Len(sub'[g]) <= MaxSlots
    BY <1>1, <1>4 DEF HeapInv
  <2>2. \A g \in Formulas : kind'[g] = "none" => sub'[g] = <<>>
    BY <1>1, <1>4 DEF HeapInv
  <2>3. BeingFreed' = BeingFreed
    BY DEF BeingFreed
  <2> QED BY <1>1, <1>3, <2>1, <2>2, <2>3 DEF HeapInv
<1>6. FilledInv'
  <2> SUFFICES ASSUME NEW g \in Formulas, NEW i \in DOMAIN sub'[g], sub'[g][i] = None
               PROVE  kept'[g] > 0
    BY DEF FilledInv
  <2>1. CASE g = f
    BY <1>4, <2>1
  <2>2. CASE g # f
    BY <1>1, <1>4, <2>2 DEF FilledInv
  <2> QED BY <2>1, <2>2
<1>7. Acyclic'
  BY <1>1, <1>2, NewSlots, AcyclicShrinks
<1> QED BY <1>3, <1>4, <1>5, <1>6, <1>7 DEF Inv

(* OCaml creates a formula; its creation reference is never given back.    *)
LEMMA NextCreate ==
  ASSUME IInv, NEW f \in Formulas, NEW k \in {"literal", "node"}, NEW n \in 0 .. MaxSlots,
         Create(f, k, n)
  PROVE  IInv'
<1>1. /\ TypeOK /\ Inv /\ HeapInv /\ CountInv /\ RootInv /\ PhaseInv
  BY DEF IInv, Inv, Stubs
<1> DEFINE q == [i \in 1 .. n |-> None]
<1>2. /\ Client /\ New(f, k, q)
      /\ kept' = [kept EXCEPT ![f] = 1] /\ wrap' = f /\ args' = {}
      /\ UNCHANGED <<freeing, done, block, rooted, asked, built, phase, mine>>
  BY DEF Create, Return
<1>3. q \in Seq(Formulas \cup {None}) /\ Len(q) = n /\ \A i \in DOMAIN q : q[i] = None
  BY BoundsAssumption
<1>4. n \in Nat /\ n <= MaxSlots
  BY BoundsAssumption
<1> HIDE DEF q
<1>5. kind[f] = "none" /\ sub' = [sub EXCEPT ![f] = q]
  BY <1>2 DEF New
<1>6. f \notin Live /\ Owners(f) = 0 /\ kept[f] = 0
  <2>1. f \notin Live
    BY <1>5 DEF Live, Allocated
  <2> QED BY <1>1, <2>1, OwnersType DEF CountInv
<1>7. /\ kept' \in [Formulas -> Nat]
      /\ \A g \in Formulas : kept'[g] = IF g = f THEN 1 ELSE kept[g]
      /\ \A g \in Formulas : kept[g] \in Nat
  BY <1>1, <1>2 DEF TypeOK
<1>8. ASSUME NEW g \in Formulas PROVE Owners(g)' = IF g = f THEN Owners(g) + 1 ELSE Owners(g)
  <2>1. Slots(g)' = Slots(g)
    BY <1>1, <1>2, <1>3, <1>5, NewSlots
  <2>2. /\ Blocks(g)' = Blocks(g)
        /\ One(mine' = g) = One(mine = g) /\ One(g \in built) = One(g \in built')
    BY <1>2, OwnersParts
  <2> QED BY <1>6, <1>7, <2>1, <2>2, OwnersParts
<1>9. /\ Inv' /\ ref' \in [Formulas -> Nat]
      /\ kind' \in [Formulas -> {"none", "literal", "node"}]
      /\ sub' \in [Formulas -> Seq(Formulas \cup {None})]
  <2>1. (\A g \in Formulas : kept[g] > 0 => kept'[g] > 0) /\ kept'[f] > 0
    BY <1>7
  <2>2. Len(q) <= MaxSlots
    BY <1>3, <1>4
  <2>3. New(f, k, q) /\ UNCHANGED <<freeing, done>>
    BY <1>2
  <2>4. q \in Seq(Formulas \cup {None}) /\ \A i \in DOMAIN q : q[i] = None
    BY <1>3
  <2>5. TypeOK /\ Inv
    BY <1>1
  <2> QED BY <1>8, <2>1, <2>2, <2>3, <2>4, <2>5, InvNew
<1>10. TypeOK'
  BY <1>1, <1>2, <1>7, <1>9 DEF TypeOK
<1>11. RootInv' /\ PhaseInv'
  BY <1>1, <1>2, FormulasAssumption DEF RootInv, PhaseInv, Client
<1>12. WrapInv'
  BY <1>2, <1>7 DEF WrapInv
<1> QED BY <1>9, <1>10, <1>11, <1>12 DEF IInv, Stubs

(* C code that builds creates a formula.                                   *)
LEMMA NextMake ==
  ASSUME IInv, NEW f \in Formulas, NEW k \in {"literal", "node"}, Make(f, k)
  PROVE  IInv'
<1>1. /\ TypeOK /\ Inv /\ HeapInv /\ CountInv /\ RootInv /\ PhaseInv
  BY DEF IInv, Inv, Stubs
<1>2. /\ Building /\ New(f, k, <<>>) /\ built' = built \cup {f}
      /\ UNCHANGED <<freeing, done, block, rooted, args, wrap, asked, kept, phase, mine>>
  BY DEF Make
<1>3. /\ <<>> \in Seq(Formulas \cup {None}) /\ Len(<<>>) <= MaxSlots
      /\ \A i \in DOMAIN <<>> : <<>>[i] = None
  BY BoundsAssumption, EmptySeq
<1>4. kind[f] = "none" /\ sub' = [sub EXCEPT ![f] = <<>>]
  BY <1>2 DEF New
<1>5. f \notin built
  <2>1. f \notin Live
    BY <1>4 DEF Live, Allocated
  <2> QED BY <1>1, <2>1, OwnedLive
<1>6. ASSUME NEW g \in Formulas PROVE Owners(g)' = IF g = f THEN Owners(g) + 1 ELSE Owners(g)
  <2>1. Slots(g)' = Slots(g)
    BY <1>1, <1>2, <1>3, <1>4, NewSlots
  <2>2. /\ Blocks(g)' = Blocks(g)
        /\ One(mine' = g) = One(mine = g) /\ kept'[g] = kept[g] /\ kept[g] \in Nat
    BY <1>1, <1>2, OwnersParts DEF TypeOK
  <2>3. /\ g = f => One(g \in built) = 0 /\ One(g \in built') = 1
        /\ g # f => One(g \in built) = One(g \in built')
    BY <1>2, <1>5 DEF One
  <2> QED BY <2>1, <2>2, <2>3, OwnersParts
<1>7. /\ Inv' /\ ref' \in [Formulas -> Nat]
      /\ kind' \in [Formulas -> {"none", "literal", "node"}]
      /\ sub' \in [Formulas -> Seq(Formulas \cup {None})]
  BY <1>1, <1>2, <1>3, <1>6, InvNew
<1>8. TypeOK'
  BY <1>1, <1>2, <1>7 DEF TypeOK
<1>9. RootInv' /\ PhaseInv'
  BY <1>1, <1>2 DEF RootInv, PhaseInv, Building
<1>10. WrapInv'
  BY <1>2 DEF WrapInv, Building
<1> QED BY <1>7, <1>8, <1>9, <1>10 DEF IInv, Stubs

(* A live formula becomes the last child of a live formula that cannot be  *)
(* reached from it.                                                        *)
LEMMA InvAppend ==
  ASSUME TypeOK, Inv, NEW p \in Live, NEW c \in Live, p \notin Reach({c}),
         Len(sub[p]) < MaxSlots, sub' = [sub EXCEPT ![p] = Append(@, c)],
         ref' = [ref EXCEPT ![c] = @ + 1],
         UNCHANGED <<kind, freeing, done, block, built, kept, mine>>
  PROVE  Inv' /\ ref' \in [Formulas -> Nat] /\ sub' \in [Formulas -> Seq(Formulas \cup {None})]
<1>1. HeapInv /\ CountInv /\ FilledInv /\ Acyclic
  BY DEF Inv
<1>2. p \in Formulas /\ c \in Formulas /\ p \in Allocated /\ p \notin BeingFreed
  BY DEF Live, Allocated
<1>3. /\ sub[p] \in Seq(Formulas \cup {None})
      /\ sub' \in [Formulas -> Seq(Formulas \cup {None})]
      /\ \A g \in Formulas : sub'[g] = IF g = p THEN Append(sub[p], c) ELSE sub[g]
  <2>1. sub \in [Formulas -> Seq(Formulas \cup {None})]
    BY DEF TypeOK
  <2>2. sub[p] \in Seq(Formulas \cup {None}) /\ c \in Formulas \cup {None}
    BY <1>2, <2>1
  <2>3. Append(sub[p], c) \in Seq(Formulas \cup {None})
    BY <2>2
  <2> HIDE DEF TypeOK
  <2> DEFINE q == Append(sub[p], c)
  <2>4. q \in Seq(Formulas \cup {None}) /\ sub' = [sub EXCEPT ![p] = q]
    BY <2>3
  <2> HIDE DEF q
  <2>5. sub' \in [Formulas -> Seq(Formulas \cup {None})]
    BY <2>1, <2>4
  <2>6. \A g \in Formulas : sub'[g] = IF g = p THEN q ELSE sub[g]
    BY <1>2, <2>1, <2>4
  <2> QED BY <2>2, <2>5, <2>6 DEF q
<1>4. PICK s : /\ s[1] = p /\ s \notin Slots(c) /\ Slots(c)' = Slots(c) \cup {s}
               /\ \A g \in Formulas \ {c} : Slots(g)' = Slots(g)
  BY <1>1, <1>2, AppendSlot
<1>5. ASSUME NEW g \in Formulas PROVE Owners(g)' = IF g = c THEN Owners(g) + 1 ELSE Owners(g)
  <2>1. Cardinality(Slots(g)') = IF g = c THEN Cardinality(Slots(g)) + 1 ELSE Cardinality(Slots(g))
    <3>1. CASE g = c
      BY <1>4, <3>1, SlotsFinite, FS_AddElement
    <3>2. CASE g # c
      BY <1>4, <3>2
    <3> QED BY <3>1, <3>2
  <2>2. /\ Blocks(g)' = Blocks(g) /\ One(g \in built') = One(g \in built)
        /\ One(mine' = g) = One(mine = g) /\ kept'[g] = kept[g] /\ kept[g] \in Nat
    BY OwnersParts DEF TypeOK
  <2> QED BY <2>1, <2>2, OwnersParts
<1>6. CountInv' /\ ref' \in [Formulas -> Nat]
  BY <1>1, <1>5, GainOne
<1>7. HeapInv'
  <2>1. Len(Append(sub[p], c)) <= MaxSlots
    BY <1>2, <1>3, BoundsAssumption, LenProperties
  <2>2. \A g \in Formulas : Len(sub'[g]) <= MaxSlots
    BY <1>1, <1>3, <2>1 DEF HeapInv
  <2>3. \A g \in Formulas : kind'[g] = "none" => sub'[g] = <<>>
    BY <1>1, <1>2, <1>3 DEF HeapInv, Allocated
  <2>4. BeingFreed' = BeingFreed /\ Allocated' = Allocated
    BY DEF BeingFreed, Allocated
  <2> QED BY <1>1, <2>2, <2>3, <2>4 DEF HeapInv
<1>8. FilledInv'
  <2> SUFFICES ASSUME NEW g \in Formulas, NEW i \in DOMAIN sub'[g], sub'[g][i] = None
               PROVE  kept[g] > 0
    BY DEF FilledInv
  <2>1. CASE g = p
    <3>1. i \in DOMAIN Append(sub[p], c) /\ Append(sub[p], c)[i] = None
      BY <1>3, <2>1
    <3>2. i \in DOMAIN sub[p] /\ sub[p][i] = None
      BY <1>2, <1>3, <3>1, FormulasAssumption, LenProperties
    <3> QED BY <1>1, <2>1, <3>2 DEF FilledInv
  <2>2. CASE g # p
    BY <1>1, <1>3, <2>2 DEF FilledInv
  <2> QED BY <2>1, <2>2
<1>9. Acyclic'
  BY <1>1, <1>2, <1>4, AcyclicGrows
<1> QED BY <1>3, <1>6, <1>7, <1>8, <1>9 DEF Inv

(* What a block in use points to is live.                                  *)
LEMMA BlockLive ==
  ASSUME IInv, NEW h \in Handles, h \in rooted \cup args \/ h = asked
  PROVE  block[h] \in Live /\ block[h] \in Formulas /\ block[h] # None
<1>1. TypeOK /\ CountInv /\ RootInv
  BY DEF IInv, Inv, Stubs
<1>2. PICK f \in Formulas : f = block[h]
  BY <1>1 DEF TypeOK, RootInv
<1>3. Blocks(f) # {}
  BY <1>2 DEF Blocks
<1> QED BY <1>1, <1>2, <1>3, OwnedLive, FormulasAssumption

(* ocaml_add_boolformula.                                                  *)
LEMMA NextAdd ==
  ASSUME IInv, NEW p \in Handles, NEW c \in Handles, Add(p, c)
  PROVE  IInv'
<1>1. /\ TypeOK /\ Inv /\ RootInv /\ PhaseInv
  BY DEF IInv, Stubs
<1>2. /\ Client /\ p \in rooted /\ c \in rooted
      /\ block[p] \notin Reach({block[c]}) /\ Len(sub[block[p]]) < MaxSlots
      /\ sub' = [sub EXCEPT ![block[p]] = Append(@, block[c])]
      /\ ref' = [ref EXCEPT ![block[c]] = @ + 1]
      /\ wrap' = block[p] /\ args' = {p, c}
      /\ UNCHANGED <<kind, freeing, done, block, rooted, asked, built, kept, phase, mine>>
  BY DEF Add, Return
<1>3. PICK f \in Live, d \in Live : f = block[p] /\ d = block[c]
  BY <1>2, BlockLive
<1>4. f \in Formulas /\ f # None
  BY FormulasAssumption DEF Live, Allocated
<1>5. /\ f \notin Reach({d}) /\ Len(sub[f]) < MaxSlots
      /\ sub' = [sub EXCEPT ![f] = Append(@, d)] /\ ref' = [ref EXCEPT ![d] = @ + 1]
  BY <1>2, <1>3
<1>6. Inv' /\ ref' \in [Formulas -> Nat] /\ sub' \in [Formulas -> Seq(Formulas \cup {None})]
  BY <1>1, <1>2, <1>5, InvAppend
<1>7. TypeOK'
  <2>1. wrap' \in Formulas /\ args' \in SUBSET Handles
    BY <1>2, <1>3, <1>4
  <2>2. UNCHANGED <<kind, freeing, done, block, rooted, asked, built, kept, phase, mine>>
    BY <1>2
  <2> QED BY <1>1, <1>6, <2>1, <2>2 DEF TypeOK
<1>8. RootInv' /\ PhaseInv'
  BY <1>1, <1>2, <1>3, <1>4 DEF RootInv, PhaseInv, Client
<1>9. WrapInv'
  BY <1>2, <1>3 DEF WrapInv
<1> QED BY <1>6, <1>7, <1>8, <1>9 DEF IInv, Stubs

(* C code that builds sets a part into its parent.                         *)
LEMMA NextSet ==
  ASSUME IInv, NEW p \in Formulas, NEW c \in Formulas, Set(p, c)
  PROVE  IInv'
<1>1. /\ TypeOK /\ Inv /\ CountInv /\ RootInv /\ PhaseInv
  BY DEF IInv, Inv, Stubs
<1>2. /\ Building /\ p \in built /\ c \in built
      /\ p \notin Reach({c}) /\ Len(sub[p]) < MaxSlots
      /\ sub' = [sub EXCEPT ![p] = Append(@, c)]
      /\ ref' = [ref EXCEPT ![c] = @ + 1]
      /\ UNCHANGED <<kind, freeing, done, block, rooted, args, wrap, asked, built, kept, phase, mine>>
  BY DEF Set
<1>3. p \in Live /\ c \in Live
  BY <1>1, <1>2, OwnedLive
<1>4. Inv' /\ ref' \in [Formulas -> Nat] /\ sub' \in [Formulas -> Seq(Formulas \cup {None})]
  BY <1>1, <1>2, <1>3, InvAppend
<1>5. UNCHANGED <<kind, freeing, done, block, rooted, args, wrap, asked, built, kept, phase, mine>>
  BY <1>2
<1>6. TypeOK'
  BY <1>1, <1>4, <1>5 DEF TypeOK
<1>7. RootInv' /\ PhaseInv'
  BY <1>1, <1>5 DEF RootInv, PhaseInv
<1>8. WrapInv'
  BY <1>2, <1>5 DEF WrapInv, Building
<1> QED BY <1>4, <1>6, <1>7, <1>8 DEF IInv, Stubs

(* ocaml_set_boolformula: nobody will give back the old child.             *)
LEMMA NextPut ==
  ASSUME IInv, NEW p \in Handles, NEW c \in Handles, NEW i \in 1 .. MaxSlots, Put(p, i, c)
  PROVE  IInv'
<1>1. /\ TypeOK /\ HeapInv /\ CountInv /\ FilledInv /\ Acyclic /\ RootInv /\ PhaseInv
  BY DEF IInv, Inv, Stubs
<1>2. /\ Client /\ p \in rooted /\ c \in rooted /\ i \in DOMAIN sub[block[p]]
      /\ block[p] \notin Reach({block[c]})
      /\ sub' = [sub EXCEPT ![block[p]] = [@ EXCEPT ![i] = block[c]]]
      /\ ref' = [ref EXCEPT ![block[c]] = @ + 1]
      /\ wrap' = block[p] /\ args' = {p, c}
      /\ UNCHANGED <<kind, freeing, done, block, rooted, asked, built, phase, mine>>
  BY DEF Put, Return
<1>3. PICK f \in Live, d \in Live : f = block[p] /\ d = block[c]
  BY <1>2, BlockLive
<1>4. f \in Formulas /\ f # None /\ d \in Formulas /\ f \in Allocated /\ f \notin BeingFreed
  BY FormulasAssumption DEF Live, Allocated
<1>5. /\ f \notin Reach({d}) /\ i \in DOMAIN sub[f]
      /\ sub' = [sub EXCEPT ![f] = [@ EXCEPT ![i] = d]] /\ ref' = [ref EXCEPT ![d] = @ + 1]
  BY <1>2, <1>3
<1>6. sub[f] \in Seq(Formulas \cup {None}) /\ i \in 1 .. Len(sub[f])
  BY <1>1, <1>4, <1>5, LenProperties DEF TypeOK
<1>7. PICK old \in Formulas \cup {None} : old = sub[f][i]
  BY <1>6, ElementOfSeq
<1>8. kept' = IF old = None THEN kept ELSE [kept EXCEPT ![old] = @ + 1]
  BY <1>3, <1>7 DEF Put
<1>9. /\ kept' \in [Formulas -> Nat]
      /\ \A g \in Formulas : kept'[g] = IF g = old THEN kept[g] + 1 ELSE kept[g]
      /\ \A g \in Formulas : kept[g] \in Nat
  <2>1. kept \in [Formulas -> Nat]
    BY <1>1 DEF TypeOK
  <2>2. CASE old = None
    BY <1>8, <2>1, <2>2, FormulasAssumption
  <2>3. CASE old # None
    BY <1>7, <1>8, <2>1, <2>3
  <2> QED BY <2>2, <2>3
<1>10. \A g \in Formulas :
         /\ Slots(g)' = IF g = d THEN Slots(g) \cup {<<f, i>>} ELSE Slots(g) \ {<<f, i>>}
         /\ <<f, i>> \in Slots(g) <=> old = g
  <2>1. UNCHANGED done
    BY <1>2
  <2>2. \A g \in Formulas :
          /\ Slots(g)' = IF g = d THEN Slots(g) \cup {<<f, i>>} ELSE Slots(g) \ {<<f, i>>}
          /\ <<f, i>> \in Slots(g) <=> sub[f][i] = g
    BY <1>1, <1>4, <1>5, <2>1, PutSlot
  <2> QED BY <1>7, <2>2
<1>11. ASSUME NEW g \in Formulas PROVE Owners(g)' = IF g = d THEN Owners(g) + 1 ELSE Owners(g)
  <2>1. /\ Blocks(g)' = Blocks(g) /\ One(g \in built') = One(g \in built)
        /\ One(mine' = g) = One(mine = g)
    BY <1>2, OwnersParts
  <2>2. CASE g = d
    <3>1. Cardinality(Slots(g)') = IF g = old THEN Cardinality(Slots(g)) ELSE Cardinality(Slots(g)) + 1
      <4>1. Slots(g)' = Slots(g) \cup {<<f, i>>} /\ (<<f, i>> \in Slots(g) <=> g = old)
        BY <1>10, <2>2
      <4> QED BY <4>1, SlotsFinite, FS_AddElement
    <3> QED BY <1>9, <2>1, <2>2, <3>1, OwnersParts
  <2>3. CASE g # d
    <3>1. Cardinality(Slots(g)') = IF g = old THEN Cardinality(Slots(g)) - 1 ELSE Cardinality(Slots(g))
      <4>1. Slots(g)' = Slots(g) \ {<<f, i>>} /\ (<<f, i>> \in Slots(g) <=> g = old)
        BY <1>10, <2>3
      <4>2. Cardinality(Slots(g) \ {<<f, i>>})
            = IF <<f, i>> \in Slots(g) THEN Cardinality(Slots(g)) - 1 ELSE Cardinality(Slots(g))
        BY SlotsFinite, FS_RemoveElement
      <4> QED BY <4>1, <4>2
    <3> QED BY <1>9, <2>1, <2>3, <3>1, OwnersParts
  <2> QED BY <2>2, <2>3
<1>12. CountInv' /\ ref' \in [Formulas -> Nat]
  BY <1>1, <1>2, <1>5, <1>11, GainOne
<1>13. /\ [sub[f] EXCEPT ![i] = d] \in Seq(Formulas \cup {None})
       /\ Len([sub[f] EXCEPT ![i] = d]) = Len(sub[f])
       /\ \A j \in 1 .. Len(sub[f]) : [sub[f] EXCEPT ![i] = d][j] = IF j = i THEN d ELSE sub[f][j]
  BY <1>4, <1>6, ExceptSeq
<1>14. /\ sub' \in [Formulas -> Seq(Formulas \cup {None})]
       /\ \A g \in Formulas : g # f => sub'[g] = sub[g]
       /\ sub'[f] = [sub[f] EXCEPT ![i] = d]
  BY <1>1, <1>4, <1>5, <1>13 DEF TypeOK
<1>15. HeapInv'
  <2>1. \A g \in Formulas : Len(sub'[g]) <= MaxSlots
    BY <1>1, <1>13, <1>14 DEF HeapInv
  <2>2. \A g \in Formulas : kind'[g] = "none" => sub'[g] = <<>>
    BY <1>1, <1>2, <1>4, <1>14 DEF HeapInv, Allocated
  <2>3. BeingFreed' = BeingFreed /\ Allocated' = Allocated
    BY <1>2 DEF BeingFreed, Allocated
  <2> QED BY <1>1, <1>2, <2>1, <2>2, <2>3 DEF HeapInv
<1>16. FilledInv'
  <2> SUFFICES ASSUME NEW g \in Formulas, NEW j \in DOMAIN sub'[g], sub'[g][j] = None
               PROVE  kept'[g] > 0
    BY DEF FilledInv
  <2>1. CASE g = f
    <3>1. DOMAIN sub'[f] = 1 .. Len(sub[f]) /\ DOMAIN sub[f] = 1 .. Len(sub[f])
      BY <1>4, <1>6, <1>13, <1>14, LenProperties
    <3>2. sub[f][j] = None
      BY <1>4, <1>13, <1>14, <2>1, <3>1, FormulasAssumption
    <3> QED BY <1>1, <1>9, <2>1, <3>1, <3>2 DEF FilledInv
  <2>2. CASE g # f
    <3>1. sub'[g] = sub[g]
      BY <1>14, <2>2
    <3>2. kept[g] > 0
      BY <1>1, <3>1 DEF FilledInv
    <3> QED BY <1>9, <3>2
  <2> QED BY <2>1, <2>2
<1>17. Acyclic'
  BY <1>1, <1>4, <1>5, <1>10, AcyclicGrows
<1>18. TypeOK'
  <2>1. wrap' \in Formulas /\ args' \in SUBSET Handles
    BY <1>2, <1>3, <1>4
  <2>2. UNCHANGED <<kind, freeing, done, block, rooted, asked, built, phase, mine>>
    BY <1>2
  <2> QED BY <1>1, <1>9, <1>12, <1>14, <2>1, <2>2 DEF TypeOK
<1>19. RootInv' /\ PhaseInv'
  BY <1>1, <1>2, <1>3, <1>4 DEF RootInv, PhaseInv, Client
<1>20. WrapInv'
  BY <1>2, <1>3 DEF WrapInv
<1> QED BY <1>12, <1>15, <1>16, <1>17, <1>18, <1>19, <1>20 DEF IInv, Inv, Stubs

-----------------------------------------------------------------------------
(* Steps that give a reference back.                                       *)

LEMMA InvFree ==
  ASSUME TypeOK, Inv, NEW f \in Formulas, Free(f), UNCHANGED <<kind, sub, kept>>,
         Owners(f) # 0,
         \A g \in Formulas : Owners(g)' = IF g = f THEN Owners(g) - 1 ELSE Owners(g),
         \A g \in Formulas : Slots(g)' \subseteq Slots(g),
         \A g \in Formulas : g \notin BeingFreed => done'[g] = done[g]
  PROVE  Inv' /\ ref' \in [Formulas -> Nat] /\ freeing' \in Seq(Formulas)
<1>1. HeapInv /\ CountInv /\ FilledInv /\ Acyclic
  BY DEF Inv
<1>2. /\ CountInv'
      /\ ref' \in [Formulas -> Nat] /\ freeing' \in Seq(Formulas)
      /\ BeingFreed \subseteq BeingFreed' /\ BeingFreed' \subseteq Allocated'
      /\ \A i, j \in 1 .. Len(freeing') : freeing'[i] = freeing'[j] => i = j
  BY <1>1, FreeOne
<1>3. HeapInv'
  BY <1>1, <1>2 DEF HeapInv
<1>4. FilledInv'
  BY <1>1 DEF FilledInv
<1>5. Acyclic'
  BY <1>1, AcyclicShrinks
<1> QED BY <1>2, <1>3, <1>4, <1>5 DEF Inv

(* C code gives back what it built.                                        *)
LEMMA NextGiveBack ==
  ASSUME IInv, NEW f \in Formulas, GiveBack(f)
  PROVE  IInv'
<1>1. /\ TypeOK /\ Inv /\ CountInv /\ RootInv /\ PhaseInv
  BY DEF IInv, Inv, Stubs
<1>2. /\ Building /\ f \in built /\ Free(f) /\ built' = built \ {f}
      /\ UNCHANGED <<kind, sub, done, block, rooted, args, wrap, asked, kept, phase, mine>>
  BY DEF GiveBack
<1>3. Owners(f) # 0
  BY <1>1, <1>2, OwnedLive
<1>4. \A g \in Formulas : Slots(g)' = Slots(g)
  BY <1>2, SameSlots
<1>5. ASSUME NEW g \in Formulas PROVE Owners(g)' = IF g = f THEN Owners(g) - 1 ELSE Owners(g)
  <2>1. /\ Blocks(g)' = Blocks(g) /\ One(mine' = g) = One(mine = g)
        /\ kept'[g] = kept[g] /\ kept[g] \in Nat
    BY <1>1, <1>2, OwnersParts DEF TypeOK
  <2>2. /\ g = f => One(g \in built) = 1 /\ One(g \in built') = 0
        /\ g # f => One(g \in built) = One(g \in built')
    BY <1>2 DEF One
  <2> QED BY <1>4, <2>1, <2>2, OwnersParts
<1>6. Inv' /\ ref' \in [Formulas -> Nat] /\ freeing' \in Seq(Formulas)
  BY <1>1, <1>2, <1>3, <1>4, <1>5, InvFree
<1>7. TypeOK'
  BY <1>1, <1>2, <1>6 DEF TypeOK
<1>8. RootInv' /\ PhaseInv'
  BY <1>1, <1>2 DEF RootInv, PhaseInv, Building
<1>9. WrapInv'
  BY <1>2 DEF WrapInv, Building
<1> QED BY <1>6, <1>7, <1>8, <1>9 DEF IInv, Stubs

(* The refuted conjecture is freed.                                        *)
LEMMA NextRefuted ==
  ASSUME IInv, Refuted
  PROVE  IInv'
<1>1. /\ TypeOK /\ Inv /\ CountInv /\ RootInv /\ PhaseInv
  BY DEF IInv, Inv, Stubs
<1>2. PICK f \in Formulas : f = mine
  BY <1>1 DEF Refuted, PhaseInv, TypeOK
<1>3. /\ phase = "answered" /\ Free(f) /\ mine' = None /\ phase' = "build"
      /\ UNCHANGED <<kind, sub, done, block, rooted, args, wrap, asked, built, kept>>
  BY <1>2 DEF Refuted, Free
<1>4. wrap = None /\ asked = None
  BY <1>1, <1>3 DEF PhaseInv
<1>5. Owners(f) # 0
  BY <1>1, <1>2, OwnedLive
<1>6. \A g \in Formulas : Slots(g)' = Slots(g)
  BY <1>3, SameSlots
<1>7. ASSUME NEW g \in Formulas PROVE Owners(g)' = IF g = f THEN Owners(g) - 1 ELSE Owners(g)
  <2>1. /\ Blocks(g)' = Blocks(g) /\ One(g \in built') = One(g \in built)
        /\ kept'[g] = kept[g] /\ kept[g] \in Nat
    BY <1>1, <1>3, OwnersParts DEF TypeOK
  <2>2. One(mine' = g) = 0 /\ One(mine = g) = IF g = f THEN 1 ELSE 0
    BY <1>2, <1>3, FormulasAssumption DEF One
  <2> QED BY <1>6, <2>1, <2>2, OwnersParts
<1>8. Inv' /\ ref' \in [Formulas -> Nat] /\ freeing' \in Seq(Formulas)
  BY <1>1, <1>3, <1>5, <1>6, <1>7, InvFree
<1>9. TypeOK'
  BY <1>1, <1>3, <1>8 DEF TypeOK
<1>10. RootInv' /\ PhaseInv'
  BY <1>1, <1>3, <1>4 DEF RootInv, PhaseInv
<1>11. WrapInv'
  BY <1>3, <1>4 DEF WrapInv
<1> QED BY <1>8, <1>9, <1>10, <1>11 DEF IInv, Stubs

(* The collector finalises a block, which nothing protects.                *)
LEMMA NextFinalise ==
  ASSUME IInv, NEW h \in Handles, Finalise(h)
  PROVE  IInv'
<1>1. /\ TypeOK /\ Inv /\ CountInv /\ RootInv /\ PhaseInv /\ WrapInv
  BY DEF IInv, Inv, Stubs
<1>2. PICK f \in Formulas : f = block[h]
  BY <1>1 DEF Finalise, TypeOK
<1>3. /\ h \notin rooted \cup args /\ h # asked
      /\ block' = [block EXCEPT ![h] = None] /\ Free(f)
      /\ UNCHANGED <<kind, sub, done, rooted, args, wrap, asked, built, kept, phase, mine>>
  BY <1>2 DEF Finalise, Protected, Free
<1>4. Owners(f) # 0
  <2>1. Blocks(f) # {}
    BY <1>2 DEF Blocks
  <2> QED BY <1>1, <2>1, OwnedLive
<1>5. \A g \in Formulas : Slots(g)' = Slots(g)
  BY <1>3, SameSlots
<1>6. ASSUME NEW g \in Formulas PROVE Owners(g)' = IF g = f THEN Owners(g) - 1 ELSE Owners(g)
  <2>1. /\ One(g \in built') = One(g \in built) /\ One(mine' = g) = One(mine = g)
        /\ kept'[g] = kept[g] /\ kept[g] \in Nat
    BY <1>1, <1>3 DEF TypeOK
  <2>2. Cardinality(Blocks(g)') = IF g = f THEN Cardinality(Blocks(g)) - 1
                                          ELSE Cardinality(Blocks(g))
    BY <1>1, <1>2, <1>3, BlockTaken
  <2> QED BY <1>5, <2>1, <2>2, OwnersParts
<1>7. Inv' /\ ref' \in [Formulas -> Nat] /\ freeing' \in Seq(Formulas)
  BY <1>1, <1>3, <1>4, <1>5, <1>6, InvFree
<1>8. block' \in [Handles -> Formulas \cup {None}] /\ \A x \in Handles : x # h => block'[x] = block[x]
  BY <1>1, <1>3 DEF TypeOK
<1>9. UNCHANGED <<kind, sub, done, rooted, args, wrap, asked, built, kept, phase, mine>>
  BY <1>3
<1>10. TypeOK'
  BY <1>1, <1>7, <1>8, <1>9 DEF TypeOK
<1>11. RootInv' /\ PhaseInv'
  BY <1>1, <1>3, <1>8, <1>9 DEF RootInv, PhaseInv
<1>12. WrapInv'
  <2>1. \A x \in args : x \in Handles /\ x # h
    BY <1>1, <1>3 DEF TypeOK
  <2> QED BY <1>1, <1>8, <1>9, <2>1, WrapSame
<1> QED BY <1>7, <1>10, <1>11, <1>12 DEF IInv, Stubs

(* boolformula_free gives back the next child.                             *)
LEMMA NextFreeSub ==
  ASSUME IInv, FreeSub
  PROVE  IInv'
<1>1. /\ TypeOK /\ Inv /\ HeapInv /\ CountInv /\ RootInv /\ PhaseInv /\ WrapInv
  BY DEF IInv, Inv, Stubs
<1>2. freeing # <<>>
  BY DEF FreeSub
<1>3. PICK f \in Formulas : f = Head(freeing) /\ f \in BeingFreed
  <2>1. freeing \in Seq(Formulas) /\ \A x, y \in 1 .. Len(freeing) : freeing[x] = freeing[y] => x = y
    BY <1>1 DEF TypeOK, HeapInv
  <2>2. Head(freeing) \in {freeing[x] : x \in 1 .. Len(freeing)}
    BY <1>2, <2>1, Pop
  <2>3. Head(freeing) \in Formulas
    BY <1>2, <2>1, HeadTailProperties
  <2> QED BY <2>2, <2>3 DEF BeingFreed
<1>4. /\ done[f] < Len(sub[f]) /\ sub[f][done[f] + 1] # None
      /\ done' = [done EXCEPT ![f] = @ + 1]
      /\ UNCHANGED <<kind, sub, block, rooted, args, wrap, asked, built, kept, phase, mine>>
  BY <1>3 DEF FreeSub
<1>5. PICK c \in Formulas : c = sub[f][done[f] + 1]
  <2>1. sub[f] \in Seq(Formulas \cup {None}) /\ done[f] \in Nat
    BY <1>1 DEF TypeOK
  <2>2. done[f] + 1 \in 1 .. Len(sub[f])
    BY <1>4, <2>1, LenProperties
  <2> QED BY <1>4, <2>1, <2>2, ElementOfSeq
<1>6. Free(c)
  BY <1>3, <1>5 DEF FreeSub, Free
<1>7. PICK s : /\ s \in Slots(c) /\ Slots(c)' = Slots(c) \ {s}
               /\ \A g \in Formulas \ {c} : Slots(g)' = Slots(g)
  BY <1>1, <1>4, <1>5, StepSlot
<1>8. \A g \in Formulas : Slots(g)' \subseteq Slots(g)
  BY <1>7
<1>9. Owners(c) # 0
  BY <1>1, <1>7, OwnedLive
<1>10. ASSUME NEW g \in Formulas PROVE Owners(g)' = IF g = c THEN Owners(g) - 1 ELSE Owners(g)
  <2>1. /\ One(g \in built') = One(g \in built) /\ One(mine' = g) = One(mine = g)
        /\ kept'[g] = kept[g] /\ kept[g] \in Nat /\ Blocks(g)' = Blocks(g)
    BY <1>1, <1>4, OwnersParts DEF TypeOK
  <2>2. CASE g = c
    <3>1. Cardinality(Slots(g) \ {s}) = Cardinality(Slots(g)) - 1
      BY <1>7, <2>2, SlotsFinite, FS_RemoveElement
    <3>2. Cardinality(Slots(g)') = Cardinality(Slots(g)) - 1
      BY <1>7, <2>2, <3>1
    <3> QED BY <2>1, <2>2, <3>2, OwnersParts
  <2>3. CASE g # c
    BY <1>7, <2>1, <2>3, OwnersParts
  <2> QED BY <2>2, <2>3
<1>11. done' \in [Formulas -> Nat] /\ \A g \in Formulas : g # f => done'[g] = done[g]
  BY <1>1, <1>4 DEF TypeOK
<1>12. Inv' /\ ref' \in [Formulas -> Nat] /\ freeing' \in Seq(Formulas)
  <2>1. UNCHANGED <<kind, sub, kept>>
    BY <1>4
  <2>2. \A g \in Formulas : Slots(g)' \subseteq Slots(g)
    BY <1>8
  <2>3. \A g \in Formulas : g \notin BeingFreed => done'[g] = done[g]
    BY <1>3, <1>11
  <2> QED BY <1>1, <1>6, <1>9, <1>10, <2>1, <2>2, <2>3, InvFree
<1>13. UNCHANGED <<kind, sub, block, rooted, args, wrap, asked, built, kept, phase, mine>>
  BY <1>4
<1>14. TypeOK'
  BY <1>1, <1>11, <1>12, <1>13 DEF TypeOK
<1>15. RootInv' /\ PhaseInv'
  BY <1>1, <1>13 DEF RootInv, PhaseInv
<1>16. WrapInv'
  BY <1>1, <1>13, WrapSame
<1> QED BY <1>12, <1>14, <1>15, <1>16 DEF IInv, Stubs

(* boolformula_free is done with a formula.                                *)
LEMMA NextFreeDone ==
  ASSUME IInv, FreeDone
  PROVE  IInv'
<1>1. /\ TypeOK /\ Inv /\ HeapInv /\ CountInv /\ FilledInv /\ Acyclic
      /\ RootInv /\ PhaseInv /\ WrapInv
  BY DEF IInv, Inv, Stubs
<1>2. freeing # <<>> /\ freeing' = Tail(freeing)
      /\ UNCHANGED <<block, rooted, args, wrap, asked, built, kept, phase, mine>>
  BY DEF FreeDone
<1>3. /\ Head(freeing) \in BeingFreed /\ freeing' \in Seq(Formulas)
      /\ BeingFreed' = BeingFreed \ {Head(freeing)}
      /\ \A i, j \in 1 .. Len(freeing') : freeing'[i] = freeing'[j] => i = j
  <2>1. freeing \in Seq(Formulas) /\ \A x, y \in 1 .. Len(freeing) : freeing[x] = freeing[y] => x = y
    BY <1>1 DEF TypeOK, HeapInv
  <2> DEFINE q == freeing
  <2>2. /\ Head(q) \in {q[i] : i \in 1 .. Len(q)} /\ Tail(q) \in Seq(Formulas)
        /\ {Tail(q)[i] : i \in 1 .. Len(Tail(q))} = {q[i] : i \in 1 .. Len(q)} \ {Head(q)}
        /\ \A i, j \in 1 .. Len(Tail(q)) : Tail(q)[i] = Tail(q)[j] => i = j
    BY <1>2, <2>1, Pop
  <2>3. Head(q) \in BeingFreed
    BY <2>2 DEF BeingFreed
  <2>4. BeingFreed' = {Tail(q)[i] : i \in 1 .. Len(Tail(q))}
    BY <1>2 DEF BeingFreed
  <2>5. BeingFreed' = BeingFreed \ {Head(q)}
    BY <2>2, <2>4 DEF BeingFreed
  <2> QED BY <1>2, <2>2, <2>3, <2>5
<1>4. PICK f \in BeingFreed : f = Head(freeing)
  BY <1>3
<1>5. f \in Formulas
  BY <1>1 DEF HeapInv, Allocated
<1>6. /\ done[f] = Len(sub[f])
      /\ kind' = [kind EXCEPT ![f] = "none"] /\ sub' = [sub EXCEPT ![f] = <<>>]
      /\ ref' = [ref EXCEPT ![f] = 0] /\ done' = [done EXCEPT ![f] = 0]
  BY <1>4 DEF FreeDone
<1>7. /\ kind' \in [Formulas -> {"none", "literal", "node"}] /\ kind'[f] = "none"
      /\ \A g \in Formulas : g # f => kind'[g] = kind[g]
  BY <1>1, <1>5, <1>6 DEF TypeOK
<1>8. /\ sub' \in [Formulas -> Seq(Formulas \cup {None})] /\ sub'[f] = <<>>
      /\ \A g \in Formulas : g # f => sub'[g] = sub[g]
  <2>1. <<>> \in Seq(Formulas \cup {None})
    BY EmptySeq
  <2> QED BY <1>1, <1>5, <1>6, <2>1 DEF TypeOK
<1>9. /\ ref' \in [Formulas -> Nat] /\ \A g \in Formulas : g # f => ref'[g] = ref[g]
  BY <1>1, <1>5, <1>6 DEF TypeOK
<1>10. /\ done' \in [Formulas -> Nat] /\ done'[f] = 0
       /\ \A g \in Formulas : g # f => done'[g] = done[g]
  BY <1>1, <1>5, <1>6 DEF TypeOK
<1>11. Allocated' = Allocated \ {f} /\ BeingFreed' = BeingFreed \ {f}
  BY <1>3, <1>4, <1>7 DEF Allocated
<1>12. Live' = Live /\ f \notin Live /\ Live \subseteq Formulas
  BY <1>11 DEF Live, Allocated
<1>13. \A g \in Formulas : Slots(g)' = Slots(g)
  BY <1>1, <1>5, <1>6, LastSlot
<1>14. \A g \in Formulas : Owners(g)' = Owners(g)
  BY <1>2, <1>13, OwnersParts
<1>15. HeapInv'
  <2>1. \A g \in Formulas : Len(sub'[g]) <= MaxSlots
    BY <1>1, <1>8, BoundsAssumption DEF HeapInv
  <2>2. \A g \in Formulas : kind'[g] = "none" => sub'[g] = <<>>
    BY <1>1, <1>7, <1>8 DEF HeapInv
  <2>3. \A g \in Formulas : g \notin BeingFreed' => done'[g] = 0
    BY <1>1, <1>10, <1>11 DEF HeapInv
  <2>4. BeingFreed' \subseteq Allocated'
    BY <1>1, <1>11 DEF HeapInv
  <2> QED BY <1>3, <2>1, <2>2, <2>3, <2>4 DEF HeapInv
<1>16. CountInv'
  BY <1>1, <1>9, <1>12, <1>14 DEF CountInv
<1>17. FilledInv'
  <2> SUFFICES ASSUME NEW g \in Formulas, NEW j \in DOMAIN sub'[g], sub'[g][j] = None
               PROVE  kept[g] > 0
    BY <1>2 DEF FilledInv
  <2>1. g # f
    BY <1>8
  <2>2. sub'[g] = sub[g]
    BY <1>8, <2>1
  <2> QED BY <1>1, <2>2 DEF FilledInv
<1>18. Acyclic'
  BY <1>1, <1>13, AcyclicShrinks
<1>19. TypeOK'
  BY <1>1, <1>2, <1>3, <1>7, <1>8, <1>9, <1>10 DEF TypeOK
<1>20. RootInv' /\ PhaseInv'
  BY <1>1, <1>2 DEF RootInv, PhaseInv
<1>21. WrapInv'
  BY <1>1, <1>2, <1>8, <1>12, WrapSame
<1> QED BY <1>15, <1>16, <1>17, <1>18, <1>19, <1>20, <1>21 DEF IInv, Inv, Stubs

(* Another run starts.                                                     *)
LEMMA NextAbort ==
  ASSUME IInv, Abort
  PROVE  IInv'
<1>1. TypeOK /\ HeapInv
  BY DEF IInv, Inv
<1>2. /\ freeing = <<>> /\ wrap = None
      /\ kind' = [f \in Formulas |-> "none"] /\ sub' = [f \in Formulas |-> <<>>]
      /\ ref' = [f \in Formulas |-> 0] /\ kept' = [f \in Formulas |-> 0]
      /\ block' = [h \in Handles |-> None]
      /\ rooted' = {} /\ args' = {} /\ built' = {}
      /\ asked' = None /\ mine' = None /\ phase' = "client"
      /\ UNCHANGED <<freeing, done, wrap>>
  BY DEF Abort, Building, Idle
<1>3. BeingFreed = {}
  BY <1>2 DEF BeingFreed
<1>4. \A f \in Formulas : done[f] = 0
  BY <1>1, <1>3 DEF HeapInv
<1>5. done' = [f \in Formulas |-> 0]
  BY <1>1, <1>2, <1>4 DEF TypeOK
<1>6. Init'
  BY <1>2, <1>5 DEF Init
<1> QED BY <1>6, IInvInit, PTL

-----------------------------------------------------------------------------
(* Every step keeps the inductive invariant.                               *)
LEMMA IInvNext == IInv /\ [Next]_vars => IInv'
<1> SUFFICES ASSUME IInv, [Next]_vars PROVE IInv'
  OBVIOUS
<1>1. CASE Stub
  <2>1. ASSUME NEW f \in Formulas, NEW k \in {"literal", "node"}, NEW n \in 0 .. MaxSlots,
               Create(f, k, n)
        PROVE  IInv'
    BY <2>1, NextCreate
  <2>2. ASSUME NEW p \in Handles, NEW c \in Handles, Add(p, c) PROVE IInv'
    BY <2>2, NextAdd
  <2>3. ASSUME NEW p \in Handles, NEW c \in Handles, NEW i \in 1 .. MaxSlots, Put(p, i, c)
        PROVE  IInv'
    BY <2>3, NextPut
  <2>4. ASSUME NEW h \in Handles, NEW i \in 1 .. MaxSlots, Get(h, i) PROVE IInv'
    BY <2>4, NextGet
  <2>5. ASSUME NEW h \in Handles, Inspect(h) \/ Survey(h) PROVE IInv'
    BY <2>5, NextSame DEF Inspect, Survey
  <2>6. ASSUME NEW h \in Handles, Copy(h) PROVE IInv'
    BY <2>6, NextQuiet
  <2>7. ASSUME NEW f \in Formulas, Copied(f) PROVE IInv'
    BY <2>7, NextCopied
  <2>8. ASSUME NEW h \in Handles, Wrap(h) PROVE IInv'
    BY <2>8, NextWrap
  <2> QED BY <1>1, <2>1, <2>2, <2>3, <2>4, <2>5, <2>6, <2>7, <2>8 DEF Stub
<1>2. CASE Learner
  <2>1. ASSUME NEW f \in Formulas, NEW k \in {"literal", "node"}, Make(f, k) PROVE IInv'
    BY <2>1, NextMake
  <2>2. ASSUME NEW p \in Formulas, NEW c \in Formulas, Set(p, c) PROVE IInv'
    BY <2>2, NextSet
  <2>3. ASSUME NEW c \in Formulas, GiveBack(c) PROVE IInv'
    BY <2>3, NextGiveBack
  <2>4. ASSUME NEW f \in Formulas, NEW g \in Formulas, Ask(f, g) PROVE IInv'
    BY <2>4, NextAsk
  <2>5. ASSUME NEW h \in Handles, IsEquivalent(h) PROVE IInv'
    BY <2>5, NextIsEquivalent
  <2>6. CASE Go \/ Answer \/ Conflict
    BY <2>6, NextQuiet
  <2>7. CASE Raise \/ Learned
    BY <2>7, NextLeave
  <2>8. CASE Refuted
    BY <2>8, NextRefuted
  <2>9. CASE Abort
    BY <2>9, NextAbort
  <2> QED BY <1>2, <2>1, <2>2, <2>3, <2>4, <2>5, <2>6, <2>7, <2>8, <2>9 DEF Learner
<1>3. CASE Collector
  <2>1. ASSUME NEW h \in Handles, Drop(h) PROVE IInv'
    BY <2>1, NextDrop
  <2>2. ASSUME NEW h \in Handles, Finalise(h) PROVE IInv'
    BY <2>2, NextFinalise
  <2> QED BY <1>3, <2>1, <2>2 DEF Collector
<1>4. CASE FreeSub
  BY <1>4, NextFreeSub
<1>5. CASE FreeDone
  BY <1>5, NextFreeDone
<1>6. CASE UNCHANGED vars
  BY <1>6, NextSame
<1> QED BY <1>1, <1>2, <1>3, <1>4, <1>5, <1>6 DEF Next

(* The count of each live formula is the number of its owners, whatever    *)
(* the collector and the learner do: the invariant the rest follows from.  *)
THEOREM CountsAreExact == Spec => []IInv
  BY IInvInit, IInvNext, PTL DEF Spec

(* Every variable keeps its type.                                          *)
THEOREM TypeCorrect == Spec => []TypeOK
<1>1. IInv => TypeOK
  BY DEF IInv
<1> QED BY <1>1, CountsAreExact, PTL

(* No pointer dangles: a block, the pointer Val_boolformula is about to    *)
(* wrap and the slots of a live formula lead to live formulas.             *)
THEOREM NothingDangles == Spec => []NoDangling
<1>1. IInv => NoDangling
  <2> SUFFICES ASSUME IInv PROVE NoDangling
    OBVIOUS
  <2>1. TypeOK /\ HeapInv /\ CountInv
    BY DEF IInv, Inv
  <2>2. ASSUME NEW h \in Handles, block[h] # None PROVE block[h] \in Live
    <3>1. PICK f \in Formulas : f = block[h]
      BY <2>1, <2>2 DEF TypeOK
    <3>2. Blocks(f) # {}
      BY <3>1 DEF Blocks
    <3> QED BY <2>1, <3>1, <3>2, OwnedLive
  <2>3. ASSUME NEW p \in Live, NEW i \in 1 .. MaxSlots,
               i \in DOMAIN sub[p], sub[p][i] # None
        PROVE  sub[p][i] \in Live
    <3>1. sub[p] \in Seq(Formulas \cup {None})
      BY <2>1 DEF TypeOK, Live, Allocated
    <3>2. i \in 1 .. Len(sub[p])
      BY <2>3, <3>1, LenProperties
    <3>3. PICK f \in Formulas : f = sub[p][i]
      BY <2>3, <3>1, <3>2, ElementOfSeq
    <3>4. Slots(f) # {}
      BY <2>1, <2>3, <3>3, LiveSlot
    <3> QED BY <2>1, <3>3, <3>4, OwnedLive
  <2> QED BY <2>2, <2>3, WrapLive DEF NoDangling, Live
<1> QED BY <1>1, CountsAreExact, PTL

(* boolformula_free never walks over a slot that was not set.              *)
THEOREM FreedAreFilled == Spec => []FreesOnlyFilled
<1>1. IInv => FreesOnlyFilled
  <2> SUFFICES ASSUME IInv, NEW f \in BeingFreed, NEW i \in DOMAIN sub[f]
               PROVE  sub[f][i] # None
    BY DEF FreesOnlyFilled
  <2>1. TypeOK /\ HeapInv /\ CountInv /\ FilledInv
    BY DEF IInv, Inv
  <2>2. f \in Formulas /\ f \notin Live
    BY <2>1 DEF HeapInv, Live, Allocated
  <2>3. kept[f] = 0
    BY <2>1, <2>2, OwnedLive
  <2> QED BY <2>1, <2>2, <2>3 DEF FilledInv
<1> QED BY <1>1, CountsAreExact, PTL

(* Nothing leaks but what the stubs are known to keep: an allocated        *)
(* formula is reached from something that will still give it back, or from *)
(* a reference known never to be given back.                               *)
THEOREM NothingLeaks == Spec => []NoGarbage
<1>1. IInv => NoGarbage
  <2> DEFINE Roots == (Held \cup BeingFreed) \ {None}
  <2> SUFFICES ASSUME IInv, NEW T \in SUBSET Formulas, Roots \subseteq T, Closed(T),
                      NEW x \in Allocated, x \notin T
               PROVE  FALSE
    BY DEF NoGarbage, Reach, Allocated
  <2>1. TypeOK /\ HeapInv /\ CountInv /\ Acyclic
    BY DEF IInv, Inv
  <2> DEFINE B == Allocated \ T
  <2>2. B \in SUBSET Formulas /\ B # {}
    BY DEF Allocated
  <2>3. PICK f \in B : \A s \in Slots(f) : s[1] \notin B
    BY <2>1, <2>2 DEF Acyclic
  <2>4. f \in Formulas /\ f \notin T /\ f \notin Roots /\ f # None
    BY <2>2, <2>3, FormulasAssumption
  <2>5. f \in Live
    BY <2>3, <2>4 DEF Live
  <2>6. Owners(f) # 0
    BY <2>1, <2>5 DEF CountInv
  <2>7. Blocks(f) = {} /\ f \notin built /\ mine # f /\ ~(kept[f] > 0)
    BY <2>4 DEF Held, Blocks
  <2>8. kept[f] = 0
    BY <2>1, <2>4, <2>7 DEF TypeOK
  <2>9. PICK s : s \in Slots(f)
    BY <2>1, <2>4, <2>6, <2>7, <2>8, OwnersType
  <2>10. s[1] \in Formulas /\ sub[s[1]] # <<>>
    BY <2>9 DEF Slots
  <2>11. s[1] \in Allocated
    BY <2>1, <2>10 DEF HeapInv, Allocated
  <2>12. s[1] \in T
    BY <2>3, <2>9, <2>11
  <2> QED BY <2>4, <2>9, <2>12 DEF Closed
<1> QED BY <1>1, CountsAreExact, PTL
=============================================================================
