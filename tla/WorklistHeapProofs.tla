------------------------- MODULE WorklistHeapProofs -------------------------
(***************************************************************************)
(* The theorems about WorklistHeap, for any number of constraints and any  *)
(* rank: its invariant, with what holds while a recursive call is on its   *)
(* way down, and that it implements PriorityQueue.                         *)
(***************************************************************************)
EXTENDS WorklistHeap, Integers, FiniteSetTheorems, SequenceTheorems, WellFoundedInduction, TLAPS

\* What the tree at p will gain by the call in progress.
Due(p) ==
    IF IsPrefix(p, at)
    THEN CASE call = "add" -> 1 [] call = "extract_last" -> -1 [] OTHER -> 0
    ELSE 0

\* Every prefix of a node is one.
Rooted == \A q \in Nodes : \A p \in Positions : IsPrefix(p, q) => p \in Nodes

\* A node's promise counts what is on its way.
Promised ==
    \A p \in Nodes :
        Size(Left(p)) + Due(Left(p)) = Size(Right(p)) + Due(Right(p)) + IF w[p].same THEN 0 ELSE 1

\* The element carried belongs below all nodes on the way to it.
BelowAll == \A p \in Nodes : IsPrefix(p, at) /\ p # at => ~Greater(hand, Top(p))

OnTheWay ==
    /\ call = "none" => at = Root /\ hand = Nothing
    /\ call = "add" =>
         hand \in Ids /\ BelowAll /\ \A p \in Positions : IsPrefix(p, at) /\ p # at => p \in Nodes
    /\ call = "extract_last" => at \in Nodes /\ hand = Nothing /\ (at = Root => ~IsSingle(Root))
    /\ call = "descent" => at \in Nodes /\ hand \in Ids /\ BelowAll

WalkInv == TypeOK /\ PendIsHeap /\ HeapOrdered /\ Rooted /\ Promised /\ OnTheWay

-----------------------------------------------------------------------------
(* Positions.                                                              *)

LEMMA SidesOf ==
  ASSUME NEW p \in Positions
  PROVE  /\ Root \in Positions /\ Len(Root) = 0
         /\ Left(p) \in Positions /\ Right(p) \in Positions
         /\ Len(p) \in Nat
         /\ Len(Left(p)) = Len(p) + 1 /\ Len(Right(p)) = Len(p) + 1
         /\ \A i \in 1 .. Len(p) : Left(p)[i] = p[i] /\ Right(p)[i] = p[i]
         /\ Left(p)[Len(p) + 1] = "left" /\ Right(p)[Len(p) + 1] = "right"
         /\ \A i \in 1 .. Len(p) : p[i] \in Sides
BY DEF Positions, Sides, Root, Left, Right

\* Positions with the same steps are the same.
LEMMA SamePosition ==
  ASSUME NEW p \in Positions, NEW q \in Positions, Len(p) = Len(q),
         \A i \in 1 .. Len(p) : p[i] = q[i]
  PROVE  p = q
BY SeqEqual DEF Positions

LEMMA PrefixMeans ==
  ASSUME NEW p \in Positions, NEW q \in Positions
  PROVE  IsPrefix(p, q) <=> Len(p) <= Len(q) /\ \A i \in 1 .. Len(p) : p[i] = q[i]
<1> USE DEF Positions
<1>1. CASE Len(p) <= Len(q)
  <2> DEFINE s == SubSeq(q, 1, Len(p))
  <2>1. s \in Seq(Sides) /\ Len(s) = Len(p) /\ \A i \in 1 .. Len(p) : s[i] = q[i]
    BY <1>1, SubSeqProperties
  <2>2. SubSeq(p, 1, Len(p)) = p
    BY SubSeqFull
  <2> HIDE DEF s
  <2>3. s = p <=> \A i \in 1 .. Len(p) : p[i] = q[i]
    BY <2>1, SamePosition
  <2>4. IsPrefix(p, q) <=> p = s
    BY <1>1, <2>2 DEF IsPrefix, s
  <2> QED BY <1>1, <2>3, <2>4
<1>2. CASE ~(Len(p) <= Len(q))
  BY <1>2 DEF IsPrefix
<1> QED BY <1>1, <1>2

\* Being a prefix is an order, with the root below everything.
LEMMA PrefixOrder ==
  ASSUME NEW p \in Positions, NEW q \in Positions, NEW r \in Positions
  PROVE  /\ IsPrefix(p, p) /\ IsPrefix(Root, p)
         /\ IsPrefix(p, q) /\ IsPrefix(q, r) => IsPrefix(p, r)
         /\ IsPrefix(p, q) /\ IsPrefix(q, p) => p = q
         /\ IsPrefix(p, Root) => p = Root
<1>1. Root \in Positions /\ Len(Root) = 0 /\ Len(p) \in Nat /\ Len(q) \in Nat /\ Len(r) \in Nat
  BY SidesOf
<1>2. IsPrefix(p, p) /\ IsPrefix(Root, p)
  BY <1>1, PrefixMeans
<1>3. IsPrefix(p, q) /\ IsPrefix(q, r) => IsPrefix(p, r)
  BY <1>1, PrefixMeans
<1>4. IsPrefix(p, q) /\ IsPrefix(q, p) => p = q
  BY <1>1, PrefixMeans, SamePosition
<1>5. IsPrefix(p, Root) => p = Root
  BY <1>1, PrefixMeans, SamePosition
<1> QED BY <1>2, <1>3, <1>4, <1>5

\* One side more, at the end of the prefix or of the other position.
LEMMA OneMore ==
  ASSUME NEW p \in Positions, NEW q \in Positions, NEW x \in Sides,
         NEW s \in Positions, s = Append(p, x)
  PROVE  /\ Len(s) = Len(p) + 1 /\ s[Len(p) + 1] = x
         /\ IsPrefix(s, q) <=> IsPrefix(p, q) /\ Len(p) < Len(q) /\ q[Len(p) + 1] = x
         /\ IsPrefix(q, s) <=> q = s \/ IsPrefix(q, p)
<1>1. Len(p) \in Nat /\ Len(q) \in Nat /\ Len(s) = Len(p) + 1
  BY SidesOf DEF Positions
<1>2. s[Len(p) + 1] = x /\ \A i \in 1 .. Len(p) : s[i] = p[i]
  BY <1>1, AppendProperties DEF Positions
<1>3. IsPrefix(p, s)
  <2>1. Len(p) <= Len(s) /\ \A i \in 1 .. Len(p) : p[i] = s[i]
    BY <1>1, <1>2
  <2> QED BY <2>1, PrefixMeans
<1>4. ASSUME IsPrefix(s, q)
      PROVE  IsPrefix(p, q) /\ Len(p) < Len(q) /\ q[Len(p) + 1] = x
  <2>1. Len(s) <= Len(q) /\ \A i \in 1 .. Len(s) : s[i] = q[i]
    BY <1>4, PrefixMeans
  <2>2. Len(p) + 1 \in 1 .. Len(s)
    BY <1>1
  <2> QED BY <1>1, <1>2, <1>3, <1>4, <2>1, <2>2, PrefixOrder
<1>5. ASSUME IsPrefix(p, q), Len(p) < Len(q), q[Len(p) + 1] = x
      PROVE  IsPrefix(s, q)
  <2>1. \A i \in 1 .. Len(p) : p[i] = q[i]
    BY <1>5, PrefixMeans
  <2>2. ASSUME NEW i \in 1 .. Len(s)  PROVE s[i] = q[i]
    <3>1. i \in 1 .. Len(p) \/ i = Len(p) + 1
      BY <1>1
    <3> QED BY <1>2, <1>5, <2>1, <3>1
  <2>3. Len(s) <= Len(q)
    BY <1>1, <1>5
  <2> QED BY <2>2, <2>3, PrefixMeans
<1>6. ASSUME IsPrefix(q, s), ~(Len(q) <= Len(p))  PROVE q = s
  <2>1. Len(q) <= Len(s) /\ \A i \in 1 .. Len(q) : q[i] = s[i]
    BY <1>6, PrefixMeans
  <2>2. Len(q) = Len(s)
    BY <1>1, <1>6, <2>1
  <2> QED BY <2>1, <2>2, SamePosition
<1>7. ASSUME IsPrefix(q, s), Len(q) <= Len(p)  PROVE IsPrefix(q, p)
  <2>1. \A i \in 1 .. Len(q) : q[i] = s[i]
    BY <1>7, PrefixMeans
  <2>2. \A i \in 1 .. Len(q) : i \in 1 .. Len(p)
    BY <1>1, <1>7
  <2> QED BY <1>2, <1>7, <2>1, <2>2, PrefixMeans
<1>8. q = s \/ IsPrefix(q, p) => IsPrefix(q, s)
  BY <1>3, PrefixOrder
<1> QED BY <1>1, <1>2, <1>4, <1>5, <1>6, <1>7, <1>8

\* What lies below a position, and what lies above one of its sides.
LEMMA Branches ==
  ASSUME NEW p \in Positions, NEW q \in Positions
  PROVE  /\ IsPrefix(p, q) <=> p = q \/ IsPrefix(Left(p), q) \/ IsPrefix(Right(p), q)
         /\ ~(IsPrefix(Left(p), q) /\ IsPrefix(Right(p), q))
         /\ IsPrefix(q, Left(p)) <=> q = Left(p) \/ IsPrefix(q, p)
         /\ IsPrefix(q, Right(p)) <=> q = Right(p) \/ IsPrefix(q, p)
         /\ ~IsPrefix(Left(p), p) /\ ~IsPrefix(Right(p), p)
         /\ Left(p) # p /\ Right(p) # p /\ Left(p) # Right(p)
         /\ Left(p) # Root /\ Right(p) # Root
<1>1. /\ Root \in Positions /\ Len(Root) = 0 /\ Len(p) \in Nat /\ Len(q) \in Nat
      /\ Left(p) \in Positions /\ Right(p) \in Positions
  BY SidesOf
<1>2. "left" \in Sides /\ "right" \in Sides
  BY DEF Sides
<1>3. /\ Len(Left(p)) = Len(p) + 1 /\ Left(p)[Len(p) + 1] = "left"
      /\ IsPrefix(Left(p), q) <=> IsPrefix(p, q) /\ Len(p) < Len(q) /\ q[Len(p) + 1] = "left"
      /\ IsPrefix(q, Left(p)) <=> q = Left(p) \/ IsPrefix(q, p)
  <2>1. Left(p) = Append(p, "left")
    BY DEF Left
  <2> QED BY <1>1, <1>2, <2>1, OneMore
<1>4. /\ Len(Right(p)) = Len(p) + 1 /\ Right(p)[Len(p) + 1] = "right"
      /\ IsPrefix(Right(p), q) <=> IsPrefix(p, q) /\ Len(p) < Len(q) /\ q[Len(p) + 1] = "right"
      /\ IsPrefix(q, Right(p)) <=> q = Right(p) \/ IsPrefix(q, p)
  <2>1. Right(p) = Append(p, "right")
    BY DEF Right
  <2> QED BY <1>1, <1>2, <2>1, OneMore
<1>5. /\ ~IsPrefix(Left(p), p) /\ ~IsPrefix(Right(p), p)
      /\ Left(p) # p /\ Right(p) # p /\ Left(p) # Root /\ Right(p) # Root
  BY <1>1, <1>3, <1>4, PrefixMeans
<1>6. Left(p) # Right(p)
  BY <1>3, <1>4
<1>7. ASSUME IsPrefix(p, q), p # q
      PROVE  Len(p) < Len(q) /\ q[Len(p) + 1] \in Sides
  <2>1. Len(p) < Len(q)
    BY <1>1, <1>7, PrefixMeans, SamePosition
  <2>2. Len(p) + 1 \in 1 .. Len(q)
    BY <1>1, <2>1
  <2> QED BY <2>1, <2>2, SidesOf
<1>8. p = q => IsPrefix(p, q)
  BY PrefixOrder
<1>9. IsPrefix(p, q) <=> p = q \/ IsPrefix(Left(p), q) \/ IsPrefix(Right(p), q)
  BY <1>3, <1>4, <1>7, <1>8 DEF Sides
<1> QED BY <1>3, <1>4, <1>5, <1>6, <1>9

\* Prefixes of one position are comparable.
LEMMA PrefixLinear ==
  ASSUME NEW p \in Positions, NEW q \in Positions, NEW r \in Positions,
         IsPrefix(p, r), IsPrefix(q, r)
  PROVE  IsPrefix(p, q) \/ IsPrefix(q, p)
<1>1. Len(p) \in Nat /\ Len(q) \in Nat
  BY SidesOf
<1>2. /\ \A i \in 1 .. Len(p) : p[i] = r[i]
      /\ \A i \in 1 .. Len(q) : q[i] = r[i]
  BY PrefixMeans
<1> QED BY <1>1, <1>2, PrefixMeans

-----------------------------------------------------------------------------
(* The ranks, the nodes and the sizes.                                     *)

LEMMA RankOrder ==
  ASSUME NEW x \in Ids, NEW y \in Ids, NEW z \in Ids
  PROVE  /\ ~Greater(x, x)
         /\ Greater(x, y) => ~Greater(y, x)
         /\ ~Greater(x, y) /\ ~Greater(y, z) => ~Greater(x, z)
BY HeapAssumption DEF Greater

NodeSet == [same : BOOLEAN, top : Ids]

LEMMA MadeNode ==
  ASSUME NEW x \in Ids
  PROVE  /\ Same(x) \in NodeSet /\ Same(x).same = TRUE /\ Same(x).top = x
         /\ Diff(x) \in NodeSet /\ Diff(x).same = FALSE /\ Diff(x).top = x
BY DEF Same, Diff, NodeSet

\* What it means to put another node, or another element, at a position.
LEMMA PutNode ==
  ASSUME NEW N, NEW f \in [N -> NodeSet], NEW a \in N, NEW n \in NodeSet
  PROVE  /\ [f EXCEPT ![a] = n] \in [N -> NodeSet]
         /\ [f EXCEPT ![a] = n][a] = n
         /\ \A p \in N \ {a} : [f EXCEPT ![a] = n][p] = f[p]
OBVIOUS

LEMMA PutTop ==
  ASSUME NEW N, NEW f \in [N -> NodeSet], NEW a \in N, NEW x \in Ids
  PROVE  /\ [f EXCEPT ![a].top = x] \in [N -> NodeSet]
         /\ [f EXCEPT ![a].top = x][a].top = x
         /\ [f EXCEPT ![a].top = x][a].same = f[a].same
         /\ \A p \in N \ {a} : [f EXCEPT ![a].top = x][p] = f[p]
BY DEF NodeSet

\* One node more counts once, for each tree that it is in.
LEMMA CountOneMore ==
  ASSUME NEW N, IsFiniteSet(N), NEW r, r \notin N, NEW p
  PROVE  Cardinality({q \in N \cup {r} : IsPrefix(p, q)})
           = Cardinality({q \in N : IsPrefix(p, q)}) + IF IsPrefix(p, r) THEN 1 ELSE 0
<1> DEFINE S == {q \in N : IsPrefix(p, q)}
           T == {q \in N \cup {r} : IsPrefix(p, q)}
<1>1. IsFiniteSet(S) /\ r \notin S
  BY FS_Subset
<1>2. /\ IsPrefix(p, r) => T = S \cup {r}
      /\ ~IsPrefix(p, r) => T = S
  OBVIOUS
<1> HIDE DEF S, T
<1>3. Cardinality(S \cup {r}) = Cardinality(S) + 1 /\ Cardinality(S) \in Nat
  BY <1>1, FS_AddElement, FS_CardinalityType
<1>4. CASE IsPrefix(p, r)
  BY <1>2, <1>3, <1>4 DEF S, T
<1>5. CASE ~IsPrefix(p, r)
  <2>1. (IF IsPrefix(p, r) THEN 1 ELSE 0) = 0
    BY <1>5, Zenon
  <2>2. Cardinality(T) = Cardinality(S) + 0
    BY <1>2, <1>3, <1>5
  <2> QED BY <2>1, <2>2, Zenon DEF S, T
<1> QED BY <1>4, <1>5

LEMMA SizeIsNat ==
  ASSUME IsFiniteSet(Nodes), NEW p
  PROVE  IsFiniteSet(Tree(p)) /\ Size(p) \in Nat
<1>1. IsFiniteSet(Tree(p))
  BY FS_Subset DEF Tree
<1> QED BY <1>1, FS_CardinalityType DEF Size

\* Where no node is, no tree is.
LEMMA NoTree ==
  ASSUME IsFiniteSet(Nodes), Nodes \subseteq Positions, Rooted, NEW p \in Positions
  PROVE  Size(p) = 0 <=> p \notin Nodes
<1>1. p \in Nodes => p \in Tree(p)
  BY PrefixOrder DEF Tree
<1>2. p \notin Nodes => Tree(p) = {}
  BY DEF Tree, Rooted
<1>3. Size(p) = 0 <=> Tree(p) = {}
  BY SizeIsNat, FS_EmptySet DEF Size
<1> QED BY <1>1, <1>2, <1>3

\* A tree is its top and the trees on its sides.
LEMMA SizeOfNode ==
  ASSUME IsFiniteSet(Nodes), Nodes \subseteq Positions, NEW p \in Nodes
  PROVE  Size(p) = Size(Left(p)) + Size(Right(p)) + 1
<1> DEFINE A == Tree(Left(p))
           B == Tree(Right(p))
<1>1. IsFiniteSet(A) /\ IsFiniteSet(B) /\ Size(Left(p)) \in Nat /\ Size(Right(p)) \in Nat
  BY SizeIsNat
<1>2. A \cap B = {}
  BY Branches DEF Tree
<1>3. p \notin A \cup B
  BY Branches DEF Tree
<1>4. Tree(p) = (A \cup B) \cup {p}
  <2>1. \A q \in Nodes : IsPrefix(p, q) <=> p = q \/ IsPrefix(Left(p), q) \/ IsPrefix(Right(p), q)
    BY Branches
  <2> QED BY <2>1 DEF Tree
<1>5. IsFiniteSet(A \cup B) /\ Cardinality(A \cup B) = Size(Left(p)) + Size(Right(p))
  <2>1. IsFiniteSet(A \cup B) /\ Cardinality(A \cup B) = Cardinality(A) + Cardinality(B) - Cardinality(A \cap B)
    BY <1>1, FS_Union
  <2>2. Cardinality(A \cap B) = 0
    BY <1>2, FS_EmptySet
  <2>3. Cardinality(A) = Size(Left(p)) /\ Cardinality(B) = Size(Right(p))
    BY DEF Size
  <2> QED BY <1>1, <2>1, <2>2, <2>3
<1> HIDE DEF A, B
<1>6. Cardinality((A \cup B) \cup {p}) = Cardinality(A \cup B) + 1
  BY <1>3, <1>5, FS_AddElement
<1> QED BY <1>4, <1>5, <1>6 DEF Size

\* No call in progress changes the size of a side, or none has begun to.
LEMMA NothingDue ==
  ASSUME NEW p \in Positions, call \in {"none", "descent"} \/ at = Root
  PROVE  Due(Left(p)) = 0 /\ Due(Right(p)) = 0
<1>1. ~IsPrefix(Left(p), Root) /\ ~IsPrefix(Right(p), Root)
  BY SidesOf, PrefixOrder, Branches
<1> QED BY <1>1 DEF Due

LEMMA WalkTyped ==
  ASSUME WalkInv
  PROVE  /\ IsFiniteSet(Nodes) /\ Nodes \subseteq Positions
         /\ w \in [Nodes -> NodeSet]
         /\ \A p \in Nodes : w[p].same \in BOOLEAN /\ Top(p) \in Ids
         /\ Nothing \notin Ids
         /\ Nodes # {} => Root \in Nodes
<1>1. w \in [Nodes -> NodeSet] /\ IsFiniteSet(Nodes) /\ Nodes \subseteq Positions
  BY DEF WalkInv, TypeOK, NodeSet
<1>2. \A p \in Nodes : w[p].same \in BOOLEAN /\ w[p].top \in Ids
  BY <1>1 DEF NodeSet
<1>3. Nodes # {} => Root \in Nodes
  BY <1>1, SidesOf, PrefixOrder DEF WalkInv, Rooted
<1> QED BY <1>1, <1>2, <1>3, HeapAssumption DEF Top

LEMMA InitWalk == Init => WalkInv
<1> SUFFICES ASSUME Init PROVE WalkInv
  OBVIOUS
<1>1. Nodes = {} /\ IsFiniteSet(Nodes)
  BY FS_EmptySet DEF Init, Empty, Nodes
<1>2. w \in [Nodes -> [same : BOOLEAN, top : Ids]]
  BY DEF Init, Empty, Nodes
<1>3. TypeOK
  BY <1>1, <1>2, SidesOf DEF Init, TypeOK, Positions, Root
<1>4. PendIsHeap
  BY <1>1 DEF Init, PendIsHeap, Contents
<1>5. HeapOrdered /\ Rooted /\ Promised
  BY <1>1 DEF HeapOrdered, Rooted, Promised
<1>6. OnTheWay
  BY DEF Init, OnTheWay
<1> QED BY <1>3, <1>4, <1>5, <1>6 DEF WalkInv

\* The nodes keep their place and their kind: so do sizes and promises.
LEMMA SameSkeleton ==
  ASSUME WalkInv, Nodes' = Nodes, \A p \in Nodes : w'[p].same = w[p].same,
         call \in {"none", "descent"}, call' \in {"none", "descent"} \/ at' = Root
  PROVE  Rooted' /\ Promised'
<1>1. \A p : Size(p)' = Size(p)
  BY DEF Size, Tree
<1>2. Rooted'
  BY DEF WalkInv, Rooted
<1>3. \A p \in Nodes : Due(Left(p)) = 0 /\ Due(Right(p)) = 0
  BY WalkTyped, NothingDue
<1>4. \A p \in Nodes : Due(Left(p))' = 0 /\ Due(Right(p))' = 0
  <2>1. \A p \in Positions : ~IsPrefix(Left(p), Root) /\ ~IsPrefix(Right(p), Root)
    BY SidesOf, PrefixOrder, Branches
  <2> QED BY <2>1, WalkTyped DEF Due
<1>5. Promised'
  BY <1>1, <1>3, <1>4 DEF WalkInv, Promised
<1> QED BY <1>2, <1>5

-----------------------------------------------------------------------------
(* Push and Pop, and the calls of add.                                     *)

LEMMA PushWalk ==
  ASSUME WalkInv, NEW i \in Ids, Push(i)
  PROVE  WalkInv'
<1>1. /\ w' = w /\ Nodes' = Nodes /\ popped' = popped /\ call = "none"
      /\ pend' = pend \cup {i}
      /\ at = Root /\ hand = Nothing
      /\ \/ i \in pend /\ call' = "none" /\ at' = at /\ hand' = hand
         \/ i \notin pend /\ call' = "add" /\ at' = Root /\ hand' = i
  BY DEF Push, Call, Nodes, WalkInv, OnTheWay
<1>2. TypeOK'
  BY <1>1, SidesOf DEF WalkInv, TypeOK
<1>3. PendIsHeap'
  <2>1. Hole = {} /\ Hole' = {}
    BY <1>1 DEF Hole
  <2>2. \A p : Top(p)' = Top(p)
    BY <1>1 DEF Top
  <2>3. Contents = {Top(p) : p \in Nodes}
    BY <1>1, <2>1 DEF Contents
  <2>4. Contents' = {Top(p) : p \in Nodes} \cup ({hand'} \ {Nothing})
    BY <1>1, <2>1, <2>2 DEF Contents
  <2>5. CASE i \in pend
    BY <1>1, <2>1, <2>2, <2>3, <2>4, <2>5 DEF WalkInv, PendIsHeap
  <2>6. CASE i \notin pend
    <3>1. hand' = i /\ i # Nothing
      BY <1>1, <2>6, HeapAssumption
    <3>2. pend' = Contents'
      BY <1>1, <2>3, <2>4, <3>1 DEF WalkInv, PendIsHeap
    <3>3. \A p \in Nodes : Top(p) # i
      BY <2>3, <2>6 DEF WalkInv, PendIsHeap
    <3> QED BY <1>1, <2>1, <2>2, <3>1, <3>2, <3>3 DEF WalkInv, PendIsHeap
  <2> QED BY <2>5, <2>6
<1>4. HeapOrdered'
  BY <1>1 DEF WalkInv, HeapOrdered, Top
<1>5. Rooted' /\ Promised'
  BY <1>1, SameSkeleton
<1>6. OnTheWay'
  <2>1. \A p \in Positions : IsPrefix(p, Root) => p = Root
    BY SidesOf, PrefixOrder
  <2>2. Nodes \subseteq Positions
    BY WalkTyped
  <2> QED BY <1>1, <2>1, <2>2 DEF OnTheWay, BelowAll
<1> QED BY <1>2, <1>3, <1>4, <1>5, <1>6 DEF WalkInv

\* Only the root is on its own.
LEMMA SingleRoot ==
  ASSUME WalkInv, Nodes # {}, IsSingle(Root)
  PROVE  Nodes = {Root}
<1>1. Root \in Nodes
  BY WalkTyped
<1>2. ASSUME NEW q \in Nodes, q # Root  PROVE FALSE
  <2>1. q \in Positions /\ Root \in Positions /\ Left(Root) \in Positions /\ Right(Root) \in Positions
    BY WalkTyped, SidesOf
  <2>2. IsPrefix(Root, q)
    BY <2>1, PrefixOrder
  <2>3. IsPrefix(Left(Root), q) \/ IsPrefix(Right(Root), q)
    BY <1>2, <2>1, <2>2, Branches
  <2> QED BY <2>1, <2>3 DEF IsSingle, WalkInv, Rooted
<1> QED BY <1>1, <1>2

LEMMA PopWalk ==
  ASSUME WalkInv, Pop
  PROVE  WalkInv'
<1>1. /\ call = "none" /\ w # Empty /\ at = Root /\ hand = Nothing
      /\ popped' = Top(Root) /\ pend' = pend \ {Top(Root)}
  BY DEF Pop, WalkInv, OnTheWay
<1>2. Root \in Nodes
  <2>1. Nodes # {}
    BY <1>1, WalkTyped DEF Empty
  <2> QED BY <2>1, WalkTyped
<1>3. Hole = {}
  BY <1>1 DEF Hole
<1>4. pend = {Top(p) : p \in Nodes} /\ \A p, q \in Nodes : Top(p) = Top(q) => p = q
  BY <1>1, <1>3 DEF WalkInv, PendIsHeap, Contents
<1>5. CASE IsSingle(Root)
  <2>1. w' = Empty /\ call' = "none" /\ at' = Root /\ hand' = Nothing
    BY <1>5 DEF Pop, RemoveTop, Return, Call
  <2>2. Nodes' = {} /\ IsFiniteSet(Nodes')
    BY <2>1, FS_EmptySet DEF Nodes, Empty
  <2>3. w' \in [Nodes' -> [same : BOOLEAN, top : Ids]]
    BY <2>1, <2>2 DEF Empty
  <2>4. TypeOK'
    BY <1>1, <1>2, <2>1, <2>2, <2>3, SidesOf, WalkTyped DEF WalkInv, TypeOK
  <2>5. pend' = {}
    BY <1>1, <1>2, <1>4, <1>5, SingleRoot
  <2>6. PendIsHeap'
    BY <2>1, <2>2, <2>5 DEF PendIsHeap, Contents
  <2>7. HeapOrdered' /\ Rooted' /\ Promised'
    BY <2>2 DEF HeapOrdered, Rooted, Promised
  <2>8. OnTheWay'
    BY <2>1 DEF OnTheWay
  <2> QED BY <2>4, <2>6, <2>7, <2>8 DEF WalkInv
<1>6. CASE ~IsSingle(Root)
  <2>1. w' = w /\ Nodes' = Nodes /\ call' = "extract_last" /\ at' = Root /\ hand' = Nothing
    BY <1>6 DEF Pop, RemoveTop, Call, Nodes
  <2>2. TypeOK'
    BY <1>1, <1>2, <2>1, SidesOf, WalkTyped DEF WalkInv, TypeOK
  <2>3. PendIsHeap'
    <3>1. Hole' = {Root} /\ \A p : Top(p)' = Top(p)
      BY <2>1 DEF Hole, Top
    <3>2. Contents' = {Top(p) : p \in Nodes \ {Root}}
      BY <2>1, <3>1 DEF Contents
    <3>3. pend' = Contents'
      BY <1>1, <1>2, <1>4, <3>2
    <3>4. \A p \in Nodes : Top(p) # Nothing
      BY WalkTyped
    <3> QED BY <1>4, <2>1, <3>1, <3>3, <3>4 DEF PendIsHeap
  <2>4. HeapOrdered'
    BY <2>1 DEF WalkInv, HeapOrdered, Top
  <2>5. Rooted' /\ Promised'
    BY <1>1, <2>1, SameSkeleton
  <2>6. OnTheWay'
    <3>1. ~IsSingle(Root)'
      BY <1>6, <2>1 DEF IsSingle
    <3> QED BY <1>2, <2>1, <3>1 DEF OnTheWay
  <2> QED BY <2>2, <2>3, <2>4, <2>5, <2>6 DEF WalkInv
<1> QED BY <1>5, <1>6

LEMMA PopEmptyWalk ==
  ASSUME WalkInv, UNCHANGED <<w, pend, call, at, hand>>, popped' \in Ids \cup {Nothing}
  PROVE  WalkInv'
<1>1. TypeOK'
  BY DEF WalkInv, TypeOK, Nodes
<1>2. PendIsHeap' /\ HeapOrdered'
  BY DEF WalkInv, PendIsHeap, HeapOrdered, Contents, Hole, Top, Nodes
<1>3. Rooted' /\ Promised'
  BY DEF WalkInv, Rooted, Promised, Size, Tree, Due, Nodes
<1>4. OnTheWay'
  BY DEF WalkInv, OnTheWay, BelowAll, IsSingle, Top, Nodes
<1> QED BY <1>1, <1>2, <1>3, <1>4 DEF WalkInv

LEMMA AddHereWalk ==
  ASSUME WalkInv, AddHere
  PROVE  WalkInv'
<1>0. PICK r \in Positions : r = at
  BY DEF WalkInv, TypeOK
<1>1. /\ call = "add" /\ at = r /\ r \notin Nodes /\ r \in Positions /\ hand \in Ids
      /\ call' = "none" /\ at' = Root /\ hand' = Nothing
      /\ pend' = pend /\ popped' = popped
      /\ w' = [p \in Nodes \cup {r} |-> IF p = r THEN Same(hand) ELSE w[p]]
  BY <1>0 DEF AddHere, Return, Call, WalkInv, TypeOK, OnTheWay
<1>2. Nodes' = Nodes \cup {r} /\ w'[r] = Same(hand) /\ \A p \in Nodes : w'[p] = w[p]
  BY <1>1 DEF Nodes
<1>3. /\ w'[r].same = TRUE /\ Top(r)' = hand
      /\ \A p \in Nodes : w'[p].same = w[p].same /\ Top(p)' = Top(p)
  BY <1>1, <1>2, MadeNode DEF Top
<1>4. TypeOK'
  <2>1. IsFiniteSet(Nodes') /\ Nodes' \subseteq Positions
    BY <1>1, <1>2, WalkTyped, FS_AddElement
  <2>2. w' \in [Nodes' -> NodeSet]
    BY <1>1, <1>2, WalkTyped, MadeNode
  <2> QED BY <1>1, <2>1, <2>2, SidesOf DEF WalkInv, TypeOK, NodeSet
<1>5. PendIsHeap'
  <2>1. Hole = {} /\ Hole' = {}
    BY <1>1 DEF Hole
  <2>2. hand # Nothing
    BY <1>1, WalkTyped
  <2>3. Contents = {Top(p) : p \in Nodes} \cup {hand}
    BY <2>1, <2>2 DEF Contents
  <2>4. Contents' = {Top(p)' : p \in Nodes \cup {r}}
    BY <1>1, <1>2, <2>1 DEF Contents
  <2>5. Contents' = Contents
    BY <1>3, <2>3, <2>4
  <2>6. \A p, q \in Nodes \cup {r} : Top(p)' = Top(q)' => p = q
    BY <1>3, <2>1 DEF WalkInv, PendIsHeap
  <2>7. \A p \in Nodes \cup {r} : Top(p)' # Nothing
    BY <1>1, <1>3, WalkTyped
  <2> QED BY <1>1, <1>2, <2>1, <2>5, <2>6, <2>7 DEF WalkInv, PendIsHeap
<1>6. ASSUME NEW q \in Nodes  PROVE ~IsPrefix(r, q)
  BY <1>1 DEF WalkInv, Rooted
<1>7. HeapOrdered'
  <2> SUFFICES ASSUME NEW p \in Nodes \cup {r}, NEW q \in Nodes \cup {r}, IsPrefix(p, q)
               PROVE  ~Greater(Top(q)', Top(p)')
    BY <1>2 DEF HeapOrdered, Greater
  <2>1. CASE p \in Nodes /\ q \in Nodes
    BY <1>3, <2>1 DEF WalkInv, HeapOrdered
  <2>2. CASE p \in Nodes /\ q = r
    BY <1>1, <1>3, <2>2 DEF WalkInv, OnTheWay, BelowAll
  <2>3. CASE p = r /\ q = r
    BY <1>1, <1>3, <2>3, RankOrder
  <2> QED BY <1>6, <2>1, <2>2, <2>3
<1>8. Rooted'
  <2>1. \A p \in Positions : IsPrefix(p, r) => p \in Nodes \cup {r}
    BY <1>1 DEF WalkInv, OnTheWay
  <2> QED BY <1>2, <2>1 DEF WalkInv, Rooted
<1>9. Promised'
  <2>1. ASSUME NEW p  PROVE Size(p)' = Size(p) + Due(p)
    <3>1. Size(p)' = Cardinality({q \in Nodes \cup {r} : IsPrefix(p, q)})
      BY <1>2 DEF Size, Tree
    <3>2. Cardinality({q \in Nodes \cup {r} : IsPrefix(p, q)})
            = Cardinality({q \in Nodes : IsPrefix(p, q)}) + IF IsPrefix(p, r) THEN 1 ELSE 0
      BY <1>1, WalkTyped, CountOneMore
    <3>3. Due(p) = IF IsPrefix(p, r) THEN 1 ELSE 0
      BY <1>1 DEF Due
    <3> QED BY <3>1, <3>2, <3>3 DEF Size, Tree
  <2>2. \A p : Size(p)' + Due(p)' = Size(p) + Due(p)
    <3>1. \A p : Due(p)' = 0
      BY <1>1 DEF Due
    <3>2. \A p : Size(p) \in Nat /\ Due(p) \in Int
      BY <1>1, WalkTyped, SizeIsNat DEF Due
    <3> QED BY <2>1, <3>1, <3>2
  <2>3. \A p \in Nodes :
          Size(Left(p))' + Due(Left(p))'
            = Size(Right(p))' + Due(Right(p))' + IF w'[p].same THEN 0 ELSE 1
    BY <1>3, <2>2 DEF WalkInv, Promised
  <2>4. Size(Left(r))' + Due(Left(r))' = 0 /\ Size(Right(r))' + Due(Right(r))' = 0
    <3>1. Left(r) \in Positions /\ Right(r) \in Positions
      BY <1>1, SidesOf
    <3>2. ~IsPrefix(Left(r), r) /\ ~IsPrefix(Right(r), r)
      BY <1>1, Branches
    <3>3. IsPrefix(r, Left(r)) /\ IsPrefix(r, Right(r))
      BY <1>1, Branches, PrefixOrder
    <3>4. Left(r) \notin Nodes /\ Right(r) \notin Nodes
      BY <1>6, <3>3
    <3>5. Size(Left(r)) = 0 /\ Size(Right(r)) = 0
      BY <3>1, <3>4, NoTree, WalkTyped DEF WalkInv
    <3>6. Due(Left(r)) = 0 /\ Due(Right(r)) = 0
      BY <1>1, <3>2 DEF Due
    <3> QED BY <2>2, <3>5, <3>6
  <2>5. Size(Left(r))' + Due(Left(r))'
          = Size(Right(r))' + Due(Right(r))' + IF w'[r].same THEN 0 ELSE 1
    BY <1>3, <2>4
  <2> QED BY <1>2, <2>3, <2>5 DEF Promised
<1>10. OnTheWay'
  BY <1>1 DEF OnTheWay
<1> QED BY <1>4, <1>5, <1>7, <1>8, <1>9, <1>10 DEF WalkInv

-----------------------------------------------------------------------------
(* One call further down: what is due on one side is due no more where the *)
(* node's kind has been changed.                                           *)

\* A position is a side of one position only.
LEMMA SideOfOne ==
  ASSUME NEW p \in Positions, NEW q \in Positions
  PROVE  /\ Left(p) # Right(q)
         /\ Left(p) = Left(q) => p = q
         /\ Right(p) = Right(q) => p = q
<1>1. /\ Len(p) \in Nat /\ Len(q) \in Nat
      /\ Len(Left(p)) = Len(p) + 1 /\ Len(Left(q)) = Len(q) + 1
      /\ Len(Right(p)) = Len(p) + 1 /\ Len(Right(q)) = Len(q) + 1
      /\ Left(p)[Len(p) + 1] = "left" /\ Right(q)[Len(q) + 1] = "right"
  BY SidesOf
<1>2. Left(p) # Right(q)
  BY <1>1
<1>3. ASSUME Left(p) = Left(q)  PROVE p = q
  <2>1. Len(p) = Len(q)
    BY <1>1, <1>3
  <2>2. /\ \A i \in 1 .. Len(p) : Left(p)[i] = p[i]
        /\ \A i \in 1 .. Len(q) : Left(q)[i] = q[i]
    BY SidesOf
  <2>3. \A i \in 1 .. Len(p) : p[i] = q[i]
    BY <1>3, <2>1, <2>2
  <2> QED BY <2>1, <2>3, SamePosition
<1>4. ASSUME Right(p) = Right(q)  PROVE p = q
  <2>1. Len(p) = Len(q)
    BY <1>1, <1>4
  <2>2. /\ \A i \in 1 .. Len(p) : Right(p)[i] = p[i]
        /\ \A i \in 1 .. Len(q) : Right(q)[i] = q[i]
    BY SidesOf
  <2>3. \A i \in 1 .. Len(p) : p[i] = q[i]
    BY <1>4, <2>1, <2>2
  <2> QED BY <2>1, <2>3, SamePosition
<1> QED BY <1>2, <1>3, <1>4

\* The call for the tree at r has become one for its left or right side.
LEMMA DueBelow ==
  ASSUME NEW r \in Positions, at = r, call' = call, at' \in {Left(r), Right(r)},
         NEW d, d = (CASE call = "add" -> 1 [] call = "extract_last" -> -1 [] OTHER -> 0)
  PROVE  /\ Due(Left(r)) = 0 /\ Due(Right(r)) = 0
         /\ Due(Left(r))' = IF at' = Left(r) THEN d ELSE 0
         /\ Due(Right(r))' = IF at' = Right(r) THEN d ELSE 0
         /\ \A p \in Positions \ {r} :
              Due(Left(p))' = Due(Left(p)) /\ Due(Right(p))' = Due(Right(p))
<1>1. Left(r) \in Positions /\ Right(r) \in Positions
  BY SidesOf
<1>2. Due(Left(r)) = 0 /\ Due(Right(r)) = 0
  BY Branches DEF Due
<1>3. \A p \in Positions : IsPrefix(p, at') <=> p = at' \/ IsPrefix(p, r)
  BY Branches
<1>4. Due(Left(r))' = IF at' = Left(r) THEN d ELSE 0
  <2>1. IsPrefix(Left(r), at') <=> at' = Left(r)
    BY <1>1, <1>3, Branches
  <2> QED BY <2>1 DEF Due
<1>5. Due(Right(r))' = IF at' = Right(r) THEN d ELSE 0
  <2>1. IsPrefix(Right(r), at') <=> at' = Right(r)
    BY <1>1, <1>3, Branches
  <2> QED BY <2>1 DEF Due
<1>6. ASSUME NEW p \in Positions \ {r}
      PROVE  Due(Left(p))' = Due(Left(p)) /\ Due(Right(p))' = Due(Right(p))
  <2>1. Left(p) \in Positions /\ Right(p) \in Positions
    BY SidesOf
  <2>2. Left(p) # at' /\ Right(p) # at'
    BY SideOfOne
  <2>3. /\ IsPrefix(Left(p), at') <=> IsPrefix(Left(p), r)
        /\ IsPrefix(Right(p), at') <=> IsPrefix(Right(p), r)
    BY <1>3, <2>1, <2>2
  <2> QED BY <2>3 DEF Due
<1> QED BY <1>2, <1>4, <1>5, <1>6

\* A call of add or of extract_last that turns Same into Diff, or Diff into
\* Same, and goes on to the side that will make that true.
LEMMA TurnedSkeleton ==
  ASSUME WalkInv, NEW r \in Nodes, at = r, call' = call, Nodes' = Nodes,
         call \in {"add", "extract_last"},
         w'[r].same = ~w[r].same, \A p \in Nodes \ {r} : w'[p].same = w[p].same,
         at' = IF w[r].same <=> call = "add" THEN Left(r) ELSE Right(r)
  PROVE  Rooted' /\ Promised'
<1>1. \A p : Size(p)' = Size(p)
  BY DEF Size, Tree
<1>2. \A p : Size(p) \in Nat /\ Due(p) \in Int
  BY WalkTyped, SizeIsNat DEF Due
<1>3. Rooted'
  BY DEF WalkInv, Rooted
<1>4. r \in Positions /\ w[r].same \in BOOLEAN /\ Nodes \subseteq Positions
  BY WalkTyped
<1>5. PICK d : d = (CASE call = "add" -> 1 [] call = "extract_last" -> -1 [] OTHER -> 0)
  OBVIOUS
<1>6. /\ Due(Left(r)) = 0 /\ Due(Right(r)) = 0
      /\ Due(Left(r))' = IF at' = Left(r) THEN d ELSE 0
      /\ Due(Right(r))' = IF at' = Right(r) THEN d ELSE 0
      /\ \A p \in Positions \ {r} :
           Due(Left(p))' = Due(Left(p)) /\ Due(Right(p))' = Due(Right(p))
  BY <1>4, <1>5, DueBelow
<1>7. \A p \in Nodes \ {r} :
        Size(Left(p))' + Due(Left(p))'
          = Size(Right(p))' + Due(Right(p))' + IF w'[p].same THEN 0 ELSE 1
  BY <1>1, <1>4, <1>6 DEF WalkInv, Promised
<1>8. Size(Left(r))' + Due(Left(r))'
        = Size(Right(r))' + Due(Right(r))' + IF w'[r].same THEN 0 ELSE 1
  <2>1. Size(Left(r)) = Size(Right(r)) + IF w[r].same THEN 0 ELSE 1
    <3>1. Size(Left(r)) + Due(Left(r)) = Size(Right(r)) + Due(Right(r)) + IF w[r].same THEN 0 ELSE 1
      BY DEF WalkInv, Promised
    <3> QED BY <1>2, <1>6, <3>1
  <2>2. Left(r) # Right(r)
    BY <1>4, Branches
  <2>3. /\ Size(Left(r))' = Size(Left(r)) /\ Size(Right(r))' = Size(Right(r))
        /\ Size(Left(r)) \in Nat /\ Size(Right(r)) \in Nat
    BY <1>1, <1>2
  <2>4. CASE call = "add" /\ w[r].same
    <3>1. d = 1 /\ Due(Left(r))' = d /\ Due(Right(r))' = 0 /\ w'[r].same = FALSE
      BY <1>5, <1>6, <2>2, <2>4
    <3> QED BY <2>1, <2>3, <2>4, <3>1
  <2>5. CASE call = "add" /\ ~w[r].same
    <3>1. d = 1 /\ Due(Left(r))' = 0 /\ Due(Right(r))' = d /\ w'[r].same = TRUE
      BY <1>4, <1>5, <1>6, <2>2, <2>5
    <3> QED BY <2>1, <2>3, <2>5, <3>1
  <2>6. CASE call = "extract_last" /\ w[r].same
    <3>1. d = -1 /\ Due(Left(r))' = 0 /\ Due(Right(r))' = d /\ w'[r].same = FALSE
      BY <1>5, <1>6, <2>2, <2>6
    <3> QED BY <2>1, <2>3, <2>6, <3>1
  <2>7. CASE call = "extract_last" /\ ~w[r].same
    <3>1. d = -1 /\ Due(Left(r))' = d /\ Due(Right(r))' = 0 /\ w'[r].same = TRUE
      BY <1>4, <1>5, <1>6, <2>2, <2>7
    <3> QED BY <2>1, <2>3, <2>7, <3>1
  <2> QED BY <2>4, <2>5, <2>6, <2>7
<1>9. Promised'
  BY <1>7, <1>8 DEF Promised
<1> QED BY <1>3, <1>9

LEMMA AddBelowWalk ==
  ASSUME WalkInv, AddBelow
  PROVE  WalkInv'
<1>1. PICK r \in Nodes : r = at
  BY DEF AddBelow
<1>2. PICK up \in Ids, down \in Ids :
        /\ IF Greater(hand, Top(r)) THEN up = hand /\ down = Top(r)
           ELSE up = Top(r) /\ down = hand
        /\ w' = [w EXCEPT ![r] = IF w[r].same THEN Diff(up) ELSE Same(up)]
        /\ at' = IF w[r].same THEN Left(r) ELSE Right(r)
        /\ hand' = down
  <2>1. hand \in Ids /\ Top(r) \in Ids
    BY <1>1, WalkTyped DEF AddBelow, WalkInv, OnTheWay
  <2>2. w[r].same \in BOOLEAN
    BY WalkTyped
  <2> QED BY <1>1, <2>1, <2>2 DEF AddBelow, Call
<1>3. /\ call = "add" /\ call' = "add" /\ at = r /\ r \in Positions
      /\ hand \in Ids /\ pend' = pend /\ popped' = popped
  BY <1>1, WalkTyped DEF AddBelow, Call, WalkInv, OnTheWay
<1>4. /\ w' \in [Nodes -> NodeSet] /\ Nodes' = Nodes
      /\ Top(r)' = up /\ w'[r].same = ~w[r].same
      /\ \A p \in Nodes \ {r} : w'[p].same = w[p].same /\ Top(p)' = Top(p)
  <2> DEFINE n == IF w[r].same THEN Diff(up) ELSE Same(up)
  <2>1. n \in NodeSet /\ n.same = ~w[r].same /\ n.top = up
    BY WalkTyped, MadeNode
  <2>2. w' = [w EXCEPT ![r] = n]
    BY <1>2
  <2> HIDE DEF n
  <2>3. /\ w' \in [Nodes -> NodeSet] /\ w'[r] = n
        /\ \A p \in Nodes \ {r} : w'[p] = w[p]
    BY <2>1, <2>2, WalkTyped, PutNode
  <2>4. Nodes' = Nodes
    BY <2>3 DEF Nodes
  <2> QED BY <2>1, <2>3, <2>4 DEF Top
<1>5. at' \in Positions /\ (at' = Left(r) \/ at' = Right(r))
  BY <1>2, <1>3, SidesOf
<1>6. TypeOK'
  BY <1>2, <1>3, <1>4, <1>5, WalkTyped DEF WalkInv, TypeOK, NodeSet
<1>7. {up, down} = {hand, Top(r)}
  BY <1>2
<1>8. PendIsHeap'
  <2>1. Hole = {} /\ Hole' = {}
    BY <1>3 DEF Hole
  <2>2. Nothing \notin Ids
    BY WalkTyped
  <2>3. pend = {Top(p) : p \in Nodes} \cup {hand}
    BY <1>3, <2>1, <2>2 DEF WalkInv, PendIsHeap, Contents
  <2>4. Contents' = {Top(p)' : p \in Nodes} \cup {down}
    BY <1>2, <1>4, <2>1, <2>2 DEF Contents
  <2>5. {Top(p) : p \in Nodes} = {Top(p) : p \in Nodes \ {r}} \cup {Top(r)}
    OBVIOUS
  <2>6. {Top(p)' : p \in Nodes} = {Top(p) : p \in Nodes \ {r}} \cup {up}
    BY <1>4
  <2>7. Contents' = pend'
    BY <1>3, <1>7, <2>3, <2>4, <2>5, <2>6
  <2>8. /\ \A p, q \in Nodes : Top(p) = Top(q) => p = q
        /\ \A p \in Nodes : Top(p) # hand
    BY <2>1 DEF WalkInv, PendIsHeap
  <2>9. up # down /\ \A p \in Nodes \ {r} : Top(p) # up /\ Top(p) # down
    BY <1>2, <2>8
  <2>10. /\ \A p, q \in Nodes : Top(p)' = Top(q)' => p = q
         /\ \A p \in Nodes : Top(p)' # down
    BY <1>4, <2>8, <2>9
  <2> QED BY <1>2, <1>4, <2>1, <2>7, <2>10 DEF PendIsHeap
<1>9. /\ ~Greater(Top(r), up) /\ ~Greater(hand, up) /\ ~Greater(down, up)
      /\ up = hand \/ up = Top(r)
      /\ down = hand \/ down = Top(r)
  BY <1>2, <1>3, WalkTyped, RankOrder
<1>10. \A p \in Nodes \ {r} : IsPrefix(p, r) => ~Greater(hand, Top(p)) /\ ~Greater(Top(r), Top(p))
  BY <1>3 DEF WalkInv, OnTheWay, BelowAll, HeapOrdered
<1>11. HeapOrdered'
  <2> SUFFICES ASSUME NEW p \in Nodes, NEW q \in Nodes, IsPrefix(p, q)
               PROVE  ~Greater(Top(q)', Top(p)')
    BY <1>4 DEF HeapOrdered, Greater
  <2>1. Top(p) \in Ids /\ Top(q) \in Ids /\ Top(r) \in Ids
    BY WalkTyped
  <2>2. ~Greater(Top(q), Top(p))
    BY DEF WalkInv, HeapOrdered
  <2>3. CASE p # r /\ q # r
    BY <1>4, <2>2, <2>3
  <2>4. CASE p # r /\ q = r
    BY <1>4, <1>9, <1>10, <2>4
  <2>5. CASE p = r /\ q # r
    BY <1>4, <1>9, <2>1, <2>2, <2>5, RankOrder
  <2>6. CASE p = r /\ q = r
    BY <1>4, <2>6, RankOrder
  <2> QED BY <2>3, <2>4, <2>5, <2>6
<1>12. Rooted' /\ Promised'
  <2>1. at' = IF w[r].same <=> call = "add" THEN Left(r) ELSE Right(r)
    BY <1>2, <1>3, WalkTyped
  <2> QED BY <1>3, <1>4, <2>1, TurnedSkeleton
<1>13. OnTheWay'
  <2>1. \A p \in Positions : IsPrefix(p, at') /\ p # at' => IsPrefix(p, r)
    BY <1>3, <1>5, Branches
  <2>2. \A p \in Positions : IsPrefix(p, r) => p \in Nodes
    BY DEF WalkInv, Rooted
  <2>3. BelowAll'
    <3> SUFFICES ASSUME NEW p \in Nodes, IsPrefix(p, r)
                 PROVE  ~Greater(down, Top(p)')
      BY <1>2, <1>4, <2>1, WalkTyped DEF BelowAll, Greater
    <3>1. CASE p = r
      BY <1>4, <1>9, <3>1
    <3>2. CASE p # r
      BY <1>4, <1>9, <1>10, <3>2
    <3> QED BY <3>1, <3>2
  <2> QED BY <1>2, <1>3, <1>4, <2>1, <2>2, <2>3 DEF OnTheWay
<1> QED BY <1>6, <1>8, <1>11, <1>12, <1>13 DEF WalkInv

-----------------------------------------------------------------------------
(* The calls of extract_last.                                              *)

LEMMA ExtractHereWalk ==
  ASSUME WalkInv, ExtractHere
  PROVE  WalkInv'
<1>1. PICK r \in Nodes : r = at
  BY DEF ExtractHere, WalkInv, OnTheWay
<1>2. /\ call = "extract_last" /\ at = r /\ r \in Positions /\ IsSingle(r)
      /\ hand = Nothing /\ r # Root
      /\ call' = "descent" /\ at' = Root /\ hand' = Top(r)
      /\ pend' = pend /\ popped' = popped
      /\ w' = [p \in Nodes \ {r} |-> w[p]]
  BY <1>1, WalkTyped DEF ExtractHere, Call, Restrict, WalkInv, OnTheWay
<1>3. /\ Nodes' = Nodes \ {r}
      /\ \A p \in Nodes \ {r} : w'[p] = w[p] /\ w'[p].same = w[p].same /\ Top(p)' = Top(p)
  BY <1>2 DEF Nodes, Top
<1>4. Root \in Nodes /\ Root \in Nodes'
  BY <1>1, <1>2, <1>3, WalkTyped
<1>5. TypeOK'
  <2>1. IsFiniteSet(Nodes') /\ Nodes' \subseteq Positions
    BY <1>3, WalkTyped, FS_Subset
  <2>2. w' \in [Nodes' -> NodeSet]
    BY <1>2, <1>3, WalkTyped
  <2> QED BY <1>2, <2>1, <2>2, SidesOf, WalkTyped DEF WalkInv, TypeOK, NodeSet
<1>6. PendIsHeap'
  <2>1. Hole = {Root} /\ Hole' = {Root}
    BY <1>2 DEF Hole
  <2>2. /\ pend = {Top(p) : p \in Nodes \ {Root}}
        /\ \A p, q \in Nodes \ {Root} : Top(p) = Top(q) => p = q
    BY <1>2, <2>1 DEF WalkInv, PendIsHeap, Contents
  <2>3. Top(r) # Nothing
    BY WalkTyped
  <2>4. Contents' = {Top(p)' : p \in (Nodes \ {r}) \ {Root}} \cup {Top(r)}
    BY <1>2, <1>3, <2>1, <2>3 DEF Contents
  <2>5. {Top(p)' : p \in (Nodes \ {r}) \ {Root}} = {Top(p) : p \in (Nodes \ {r}) \ {Root}}
    BY <1>3
  <2>6. Contents' = pend'
    BY <1>2, <2>2, <2>4, <2>5
  <2>7. /\ \A p, q \in (Nodes \ {r}) \ {Root} : Top(p)' = Top(q)' => p = q
        /\ \A p \in (Nodes \ {r}) \ {Root} : Top(p)' # Top(r)
    BY <1>2, <1>3, <2>2
  <2> QED BY <1>2, <1>3, <2>1, <2>6, <2>7 DEF PendIsHeap
<1>7. HeapOrdered'
  BY <1>3 DEF WalkInv, HeapOrdered, Greater
<1>8. ASSUME NEW q \in Nodes \ {r}  PROVE ~IsPrefix(r, q)
  <2>1. Left(r) \in Positions /\ Right(r) \in Positions /\ q \in Positions
    BY <1>2, WalkTyped, SidesOf
  <2>2. ~IsPrefix(Left(r), q) /\ ~IsPrefix(Right(r), q)
    BY <1>2, <2>1 DEF IsSingle, WalkInv, Rooted
  <2> QED BY <1>2, <2>1, <2>2, Branches
<1>9. Rooted'
  BY <1>3, <1>8 DEF WalkInv, Rooted
<1>10. Promised'
  <2>1. ASSUME NEW p  PROVE Size(p)' + Due(p)' = Size(p) + Due(p)
    <3>1. IsFiniteSet(Nodes \ {r}) /\ Nodes = (Nodes \ {r}) \cup {r}
      BY WalkTyped, FS_Subset
    <3>2. Size(p) = Cardinality({q \in (Nodes \ {r}) \cup {r} : IsPrefix(p, q)})
      BY <3>1 DEF Size, Tree
    <3>3. Size(p)' = Cardinality({q \in Nodes \ {r} : IsPrefix(p, q)})
      BY <1>3 DEF Size, Tree
    <3>4. Size(p) = Size(p)' + IF IsPrefix(p, r) THEN 1 ELSE 0
      BY <3>1, <3>2, <3>3, CountOneMore
    <3>5. Size(p)' \in Nat
      BY <3>1, <3>3, FS_Subset, FS_CardinalityType
    <3>6. Due(p) = IF IsPrefix(p, r) THEN -1 ELSE 0
      BY <1>2 DEF Due
    <3>7. Due(p)' = 0
      BY <1>2 DEF Due
    <3> QED BY <3>4, <3>5, <3>6, <3>7
  <2>2. \A p \in Nodes \ {r} :
          Size(Left(p))' + Due(Left(p))'
            = Size(Right(p))' + Due(Right(p))' + IF w'[p].same THEN 0 ELSE 1
    BY <1>3, <2>1 DEF WalkInv, Promised
  <2> QED BY <1>3, <2>2 DEF Promised
<1>11. OnTheWay'
  <2>1. \A p \in Nodes' : IsPrefix(p, Root) => p = Root
    BY <1>3, WalkTyped, SidesOf, PrefixOrder
  <2>2. Top(r) \in Ids
    BY WalkTyped
  <2> QED BY <1>2, <1>4, <2>1, <2>2 DEF OnTheWay, BelowAll
<1> QED BY <1>5, <1>6, <1>7, <1>9, <1>10, <1>11 DEF WalkInv

\* A node with no call in progress below it has its last element on the
\* side extract_last goes to.
LEMMA SidesThere ==
  ASSUME WalkInv, NEW r \in Nodes, Due(Left(r)) = 0, Due(Right(r)) = 0
  PROVE  /\ Size(Left(r)) = Size(Right(r)) + IF w[r].same THEN 0 ELSE 1
         /\ ~w[r].same => Left(r) \in Nodes
         /\ ~IsSingle(r) => Left(r) \in Nodes
         /\ ~IsSingle(r) /\ w[r].same => Right(r) \in Nodes
<1>1. r \in Positions /\ Left(r) \in Positions /\ Right(r) \in Positions
  BY WalkTyped, SidesOf
<1>2. Size(Left(r)) \in Nat /\ Size(Right(r)) \in Nat
  BY WalkTyped, SizeIsNat
<1>3. Size(Left(r)) = Size(Right(r)) + IF w[r].same THEN 0 ELSE 1
  <2>1. Size(Left(r)) + Due(Left(r)) = Size(Right(r)) + Due(Right(r)) + IF w[r].same THEN 0 ELSE 1
    BY DEF WalkInv, Promised
  <2> QED BY <1>2, <2>1
<1>4. /\ Size(Left(r)) = 0 <=> Left(r) \notin Nodes
      /\ Size(Right(r)) = 0 <=> Right(r) \notin Nodes
  BY <1>1, NoTree, WalkTyped DEF WalkInv
<1>5. ~w[r].same => Left(r) \in Nodes
  BY <1>2, <1>3, <1>4
<1>6. w[r].same => (Left(r) \in Nodes <=> Right(r) \in Nodes)
  BY <1>2, <1>3, <1>4
<1> QED BY <1>3, <1>5, <1>6 DEF IsSingle

LEMMA ExtractBelowWalk ==
  ASSUME WalkInv, ExtractBelow
  PROVE  WalkInv'
<1>1. PICK r \in Nodes : r = at
  BY DEF ExtractBelow, WalkInv, OnTheWay
<1>2. /\ call = "extract_last" /\ at = r /\ r \in Positions /\ ~IsSingle(r)
      /\ hand = Nothing /\ hand' = Nothing /\ call' = "extract_last"
      /\ pend' = pend /\ popped' = popped
      /\ at' = IF w[r].same THEN Right(r) ELSE Left(r)
      /\ w' = [w EXCEPT ![r] = IF w[r].same THEN Diff(Top(r)) ELSE Same(Top(r))]
  BY <1>1, WalkTyped DEF ExtractBelow, Call, WalkInv, OnTheWay
<1>3. /\ w' \in [Nodes -> NodeSet] /\ Nodes' = Nodes
      /\ w'[r].same = ~w[r].same
      /\ \A p \in Nodes \ {r} : w'[p].same = w[p].same
      /\ \A p \in Nodes : Top(p)' = Top(p)
  <2> DEFINE n == IF w[r].same THEN Diff(Top(r)) ELSE Same(Top(r))
  <2>1. n \in NodeSet /\ n.same = ~w[r].same /\ n.top = Top(r)
    BY WalkTyped, MadeNode
  <2>2. w' = [w EXCEPT ![r] = n]
    BY <1>2
  <2> HIDE DEF n
  <2>3. /\ w' \in [Nodes -> NodeSet] /\ w'[r] = n
        /\ \A p \in Nodes \ {r} : w'[p] = w[p]
    BY <2>1, <2>2, WalkTyped, PutNode
  <2>4. Nodes' = Nodes
    BY <2>3 DEF Nodes
  <2> QED BY <2>1, <2>3, <2>4 DEF Top
<1>4. at' \in Nodes
  <2>1. Due(Left(r)) = 0 /\ Due(Right(r)) = 0
    BY <1>2, Branches DEF Due
  <2> QED BY <1>2, <2>1, SidesThere
<1>5. at' # Root
  BY <1>2, Branches
<1>6. TypeOK'
  BY <1>2, <1>3, <1>4, WalkTyped DEF WalkInv, TypeOK, NodeSet
<1>7. PendIsHeap'
  <2>1. Hole = {Root} /\ Hole' = {Root}
    BY <1>2 DEF Hole
  <2>2. Contents' = Contents
    BY <1>2, <1>3, <2>1 DEF Contents
  <2> QED BY <1>2, <1>3, <2>1, <2>2 DEF WalkInv, PendIsHeap
<1>8. HeapOrdered'
  BY <1>3 DEF WalkInv, HeapOrdered, Greater
<1>9. Rooted' /\ Promised'
  <2>1. at' = IF w[r].same <=> call = "add" THEN Left(r) ELSE Right(r)
    BY <1>2, WalkTyped
  <2> QED BY <1>2, <1>3, <2>1, TurnedSkeleton
<1>10. OnTheWay'
  BY <1>2, <1>3, <1>4, <1>5 DEF OnTheWay
<1> QED BY <1>6, <1>7, <1>8, <1>9, <1>10 DEF WalkInv

-----------------------------------------------------------------------------
(* The calls of descent.                                                   *)

\* What is there when descent is called for the tree at r.
LEMMA DescentThere ==
  ASSUME WalkInv, call = "descent", NEW r \in Nodes, r = at
  PROVE  /\ r \in Positions /\ hand \in Ids
         /\ pend = {Top(p) : p \in Nodes \ {r}} \cup {hand}
         /\ \A p, q \in Nodes \ {r} : Top(p) = Top(q) => p = q
         /\ \A p \in Nodes \ {r} : Top(p) # hand
         /\ \A p \in Nodes \ {r} : IsPrefix(p, r) => ~Greater(hand, Top(p))
<1>1. hand \in Ids /\ hand # Nothing /\ r \in Positions
  BY WalkTyped DEF WalkInv, OnTheWay
<1>2. Hole = {r}
  BY DEF Hole
<1>3. Contents = {Top(p) : p \in Nodes \ {r}} \cup {hand}
  BY <1>1, <1>2 DEF Contents
<1>4. \A p \in Nodes \ {r} : IsPrefix(p, r) => ~Greater(hand, Top(p))
  BY DEF WalkInv, OnTheWay, BelowAll
<1> QED BY <1>1, <1>2, <1>3, <1>4 DEF WalkInv, PendIsHeap

\* Below a node is what is in the trees on its sides, where there are any.
LEMMA BelowNode ==
  ASSUME WalkInv, NEW r \in Nodes, NEW q \in Nodes, IsPrefix(r, q), q # r
  PROVE  \/ Left(r) \in Nodes /\ IsPrefix(Left(r), q) /\ ~Greater(Top(q), Top(Left(r)))
         \/ Right(r) \in Nodes /\ IsPrefix(Right(r), q) /\ ~Greater(Top(q), Top(Right(r)))
<1>1. r \in Positions /\ q \in Positions /\ Left(r) \in Positions /\ Right(r) \in Positions
  BY WalkTyped, SidesOf
<1>2. IsPrefix(Left(r), q) \/ IsPrefix(Right(r), q)
  BY <1>1, Branches
<1>3. \A c \in Positions : IsPrefix(c, q) => c \in Nodes /\ ~Greater(Top(q), Top(c))
  BY DEF WalkInv, Rooted, HeapOrdered
<1> QED BY <1>1, <1>2, <1>3

LEMMA DescentHereWalk ==
  ASSUME WalkInv, DescentHere
  PROVE  WalkInv'
<1>1. PICK r \in Nodes : r = at
  BY DEF DescentHere, WalkInv, OnTheWay
<1>2. /\ call = "descent" /\ at = r /\ r \in Positions /\ hand \in Ids /\ Stays(r, hand)
      /\ call' = "none" /\ at' = Root /\ hand' = Nothing
      /\ pend' = pend /\ popped' = popped
      /\ w' = [w EXCEPT ![r].top = hand]
  BY <1>1, DescentThere DEF DescentHere, Return, Call
<1>3. /\ w' \in [Nodes -> NodeSet] /\ Nodes' = Nodes
      /\ Top(r)' = hand /\ \A p \in Nodes \ {r} : Top(p)' = Top(p)
      /\ \A p \in Nodes : w'[p].same = w[p].same
  <2>1. /\ w' \in [Nodes -> NodeSet]
        /\ w'[r].top = hand /\ w'[r].same = w[r].same
        /\ \A p \in Nodes \ {r} : w'[p] = w[p]
    BY <1>2, WalkTyped, PutTop
  <2>2. Nodes' = Nodes
    BY <2>1 DEF Nodes
  <2> QED BY <2>1, <2>2 DEF Top
<1>4. TypeOK'
  BY <1>2, <1>3, WalkTyped, SidesOf DEF WalkInv, TypeOK, NodeSet
<1>5. PendIsHeap'
  <2>1. Hole' = {} /\ Nothing \notin Ids
    BY <1>2, WalkTyped DEF Hole
  <2>2. Contents' = {Top(p)' : p \in Nodes}
    BY <1>2, <1>3, <2>1 DEF Contents
  <2>3. {Top(p)' : p \in Nodes} = {Top(p) : p \in Nodes \ {r}} \cup {hand}
    BY <1>3
  <2>4. pend' = Contents'
    BY <1>1, <1>2, <2>2, <2>3, DescentThere
  <2>5. \A p, q \in Nodes : Top(p)' = Top(q)' => p = q
    BY <1>1, <1>2, <1>3, DescentThere
  <2>6. \A p \in Nodes : Top(p)' # Nothing
    BY <1>2, <1>3, <2>1, WalkTyped
  <2> QED BY <1>2, <1>3, <2>1, <2>4, <2>5, <2>6 DEF PendIsHeap
<1>6. /\ Left(r) \in Nodes => Top(Left(r)) \in Ids /\ ~Greater(Top(Left(r)), hand)
      /\ Right(r) \in Nodes => Top(Right(r)) \in Ids /\ ~Greater(Top(Right(r)), hand)
  <2>1. \A p \in Nodes : Top(p) \in Ids /\ (Greater(hand, Top(p)) => ~Greater(Top(p), hand))
    BY <1>2, WalkTyped, RankOrder
  <2> QED BY <1>2, <2>1 DEF Stays, IsSingle, OnlyLeft
<1>7. HeapOrdered'
  <2> SUFFICES ASSUME NEW p \in Nodes, NEW q \in Nodes, IsPrefix(p, q)
               PROVE  ~Greater(Top(q)', Top(p)')
    BY <1>3 DEF HeapOrdered, Greater
  <2>1. Top(p) \in Ids /\ Top(q) \in Ids
    BY WalkTyped
  <2>2. CASE p # r /\ q # r
    BY <1>3, <2>2 DEF WalkInv, HeapOrdered
  <2>3. CASE p # r /\ q = r
    BY <1>1, <1>2, <1>3, <2>3, DescentThere
  <2>4. CASE p = r /\ q # r
    <3>1. \/ Left(r) \in Nodes /\ ~Greater(Top(q), Top(Left(r)))
          \/ Right(r) \in Nodes /\ ~Greater(Top(q), Top(Right(r)))
      BY <2>4, BelowNode
    <3>2. ~Greater(Top(q), hand)
      BY <1>2, <1>6, <2>1, <3>1, RankOrder
    <3> QED BY <1>3, <2>4, <3>2
  <2>5. CASE p = r /\ q = r
    BY <1>2, <1>3, <2>5, RankOrder
  <2> QED BY <2>2, <2>3, <2>4, <2>5
<1>8. Rooted' /\ Promised'
  BY <1>2, <1>3, SameSkeleton
<1>9. OnTheWay'
  BY <1>2 DEF OnTheWay
<1> QED BY <1>4, <1>5, <1>7, <1>8, <1>9 DEF WalkInv

\* A node without a right side has at most one node on its left.
LEMMA LonelyLeft ==
  ASSUME WalkInv, call = "descent", NEW r \in Nodes, Right(r) \notin Nodes, Left(r) \in Nodes
  PROVE  /\ w[Left(r)].same
         /\ \A q \in Nodes : IsPrefix(Left(r), q) => q = Left(r)
<1>1. /\ r \in Positions /\ Left(r) \in Positions /\ Right(r) \in Positions
      /\ Left(Left(r)) \in Positions /\ Right(Left(r)) \in Positions
  BY WalkTyped, SidesOf
<1>2. /\ Due(Left(r)) = 0 /\ Due(Right(r)) = 0
      /\ Due(Left(Left(r))) = 0 /\ Due(Right(Left(r))) = 0
  BY DEF Due
<1>3. Size(Left(r)) = Size(Right(r)) + IF w[r].same THEN 0 ELSE 1
  BY <1>2, SidesThere
<1>4. Size(Left(Left(r))) = Size(Right(Left(r))) + IF w[Left(r)].same THEN 0 ELSE 1
  BY <1>2, SidesThere
<1>5. Size(Left(r)) = Size(Left(Left(r))) + Size(Right(Left(r))) + 1
  BY WalkTyped, SizeOfNode
<1>6. /\ Size(Left(Left(r))) \in Nat /\ Size(Right(Left(r))) \in Nat
      /\ Size(Left(r)) \in Nat /\ Size(Right(r)) = 0
  BY <1>1, WalkTyped, SizeIsNat, NoTree DEF WalkInv
<1>7. /\ Size(Left(Left(r))) = 0 /\ Size(Right(Left(r))) = 0 /\ w[Left(r)].same
  <2>1. Size(Left(r)) <= 1
    BY <1>3, <1>6
  <2>2. Size(Left(Left(r))) = 0 /\ Size(Right(Left(r))) = 0
    BY <1>5, <1>6, <2>1
  <2> QED BY <1>4, <2>2
<1>8. Left(Left(r)) \notin Nodes /\ Right(Left(r)) \notin Nodes
  BY <1>1, <1>7, WalkTyped, NoTree DEF WalkInv
<1>9. ASSUME NEW q \in Nodes, IsPrefix(Left(r), q), q # Left(r)  PROVE FALSE
  BY <1>8, <1>9, BelowNode
<1> QED BY <1>7, <1>9

LEMMA DescentSwapWalk ==
  ASSUME WalkInv, DescentSwap
  PROVE  WalkInv'
<1>1. PICK r \in Nodes : r = at
  BY DEF DescentSwap, WalkInv, OnTheWay
<1>2. /\ call = "descent" /\ at = r /\ r \in Positions /\ hand \in Ids
      /\ ~Stays(r, hand) /\ OnlyLeft(r)
      /\ call' = "none" /\ at' = Root /\ hand' = Nothing
      /\ pend' = pend /\ popped' = popped
      /\ w' = [Restrict(w, {p \in Nodes : ~IsStrictPrefix(Left(r), p)})
                 EXCEPT ![r].top = Top(Left(r)), ![Left(r)] = Same(hand)]
  BY <1>1, DescentThere DEF DescentSwap, Return, Call
<1>3. PICK c \in Positions : c = Left(r)
  BY <1>2, SidesOf
<1>4. c \in Nodes /\ Right(r) \notin Nodes /\ w[c].same /\ c # r
  <2>1. Due(Left(r)) = 0 /\ Due(Right(r)) = 0
    BY <1>2 DEF Due
  <2> QED BY <1>2, <1>3, <2>1, SidesThere, Branches DEF OnlyLeft
<1>5. \A q \in Nodes : IsPrefix(c, q) => q = c
  BY <1>2, <1>3, <1>4, LonelyLeft
<1>6. Top(c) \in Ids /\ ~Greater(hand, Top(c))
  BY <1>2, <1>3, <1>4, WalkTyped DEF Stays
<1>7. /\ w' \in [Nodes -> NodeSet] /\ Nodes' = Nodes
      /\ Top(r)' = Top(c) /\ Top(c)' = hand
      /\ \A p \in Nodes \ {r, c} : Top(p)' = Top(p)
      /\ \A p \in Nodes : w'[p].same = w[p].same
  <2> DEFINE f == [w EXCEPT ![r].top = Top(c)]
  <2>1. /\ f \in [Nodes -> NodeSet]
        /\ f[r].top = Top(c) /\ f[r].same = w[r].same
        /\ \A p \in Nodes \ {r} : f[p] = w[p]
    BY <1>6, WalkTyped, PutTop
  <2>2. w' = [f EXCEPT ![c] = Same(hand)]
    <3>1. {p \in Nodes : ~IsStrictPrefix(c, p)} = Nodes
      BY <1>5 DEF IsStrictPrefix
    <3>2. Restrict(w, Nodes) = w
      BY WalkTyped DEF Restrict, Nodes
    <3> QED BY <1>2, <1>3, <3>1, <3>2
  <2> HIDE DEF f
  <2>3. Same(hand) \in NodeSet /\ Same(hand).same = TRUE /\ Same(hand).top = hand
    BY <1>2, MadeNode
  <2>4. /\ w' \in [Nodes -> NodeSet] /\ w'[c] = Same(hand)
        /\ \A p \in Nodes \ {c} : w'[p] = f[p]
    BY <1>4, <2>1, <2>2, <2>3, PutNode
  <2>5. Nodes' = Nodes
    BY <2>4 DEF Nodes
  <2>6. \A p \in Nodes : w'[p].same = w[p].same
    <3>1. w[c].same = TRUE
      BY <1>4, WalkTyped
    <3> QED BY <2>1, <2>3, <2>4, <3>1
  <2> QED BY <1>4, <2>1, <2>3, <2>4, <2>5, <2>6 DEF Top
<1>8. TypeOK'
  BY <1>2, <1>7, WalkTyped, SidesOf DEF WalkInv, TypeOK, NodeSet
<1>9. PendIsHeap'
  <2>1. Hole' = {} /\ Nothing \notin Ids
    BY <1>2, WalkTyped DEF Hole
  <2>2. Contents' = {Top(p)' : p \in Nodes}
    BY <1>2, <1>7, <2>1 DEF Contents
  <2>3. {Top(p)' : p \in Nodes} = {Top(p) : p \in Nodes \ {r, c}} \cup {Top(c), hand}
    <3>1. Nodes = (Nodes \ {r, c}) \cup {r, c}
      BY <1>4
    <3>2. {Top(p)' : p \in Nodes \ {r, c}} = {Top(p) : p \in Nodes \ {r, c}}
      BY <1>7
    <3>3. {Top(p)' : p \in Nodes} = {Top(p)' : p \in Nodes \ {r, c}} \cup {Top(r)', Top(c)'}
      BY <3>1
    <3> QED BY <1>7, <3>2, <3>3
  <2>4. {Top(p) : p \in Nodes \ {r}} = {Top(p) : p \in Nodes \ {r, c}} \cup {Top(c)}
    BY <1>4
  <2>5. pend' = Contents'
    BY <1>1, <1>2, <2>2, <2>3, <2>4, DescentThere
  <2>6. \A p, q \in Nodes : Top(p)' = Top(q)' => p = q
    <3>1. /\ \A p, q \in Nodes \ {r} : Top(p) = Top(q) => p = q
          /\ \A p \in Nodes \ {r} : Top(p) # hand
      BY <1>1, <1>2, DescentThere
    <3> QED BY <1>4, <1>7, <3>1
  <2>7. \A p \in Nodes : Top(p)' # Nothing
    BY <1>2, <1>6, <1>7, <2>1, WalkTyped
  <2> QED BY <1>2, <1>7, <2>1, <2>5, <2>6, <2>7 DEF PendIsHeap
<1>10. \A p \in Positions : IsPrefix(p, c) <=> p = c \/ IsPrefix(p, r)
  BY <1>2, <1>3, Branches
<1>11. HeapOrdered'
  <2> SUFFICES ASSUME NEW p \in Nodes, NEW q \in Nodes, IsPrefix(p, q)
               PROVE  ~Greater(Top(q)', Top(p)')
    BY <1>7 DEF HeapOrdered, Greater
  <2>1. Top(p) \in Ids /\ Top(q) \in Ids /\ p \in Positions /\ q \in Positions
    BY WalkTyped
  <2>2. ~Greater(Top(q), Top(p))
    BY DEF WalkInv, HeapOrdered
  <2>3. CASE p = q
    <3>1. Top(p)' \in Ids
      BY <1>2, <1>6, <1>7, <2>1
    <3> QED BY <2>3, <3>1, RankOrder
  <2>4. CASE p # q /\ q = c
    <3>1. IsPrefix(p, r)
      BY <1>10, <2>1, <2>4
    <3>2. CASE p = r
      BY <1>6, <1>7, <2>4, <3>2
    <3>3. CASE p # r
      BY <1>1, <1>2, <1>7, <2>4, <3>1, <3>3, DescentThere
    <3> QED BY <3>2, <3>3
  <2>5. CASE p # q /\ q = r
    <3>1. p # c
      BY <1>3, <1>2, <2>5, Branches
    <3>2. ~Greater(Top(c), Top(p))
      BY <1>4, <1>10, <2>1, <2>5 DEF WalkInv, HeapOrdered
    <3> QED BY <1>7, <2>5, <3>1, <3>2
  <2>6. CASE p # q /\ q \notin {r, c} /\ p = r
    <3>1. ~Greater(Top(q), Top(c))
      BY <1>3, <1>4, <2>6, BelowNode
    <3> QED BY <1>7, <2>6, <3>1
  <2>7. CASE q \notin {r, c} /\ p = c
    BY <1>5, <2>7
  <2>8. CASE q \notin {r, c} /\ p \notin {r, c}
    BY <1>7, <2>2, <2>8
  <2> QED BY <2>3, <2>4, <2>5, <2>6, <2>7, <2>8
<1>12. Rooted' /\ Promised'
  BY <1>2, <1>7, SameSkeleton
<1>13. OnTheWay'
  BY <1>2 DEF OnTheWay
<1> QED BY <1>8, <1>9, <1>11, <1>12, <1>13 DEF WalkInv

\* descent finds a tree for each maximum it takes.
LEMMA DescentChildren ==
  ASSUME WalkInv, call = "descent", NEW r \in Nodes, ~IsSingle(r), ~OnlyLeft(r)
  PROVE  Left(r) \in Nodes /\ Right(r) \in Nodes
<1>1. Due(Left(r)) = 0 /\ Due(Right(r)) = 0
  BY DEF Due
<1>2. Left(r) \in Nodes /\ (w[r].same => Right(r) \in Nodes)
  BY <1>1, SidesThere
<1>3. ~w[r].same /\ Right(r) \notin Nodes => OnlyLeft(r)
  BY <1>2, LonelyLeft DEF OnlyLeft
<1> QED BY <1>2, <1>3

LEMMA DescentBelowWalk ==
  ASSUME WalkInv, DescentBelow
  PROVE  WalkInv'
<1>1. PICK r \in Nodes : r = at
  BY DEF DescentBelow, WalkInv, OnTheWay
<1>2. PICK c : c = IF Greater(Top(Left(r)), Top(Right(r))) THEN Left(r) ELSE Right(r)
  OBVIOUS
<1>3. /\ call = "descent" /\ at = r /\ r \in Positions /\ hand \in Ids
      /\ ~Stays(r, hand) /\ ~OnlyLeft(r)
      /\ call' = "descent" /\ at' = c /\ hand' = hand
      /\ pend' = pend /\ popped' = popped
      /\ w' = [w EXCEPT ![r].top = Top(c)]
  BY <1>1, <1>2, DescentThere DEF DescentBelow, Call
<1>4. Left(r) \in Nodes /\ Right(r) \in Nodes
  <2>1. ~IsSingle(r)
    BY <1>3 DEF Stays
  <2> QED BY <1>3, <2>1, DescentChildren
<1>5. /\ Top(Left(r)) \in Ids /\ Top(Right(r)) \in Ids
      /\ c \in Nodes /\ c \in Positions /\ c \in {Left(r), Right(r)} /\ c # r /\ Top(c) \in Ids
  BY <1>2, <1>3, <1>4, WalkTyped, Branches
<1>6. ~Greater(Top(Left(r)), Top(c)) /\ ~Greater(Top(Right(r)), Top(c)) /\ ~Greater(hand, Top(c))
  <2>1. ~(Greater(hand, Top(Left(r))) /\ Greater(hand, Top(Right(r))))
    BY <1>3 DEF Stays
  <2> QED BY <1>2, <1>3, <1>5, <2>1, HeapAssumption DEF Greater
<1>7. /\ w' \in [Nodes -> NodeSet] /\ Nodes' = Nodes
      /\ Top(r)' = Top(c) /\ \A p \in Nodes \ {r} : Top(p)' = Top(p)
      /\ \A p \in Nodes : w'[p].same = w[p].same
  <2>1. /\ w' \in [Nodes -> NodeSet]
        /\ w'[r].top = Top(c) /\ w'[r].same = w[r].same
        /\ \A p \in Nodes \ {r} : w'[p] = w[p]
    BY <1>3, <1>5, WalkTyped, PutTop
  <2>2. Nodes' = Nodes
    BY <2>1 DEF Nodes
  <2> QED BY <2>1, <2>2 DEF Top
<1>8. TypeOK'
  BY <1>3, <1>5, <1>7, WalkTyped DEF WalkInv, TypeOK, NodeSet
<1>9. PendIsHeap'
  <2>1. Hole' = {c} /\ hand # Nothing
    BY <1>3, WalkTyped DEF Hole
  <2>2. Contents' = {Top(p)' : p \in Nodes \ {c}} \cup {hand}
    BY <1>3, <1>7, <2>1 DEF Contents
  <2>3. {Top(p)' : p \in Nodes \ {c}} = {Top(p) : p \in Nodes \ {r}}
    <3>1. {Top(p)' : p \in Nodes \ {c}} = {Top(p)' : p \in Nodes \ {r, c}} \cup {Top(r)'}
      BY <1>5
    <3>2. {Top(p)' : p \in Nodes \ {r, c}} = {Top(p) : p \in Nodes \ {r, c}}
      BY <1>7
    <3>3. {Top(p) : p \in Nodes \ {r}} = {Top(p) : p \in Nodes \ {r, c}} \cup {Top(c)}
      BY <1>5
    <3> QED BY <1>7, <3>1, <3>2, <3>3
  <2>4. pend' = Contents'
    BY <1>1, <1>3, <2>2, <2>3, DescentThere
  <2>5. /\ \A p, q \in Nodes \ {r} : Top(p) = Top(q) => p = q
        /\ \A p \in Nodes \ {r} : Top(p) # hand
    BY <1>1, <1>3, DescentThere
  <2>6. /\ \A p, q \in Nodes \ {c} : Top(p)' = Top(q)' => p = q
        /\ \A p \in Nodes \ {c} : Top(p)' # hand
    BY <1>5, <1>7, <2>5
  <2> QED BY <1>3, <1>7, <2>1, <2>4, <2>6 DEF PendIsHeap
<1>10. \A p \in Positions : IsPrefix(p, c) <=> p = c \/ IsPrefix(p, r)
  BY <1>3, <1>5, Branches
<1>11. HeapOrdered'
  <2> SUFFICES ASSUME NEW p \in Nodes, NEW q \in Nodes, IsPrefix(p, q)
               PROVE  ~Greater(Top(q)', Top(p)')
    BY <1>7 DEF HeapOrdered, Greater
  <2>1. Top(p) \in Ids /\ Top(q) \in Ids /\ p \in Positions /\ q \in Positions
    BY WalkTyped
  <2>2. CASE p # r /\ q # r
    BY <1>7, <2>2 DEF WalkInv, HeapOrdered
  <2>3. CASE p # r /\ q = r
    <3>1. ~Greater(Top(c), Top(p))
      BY <1>5, <1>10, <2>1, <2>3 DEF WalkInv, HeapOrdered
    <3> QED BY <1>7, <2>3, <3>1
  <2>4. CASE p = r /\ q # r
    <3>1. ~Greater(Top(q), Top(Left(r))) \/ ~Greater(Top(q), Top(Right(r)))
      BY <2>4, BelowNode
    <3>2. ~Greater(Top(q), Top(c))
      BY <1>5, <1>6, <2>1, <3>1, RankOrder
    <3> QED BY <1>7, <2>4, <3>2
  <2>5. CASE p = r /\ q = r
    BY <1>5, <1>7, <2>5, RankOrder
  <2> QED BY <2>2, <2>3, <2>4, <2>5
<1>12. Rooted' /\ Promised'
  BY <1>3, <1>7, SameSkeleton
<1>13. OnTheWay'
  <2>1. BelowAll'
    <3> SUFFICES ASSUME NEW p \in Nodes, IsPrefix(p, c), p # c
                 PROVE  ~Greater(hand, Top(p)')
      BY <1>3, <1>7 DEF BelowAll, Greater
    <3>1. IsPrefix(p, r)
      BY <1>10, WalkTyped
    <3>2. CASE p = r
      BY <1>6, <1>7, <3>2
    <3>3. CASE p # r
      BY <1>1, <1>3, <1>7, <3>1, <3>3, DescentThere
    <3> QED BY <3>2, <3>3
  <2> QED BY <1>3, <1>5, <1>7, <2>1 DEF OnTheWay
<1> QED BY <1>8, <1>9, <1>11, <1>12, <1>13 DEF WalkInv

-----------------------------------------------------------------------------
(* The invariant.                                                          *)

LEMMA NextWalk == WalkInv /\ [Next]_vars => WalkInv'
<1> SUFFICES ASSUME WalkInv, [Next]_vars PROVE WalkInv'
  OBVIOUS
<1>1. CASE \E i \in Ids : Push(i)
  BY <1>1, PushWalk
<1>2. CASE AddHere
  BY <1>2, AddHereWalk
<1>3. CASE AddBelow
  BY <1>3, AddBelowWalk
<1>4. CASE Pop
  BY <1>4, PopWalk
<1>5. CASE PopEmpty
  BY <1>5, PopEmptyWalk DEF PopEmpty
<1>6. CASE ExtractHere
  BY <1>6, ExtractHereWalk
<1>7. CASE ExtractBelow
  BY <1>7, ExtractBelowWalk
<1>8. CASE DescentHere
  BY <1>8, DescentHereWalk
<1>9. CASE DescentSwap
  BY <1>9, DescentSwapWalk
<1>10. CASE DescentBelow
  BY <1>10, DescentBelowWalk
<1>11. CASE UNCHANGED vars
  <2>1. popped' \in Ids \cup {Nothing}
    BY <1>11 DEF vars, WalkInv, TypeOK
  <2> QED BY <1>11, <2>1, PopEmptyWalk DEF vars
<1> QED BY <1>1, <1>2, <1>3, <1>4, <1>5, <1>6, <1>7, <1>8, <1>9, <1>10, <1>11 DEF Next

(* While a call goes down its branch, the sizes its constructors promise   *)
(* are right once the call has returned, the element it carries belongs    *)
(* below the nodes it has passed, and the order and the contents are right *)
(* already.                                                                *)
THEOREM WalkHolds == Spec => []WalkInv
<1> QED BY InitWalk, NextWalk, PTL DEF Spec

-----------------------------------------------------------------------------
(* Balance makes complete: trees whose sizes differ by one at most have    *)
(* levels that differ by one at most.                                      *)

\* Every set of naturals has a least element.
LEMMA LeastDepth ==
  ASSUME NEW D \in SUBSET Nat, D # {}
  PROVE  \E d \in D : \A e \in D : d <= e
<1> DEFINE R == OpToRel(<, Nat)
<1>1. IsWellFoundedOn(R, Nat)
  BY NatLessThanWellFounded
<1>2. \A x, y \in Nat : <<y, x>> \in R <=> y < x
  BY DEF OpToRel
<1> HIDE DEF R
<1>3. PICK d \in D : \A e \in D : ~(<<e, d>> \in R)
  BY <1>1, WFMin
<1>4. \A e \in D : ~(e < d)
  BY <1>2, <1>3
<1> QED BY <1>4

\* If something is more than d levels below p, level d below q is full,
\* for trees at q that are smaller by one at most.
FullLevel(d) ==
    \A p, q \in Positions :
        Size(p) <= Size(q) + 1 =>
            \A s \in Nodes, t \in Positions :
                /\ IsPrefix(p, s) /\ Len(s) > Len(p) + d
                /\ IsPrefix(q, t) /\ Len(t) = Len(q) + d
                => t \in Nodes

LEMMA SizesAtRest ==
  ASSUME WalkInv, call = "none", NEW p \in Nodes
  PROVE  /\ Size(Left(p)) = Size(Right(p)) + IF w[p].same THEN 0 ELSE 1
         /\ Size(Right(p)) <= Size(Left(p)) /\ Size(Left(p)) <= Size(Right(p)) + 1
         /\ Size(p) = Size(Left(p)) + Size(Right(p)) + 1
         /\ Size(p) \in Nat /\ Size(Left(p)) \in Nat /\ Size(Right(p)) \in Nat
<1>1. Due(Left(p)) = 0 /\ Due(Right(p)) = 0
  BY DEF Due
<1>2. Size(Left(p)) = Size(Right(p)) + IF w[p].same THEN 0 ELSE 1
  BY <1>1, SidesThere
<1>3. Size(p) = Size(Left(p)) + Size(Right(p)) + 1
  BY SizeOfNode, WalkTyped
<1>4. Size(p) \in Nat /\ Size(Left(p)) \in Nat /\ Size(Right(p)) \in Nat
  BY SizeIsNat, WalkTyped
<1>5. Size(Right(p)) <= Size(Left(p)) /\ Size(Left(p)) <= Size(Right(p)) + 1
  BY <1>2, <1>4
<1> QED BY <1>2, <1>3, <1>4, <1>5

LEMMA LevelsFull ==
  ASSUME WalkInv, call = "none", NEW d \in Nat
  PROVE  FullLevel(d)
<1> DEFINE D == {n \in Nat : ~FullLevel(n)}
<1>1. SUFFICES ASSUME D # {} PROVE FALSE
  OBVIOUS
<1>2. PICK n \in D : \A m \in D : n <= m
  BY <1>1, LeastDepth
<1>3. n \in Nat /\ ~FullLevel(n) /\ (n # 0 => FullLevel(n - 1))
  BY <1>2
<1>4. PICK p \in Positions, q \in Positions, s \in Nodes, t \in Positions :
        /\ Size(p) <= Size(q) + 1
        /\ IsPrefix(p, s) /\ Len(s) > Len(p) + n
        /\ IsPrefix(q, t) /\ Len(t) = Len(q) + n
        /\ t \notin Nodes
  BY <1>3 DEF FullLevel
<1>5. /\ s \in Positions /\ p \in Nodes /\ p # s
      /\ Len(p) \in Nat /\ Len(q) \in Nat /\ Len(s) \in Nat
  <2>1. s \in Positions /\ p \in Nodes
    BY <1>4, WalkTyped DEF WalkInv, Rooted
  <2>2. Len(p) \in Nat /\ Len(q) \in Nat /\ Len(s) \in Nat
    BY <2>1, SidesOf
  <2> QED BY <1>3, <1>4, <2>1, <2>2
<1>6. PICK c \in {Left(p), Right(p)} : IsPrefix(c, s)
  BY <1>4, <1>5, Branches
<1>7. c \in Positions /\ Len(c) = Len(p) + 1 /\ c \in Nodes
  BY <1>4, <1>5, <1>6, SidesOf DEF WalkInv, Rooted
<1>8. q \in Nodes
  <2>1. Size(c) # 0 /\ (Size(q) = 0 <=> q \notin Nodes)
    BY <1>7, WalkTyped, NoTree DEF WalkInv
  <2>2. /\ Size(p) = Size(Left(p)) + Size(Right(p)) + 1
        /\ Size(p) \in Nat /\ Size(Left(p)) \in Nat /\ Size(Right(p)) \in Nat
    BY <1>5, SizesAtRest
  <2>3. Size(Left(p)) # 0 \/ Size(Right(p)) # 0
    BY <1>6, <2>1
  <2>4. Size(p) >= 2
    BY <2>2, <2>3
  <2>5. Size(q) \in Nat
    BY WalkTyped, SizeIsNat
  <2>6. Size(q) # 0
    BY <1>4, <2>2, <2>4, <2>5
  <2> QED BY <2>1, <2>6
<1>9. t # q /\ n # 0
  <2>1. n = 0 => t = q
    BY <1>4, <1>5, PrefixMeans, SamePosition
  <2> QED BY <1>4, <1>8, <2>1
<1>10. PICK e \in {Left(q), Right(q)} : IsPrefix(e, t)
  BY <1>4, <1>9, Branches
<1>11. e \in Positions /\ Len(e) = Len(q) + 1
  BY <1>10, SidesOf
<1>12. Size(c) <= Size(e) + 1
  <2>1. /\ Size(Right(p)) <= Size(Left(p)) /\ Size(Left(p)) <= Size(Right(p)) + 1
        /\ Size(p) = Size(Left(p)) + Size(Right(p)) + 1
        /\ Size(Left(p)) \in Nat /\ Size(Right(p)) \in Nat
    BY <1>5, SizesAtRest
  <2>2. /\ Size(Right(q)) <= Size(Left(q)) /\ Size(Left(q)) <= Size(Right(q)) + 1
        /\ Size(q) = Size(Left(q)) + Size(Right(q)) + 1
        /\ Size(Left(q)) \in Nat /\ Size(Right(q)) \in Nat
    BY <1>8, SizesAtRest
  <2>3. Size(Left(p)) <= Size(Right(q)) + 1
    BY <1>4, <2>1, <2>2
  <2>4. Size(c) \in Nat /\ Size(c) <= Size(Left(p))
    BY <1>6, <2>1
  <2>5. Size(e) \in Nat /\ Size(Right(q)) <= Size(e)
    BY <1>10, <2>2
  <2> QED BY <2>1, <2>2, <2>3, <2>4, <2>5
<1>13. Len(s) > Len(c) + (n - 1) /\ Len(t) = Len(e) + (n - 1)
  BY <1>3, <1>4, <1>5, <1>7, <1>11
<1>14. FullLevel(n - 1)
  BY <1>3, <1>9
<1> QED BY <1>4, <1>6, <1>7, <1>10, <1>11, <1>12, <1>13, <1>14 DEF FullLevel

LEMMA RestIsComplete ==
  ASSUME WalkInv, call = "none"
  PROVE  WellShaped /\ Complete
<1>1. ASSUME NEW q \in Nodes  PROVE Prefixes(q) \subseteq Nodes
  <2> SUFFICES ASSUME NEW l \in 0 .. Len(q) PROVE SubSeq(q, 1, l) \in Nodes
    BY DEF Prefixes
  <2>1. q \in Positions /\ Len(q) \in Nat
    BY WalkTyped, SidesOf
  <2> DEFINE p == SubSeq(q, 1, l)
  <2>2. p \in Positions /\ Len(p) = l /\ \A i \in 1 .. l : p[i] = q[i]
    BY <2>1, SubSeqProperties DEF Positions
  <2>3. IsPrefix(p, q)
    <3>1. Len(p) <= Len(q) /\ \A i \in 1 .. Len(p) : p[i] = q[i]
      BY <2>1, <2>2
    <3> QED BY <2>1, <2>2, <3>1, PrefixMeans
  <2> QED BY <2>2, <2>3 DEF WalkInv, Rooted
<1>2. WellShaped
  BY <1>1, SizesAtRest DEF WellShaped
<1>3. Complete
  <2> SUFFICES ASSUME NEW p \in Nodes, NEW n \in 0 .. Len(p) - 1, NEW t \in [1 .. n -> Sides]
               PROVE  t \in Nodes
    BY DEF Complete
  <2>1. /\ p \in Positions /\ Len(p) \in Nat /\ n \in Nat /\ n < Len(p)
        /\ Root \in Positions /\ Len(Root) = 0
    BY WalkTyped, SidesOf
  <2>2. t \in Positions /\ Len(t) = n
    BY <2>1 DEF Positions
  <2>3. IsPrefix(Root, p) /\ IsPrefix(Root, t)
    BY <2>1, <2>2, PrefixOrder
  <2>4. Size(Root) <= Size(Root) + 1
    BY WalkTyped, SizeIsNat
  <2>5. FullLevel(n)
    BY <2>1, LevelsFull
  <2> QED BY <2>1, <2>2, <2>3, <2>4, <2>5 DEF FullLevel
<1> QED BY <1>2, <1>3

(* Whatever is pushed and popped, the heap has the shape its constructors  *)
(* promise, is ordered and complete, holds each queued constraint once,    *)
(* and the table of marks tells which; EmptyHeap is raised only for an     *)
(* empty heap.                                                             *)
THEOREM HeapHolds == Spec => []HeapInv
<1>1. WalkInv => NeverRaises
  <2> SUFFICES ASSUME WalkInv PROVE NeverRaises
    OBVIOUS
  <2>1. call \in {"extract_last", "descent"} => at \in Nodes
    BY DEF WalkInv, OnTheWay
  <2>2. ASSUME call = "descent", ~IsSingle(at), ~OnlyLeft(at)
        PROVE  Left(at) \in Nodes /\ Right(at) \in Nodes
    BY <2>1, <2>2, DescentChildren
  <2> QED BY <2>1, <2>2 DEF NeverRaises
<1>2. WalkInv => HeapInv
  BY <1>1, RestIsComplete DEF WalkInv, HeapInv
<1> QED BY <1>2, WalkHolds, PTL

-----------------------------------------------------------------------------
(* The refinement.                                                         *)

LEMMA InitIsQueue == Init => Queue!Init
<1> SUFFICES ASSUME Init PROVE Queue!Init
  OBVIOUS
<1>1. Nodes = {} /\ hand = Nothing /\ popped = Nothing
  BY DEF Init, Empty, Nodes
<1> QED BY <1>1 DEF Contents, Queue!Init

\* What is handed out is in the heap, and nothing in it is greater.
LEMMA RootIsGreatest ==
  ASSUME WalkInv, call = "none", w # Empty
  PROVE  Top(Root) \in Contents /\ ~\E j \in Contents : Greater(j, Top(Root))
<1>1. Root \in Nodes
  <2>1. Nodes # {}
    BY WalkTyped DEF Empty
  <2> QED BY <2>1, WalkTyped
<1>2. Hole = {} /\ hand = Nothing
  BY DEF Hole, WalkInv, OnTheWay
<1>3. Contents = {Top(p) : p \in Nodes}
  BY <1>2 DEF Contents
<1>4. \A p \in Nodes : IsPrefix(Root, p)
  BY WalkTyped, SidesOf, PrefixOrder
<1>5. \A p \in Nodes : ~Greater(Top(p), Top(Root))
  BY <1>1, <1>4 DEF WalkInv, HeapOrdered
<1> QED BY <1>1, <1>3, <1>5

LEMMA StepIsQueue ==
  ASSUME WalkInv, WalkInv', [Next]_vars
  PROVE  [Queue!Next]_(Queue!vars)
<1>1. Contents = pend /\ Contents' = pend'
  BY DEF WalkInv, PendIsHeap
<1>2. ASSUME NEW i \in Ids, Push(i)  PROVE Queue!Next
  <2>1. Contents' = Contents \cup {i} /\ popped' = popped
    BY <1>1, <1>2 DEF Push
  <2> QED BY <2>1 DEF Queue!Next, Queue!Push
<1>3. CASE Pop
  <2>1. PICK x : x = Top(Root)
    OBVIOUS
  <2>2. x \in Contents /\ ~\E j \in Contents : Greater(j, x)
    BY <1>3, <2>1, RootIsGreatest DEF Pop
  <2>3. Contents' = Contents \ {x} /\ popped' = x
    BY <1>1, <1>3, <2>1 DEF Pop
  <2>4. Queue!Pop
    BY <2>2, <2>3 DEF Queue!Pop
  <2> QED BY <2>4 DEF Queue!Next
<1>4. CASE PopEmpty
  <2>1. Nodes = {} /\ hand = Nothing
    BY <1>4 DEF PopEmpty, Empty, Nodes, WalkInv, OnTheWay
  <2>2. Contents = {} /\ Contents' = Contents /\ popped' = Nothing
    BY <1>1, <1>4, <2>1 DEF PopEmpty, Contents
  <2> QED BY <2>2 DEF Queue!Next, Queue!PopEmpty
<1>5. CASE AddHere \/ AddBelow \/ ExtractHere \/ ExtractBelow
  <2>1. pend' = pend /\ popped' = popped
    BY <1>5 DEF AddHere, AddBelow, ExtractHere, ExtractBelow
  <2> QED BY <1>1, <2>1 DEF Queue!vars
<1>6. CASE DescentHere \/ DescentSwap \/ DescentBelow
  <2>1. pend' = pend /\ popped' = popped
    BY <1>6 DEF DescentHere, DescentSwap, DescentBelow
  <2> QED BY <1>1, <2>1 DEF Queue!vars
<1>7. CASE UNCHANGED vars
  <2>1. pend' = pend /\ popped' = popped
    BY <1>7 DEF vars
  <2> QED BY <1>1, <2>1 DEF Queue!vars
<1> QED BY <1>2, <1>3, <1>4, <1>5, <1>6, <1>7 DEF Next

(* The heap with its marks implements the priority queue: a push adds one  *)
(* element if it is not there, a pop takes one that none is greater than,  *)
(* and the rotations in between change nothing that can be seen.           *)
THEOREM HeapIsPriorityQueue == Spec => IsPriorityQueue
<1>1. Init => Queue!Init
  BY InitIsQueue
<1>2. WalkInv /\ WalkInv' /\ [Next]_vars => [Queue!Next]_(Queue!vars)
  BY StepIsQueue
<1> QED BY <1>1, <1>2, WalkHolds, PTL DEF Spec, IsPriorityQueue, Queue!Spec
=============================================================================
