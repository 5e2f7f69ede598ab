---------------------------- MODULE WorklistHeap ----------------------------
(***************************************************************************)
(* The worklist of the solver: the functional heap of utils/heap.ml with   *)
(* the table pend of liquid/constraint.ml that keeps a constraint from     *)
(* being queued twice.                                                     *)
(*                                                                         *)
(* A heap is a finite tree, a function from positions to nodes; a position *)
(* is the way to it from the root, Empty is what no node is at.  A node is *)
(* Same when the trees on its two sides hold equally many elements, Diff   *)
(* when the left one holds one more.                                       *)
(*                                                                         *)
(* The three recursive functions go down one branch.  A call of one of     *)
(* them is a step: the position of its tree is `at', the element it was    *)
(* given `hand'.  What a function does to its result (a constructor around *)
(* the result of the inner call) is known before the inner call and done   *)
(* to the node on the way down.  The program has one thread, so no push or *)
(* pop begins before the call in progress has returned.                    *)
(***************************************************************************)
EXTENDS Naturals, FiniteSets, SequencesExt, Functions

CONSTANTS
    Ids,        \* constraint ids
    Key,        \* Key[i]: the rank of a constraint
    Nothing     \* what pop returns for an empty heap; no element

ASSUME HeapAssumption == Key \in [Ids -> Nat] /\ Nothing \notin Ids

Greater(x, y) == Key[x] > Key[y]

Sides == {"left", "right"}
Positions == Seq(Sides)
Root == <<>>
Left(p) == Append(p, "left")
Right(p) == Append(p, "right")

Empty == [p \in {} |-> Nothing]
Same(x) == [same |-> TRUE, top |-> x]
Diff(x) == [same |-> FALSE, top |-> x]

VARIABLES
    w,          \* the heap
    pend,       \* the ids in it, as push and pop keep track
    popped,     \* the last answer of pop_worklist
    call,       \* the function in progress, or "none"
    at,         \* the position of the tree it is called with
    hand        \* the element it is called with

vars == <<w, pend, popped, call, at, hand>>

Nodes == DOMAIN w
Top(p) == w[p].top
\* Same (Empty, _, Empty)
IsSingle(p) == w[p].same /\ Left(p) \notin Nodes /\ Right(p) \notin Nodes

Init ==
    /\ w = Empty /\ pend = {} /\ popped = Nothing
    /\ call = "none" /\ at = Root /\ hand = Nothing

Call(f, p, x) == call' = f /\ at' = p /\ hand' = x
Return == Call("none", Root, Nothing)

-----------------------------------------------------------------------------
(* Broken: a constraint in the heap is pushed again.                       *)
CarelessPush(i) ==
    /\ call = "none"
    /\ pend' = pend \cup {i}
    /\ Call("add", Root, i)
    /\ UNCHANGED <<w, popped>>

(* push_worklist, for one of the constraints it is given.                  *)
Push(i) ==
    /\ call = "none"
    /\ pend' = pend \cup {i}
    /\ IF i \in pend THEN UNCHANGED <<call, at, hand>> ELSE Call("add", Root, i)
    /\ UNCHANGED <<w, popped>>

(* add on Empty.                                                           *)
AddHere ==
    /\ call = "add" /\ at \notin Nodes
    /\ w' = [p \in Nodes \cup {at} |-> IF p = at THEN Same(hand) ELSE w[p]]
    /\ Return
    /\ UNCHANGED <<pend, popped>>

(* add on a node: Same becomes Diff on the left, Diff becomes Same on the  *)
(* right, and the smaller of the two elements goes down.                   *)
AddBelow ==
    /\ call = "add" /\ at \in Nodes
    /\ LET up == IF Greater(hand, Top(at)) THEN hand ELSE Top(at)
           down == IF Greater(hand, Top(at)) THEN Top(at) ELSE hand
       IN  IF w[at].same
           THEN w' = [w EXCEPT ![at] = Diff(up)] /\ Call("add", Left(at), down)
           ELSE w' = [w EXCEPT ![at] = Same(up)] /\ Call("add", Right(at), down)
    /\ UNCHANGED <<pend, popped>>

(* remove: extract_last begins, unless the element is the only one.        *)
RemoveTop ==
    IF IsSingle(Root) THEN w' = Empty /\ Return
    ELSE w' = w /\ Call("extract_last", Root, Nothing)

(* pop_worklist: the answer, the mark, and the heap without it.            *)
Pop ==
    /\ call = "none" /\ w # Empty
    /\ popped' = Top(Root) /\ pend' = pend \ {Top(Root)}
    /\ RemoveTop

PopEmpty ==
    /\ call = "none" /\ w = Empty
    /\ popped' = Nothing
    /\ UNCHANGED <<w, pend, call, at, hand>>

(* extract_last on the last element: descent follows, from the top.        *)
ExtractHere ==
    /\ call = "extract_last" /\ IsSingle(at)
    /\ w' = Restrict(w, Nodes \ {at})
    /\ Call("descent", Root, Top(at))
    /\ UNCHANGED <<pend, popped>>

ExtractBelow ==
    /\ call = "extract_last" /\ ~IsSingle(at)
    /\ IF w[at].same
       THEN w' = [w EXCEPT ![at] = Diff(Top(at))] /\ Call("extract_last", Right(at), Nothing)
       ELSE w' = [w EXCEPT ![at] = Same(Top(at))] /\ Call("extract_last", Left(at), Nothing)
    /\ UNCHANGED <<pend, popped>>

-----------------------------------------------------------------------------
\* Diff (Same (_, z, _), _, Empty)
OnlyLeft(p) ==
    ~w[p].same /\ Right(p) \notin Nodes /\ Left(p) \in Nodes /\ w[Left(p)].same

(* Broken: the element given to descent stays at the top.                  *)
LazyStays(p, x) == TRUE

(* descent has found the place of x.                                       *)
Stays(p, x) ==
    \/ IsSingle(p)
    \/ OnlyLeft(p) /\ Greater(x, Top(Left(p)))
    \/ ~IsSingle(p) /\ ~OnlyLeft(p) /\ Greater(x, Top(Left(p))) /\ Greater(x, Top(Right(p)))

DescentHere ==
    /\ call = "descent" /\ Stays(at, hand)
    /\ w' = [w EXCEPT ![at].top = hand]
    /\ Return
    /\ UNCHANGED <<pend, popped>>

\* The left tree becomes Same (Empty, x, Empty): what was below it is dropped.
DescentSwap ==
    /\ call = "descent" /\ ~Stays(at, hand) /\ OnlyLeft(at)
    /\ LET kept == {p \in Nodes : ~IsStrictPrefix(Left(at), p)}
       IN  w' = [Restrict(w, kept) EXCEPT ![at].top = Top(Left(at)), ![Left(at)] = Same(hand)]
    /\ Return
    /\ UNCHANGED <<pend, popped>>

DescentBelow ==
    /\ call = "descent" /\ ~Stays(at, hand) /\ ~OnlyLeft(at)
    /\ LET up == IF Greater(Top(Left(at)), Top(Right(at))) THEN Left(at) ELSE Right(at)
       IN  w' = [w EXCEPT ![at].top = Top(up)] /\ Call("descent", up, hand)
    /\ UNCHANGED <<pend, popped>>

Next ==
    \/ \E i \in Ids : Push(i)
    \/ AddHere \/ AddBelow
    \/ Pop \/ PopEmpty
    \/ ExtractHere \/ ExtractBelow
    \/ DescentHere \/ DescentSwap \/ DescentBelow

Spec == Init /\ [][Next]_vars

-----------------------------------------------------------------------------
TypeOK ==
    /\ IsFiniteSet(Nodes) /\ Nodes \subseteq Positions
    /\ w \in [Nodes -> [same : BOOLEAN, top : Ids]]
    /\ pend \subseteq Ids
    /\ popped \in Ids \cup {Nothing}
    /\ call \in {"none", "add", "extract_last", "descent"}
    /\ at \in Positions
    /\ hand \in Ids \cup {Nothing}

\* The node whose element is gone: it was popped, or has moved up.
Hole == CASE call = "extract_last" -> {Root} [] call = "descent" -> {at} [] OTHER -> {}
Contents == {Top(p) : p \in Nodes \ Hole} \cup ({hand} \ {Nothing})

(* Nothing is lost or duplicated by the rotations of a removal, and the    *)
(* table pend agrees with the heap at every moment: a constraint that is   *)
(* not in the heap can be queued again.                                    *)
PendIsHeap ==
    /\ pend = Contents
    /\ \A p, q \in Nodes \ Hole : Top(p) = Top(q) => p = q
    /\ \A p \in Nodes \ Hole : Top(p) # hand

(* No element is greater than the one at the top of a tree it is in.       *)
HeapOrdered == \A p, q \in Nodes : IsPrefix(p, q) => ~Greater(Top(q), Top(p))

(* The nodes form a tree, and a node keeps the promise of its constructor. *)
Tree(p) == {q \in Nodes : IsPrefix(p, q)}
Size(p) == Cardinality(Tree(p))
WellShaped ==
    /\ \A q \in Nodes : Prefixes(q) \subseteq Nodes
    /\ \A p \in Nodes : Size(Left(p)) = Size(Right(p)) + IF w[p].same THEN 0 ELSE 1

(* A heap is a complete binary tree, full except on the bottom level (the  *)
(* comment at utils/heap.ml:137): no place above a node's level is free.   *)
(* That bounds the height by the logarithm of the size.                    *)
Complete == \A p \in Nodes : \A n \in 0 .. Len(p) - 1 : [1 .. n -> Sides] \subseteq Nodes

(* No function meets a tree it has no case for: extract_last and maximum   *)
(* would raise EmptyHeap, which pop_worklist takes for an empty worklist,  *)
(* with the mark of the popped constraint already gone.                    *)
NeverRaises ==
    /\ call \in {"extract_last", "descent"} => at \in Nodes
    /\ call = "descent" =>
         IsSingle(at) \/ OnlyLeft(at) \/ {Left(at), Right(at)} \subseteq Nodes

(* After every sequence of pushes and pops the heap has the shape its      *)
(* constructors promise, is ordered and complete, and the marks tell what  *)
(* is in it; no push or pop fails half way.                                *)
HeapInv ==
    /\ TypeOK /\ PendIsHeap /\ HeapOrdered /\ NeverRaises
    /\ call = "none" => WellShaped /\ Complete

(* The worklist is a priority queue, all through the recursive calls.      *)
Queue == INSTANCE PriorityQueue WITH queue <- Contents
IsPriorityQueue == Queue!Spec
=============================================================================
