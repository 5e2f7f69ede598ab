--------------------------- MODULE FormulaHandles ---------------------------
(***************************************************************************)
(* Boolean formulas shared by OCaml and the C learner.                     *)
(*                                                                         *)
(* The learner's formulas are reference-counted C objects.  OCaml sees     *)
(* them through custom blocks (`boolformula_t`), each made by              *)
(* Val_boolformula, which counts one reference, and finalised by the       *)
(* collector, which gives it back.  Nothing else keeps the two heaps in    *)
(* step.  The collector may run whenever OCaml allocates: while OCaml code *)
(* runs, and inside Val_boolformula, where a stub holds a bare C pointer   *)
(* to the formula it is about to wrap.                                     *)
(*                                                                         *)
(* The kind of a connective and the name of a literal are left out: no     *)
(* count depends on them.  The client is any OCaml code that reads only    *)
(* slots it has set and builds no formula out of itself; the learner asks  *)
(* its queries in the order of learn_core, and the shape of what it asks   *)
(* is left open, and so is what a query inside a query would register      *)
(* (CdnfLearner).                                                          *)
(***************************************************************************)
EXTENDS Naturals, Sequences, FiniteSets

CONSTANTS
  Formulas,  \* the addresses a formula may have
  Handles,   \* the custom blocks
  None,      \* no formula, no block, and the content of a slot never set
  MaxSlots,  \* bound: the most subformulas of one formula
  MaxRef     \* bound: the client stops adding a formula whose count is MaxRef

ASSUME FormulasAssumption == IsFiniteSet(Formulas) /\ None \notin Formulas
ASSUME HandlesAssumption == IsFiniteSet(Handles) /\ None \notin Handles
ASSUME BoundsAssumption == MaxSlots \in Nat /\ MaxRef \in Nat

VARIABLES
  kind,     \* "none" (not allocated), "literal" or "node"
  sub,      \* the vector of subformulas of each formula
  ref,      \* its field ref
  freeing,  \* the activations of boolformula_free past their test, innermost first
  done,     \* how many subformulas each of them has given back
  block,    \* the formula each custom block points to
  rooted,   \* the blocks OCaml code can still reach
  args,     \* the blocks the running stub protects (CAMLparam)
  wrap,     \* the C pointer Val_boolformula is about to wrap
  asked,    \* the local root f of is_equivalent during the callback
  built,    \* the formulas C code is building, each with its creation reference
  mine,     \* the conjecture learn_core holds while its copy is asked about
  kept,     \* history: references to each formula nobody will ever give back
  phase     \* whose code runs

heap == <<kind, sub, ref, freeing, done>>
vars == <<heap, block, rooted, args, wrap, asked, built, mine, kept, phase>>

TypeOK ==
  /\ kind \in [Formulas -> {"none", "literal", "node"}]
  /\ sub \in [Formulas -> Seq(Formulas \cup {None})]
  /\ ref \in [Formulas -> Nat]
  /\ freeing \in Seq(Formulas)
  /\ done \in [Formulas -> Nat]
  /\ block \in [Handles -> Formulas \cup {None}]
  /\ rooted \in SUBSET Handles
  /\ args \in SUBSET Handles
  /\ wrap \in Formulas \cup {None}
  /\ asked \in Handles \cup {None}
  /\ built \in SUBSET Formulas
  /\ mine \in Formulas \cup {None}
  /\ kept \in [Formulas -> Nat]
  /\ phase \in {"client", "copy", "build", "query", "callback", "answered"}

Init ==
  /\ kind = [f \in Formulas |-> "none"]
  /\ sub = [f \in Formulas |-> <<>>]
  /\ ref = [f \in Formulas |-> 0]
  /\ freeing = <<>>
  /\ done = [f \in Formulas |-> 0]
  /\ block = [h \in Handles |-> None]
  /\ rooted = {}
  /\ args = {}
  /\ wrap = None
  /\ asked = None
  /\ built = {}
  /\ mine = None
  /\ kept = [f \in Formulas |-> 0]
  /\ phase = "client"

\* C code runs to its end: no other code runs while something is being freed.
Idle == freeing = <<>>
\* OCaml code is running, its own or that of a callback.
Client == Idle /\ wrap = None /\ phase \in {"client", "callback"}
\* Bound: a stub is called only when a block for its result is left.
Room == \E h \in Handles : block[h] = None
\* The code that called a stub.
Caller == IF asked = None THEN "client" ELSE "callback"

(* What can be reached from a set of formulas by following the slots that  *)
(* are still to be given back.                                             *)
Slots(f) == {s \in Formulas \X (1 .. MaxSlots) :
               /\ s[2] \in DOMAIN sub[s[1]]
               /\ s[2] > done[s[1]]
               /\ sub[s[1]][s[2]] = f}
Closed(S) == \A f \in Formulas : (\E s \in Slots(f) : s[1] \in S) => f \in S
Reach(S) == {f \in Formulas : \A T \in SUBSET Formulas : S \subseteq T /\ Closed(T) => f \in T}
Blocks(f) == {h \in Handles : block[h] = f}

-----------------------------------------------------------------------------
(* boolformula.c                                                           *)

\* A formula from malloc, with one reference for whoever made it.
New(f, k, slots) ==
  /\ kind[f] = "none"
  /\ kind' = [kind EXCEPT ![f] = k]
  /\ sub' = [sub EXCEPT ![f] = slots]
  /\ ref' = [ref EXCEPT ![f] = 1]

(* Broken: the test is off by one. *)
LateFree(f) ==
  \/ ref[f] > 0 /\ ref' = [ref EXCEPT ![f] = @ - 1] /\ UNCHANGED freeing
  \/ ref[f] <= 0 /\ freeing' = <<f>> \o freeing /\ UNCHANGED ref

\* boolformula_free on f: one reference less, or the loop over the subformulas.
Free(f) ==
  \/ ref[f] > 1 /\ ref' = [ref EXCEPT ![f] = @ - 1] /\ UNCHANGED freeing
  \/ ref[f] <= 1 /\ freeing' = <<f>> \o freeing /\ UNCHANGED ref

\* The next round of that loop.
FreeSub ==
  /\ freeing # <<>>
  /\ LET f == Head(freeing) IN
       /\ done[f] < Len(sub[f])
       /\ sub[f][done[f] + 1] # None
       /\ done' = [done EXCEPT ![f] = @ + 1]
       /\ LET c == sub[f][done[f] + 1] IN
            \/ ref[c] > 1 /\ ref' = [ref EXCEPT ![c] = @ - 1] /\ UNCHANGED freeing
            \/ ref[c] <= 1 /\ freeing' = <<c>> \o freeing /\ UNCHANGED ref
  /\ UNCHANGED <<kind, sub, block, rooted, args, wrap, asked, built, kept, phase, mine>>

\* The loop is over: the memory goes back to malloc.
FreeDone ==
  /\ freeing # <<>>
  /\ LET f == Head(freeing) IN
       /\ done[f] = Len(sub[f])
       /\ kind' = [kind EXCEPT ![f] = "none"]
       /\ sub' = [sub EXCEPT ![f] = <<>>]
       /\ ref' = [ref EXCEPT ![f] = 0]
       /\ done' = [done EXCEPT ![f] = 0]
  /\ freeing' = Tail(freeing)
  /\ UNCHANGED <<block, rooted, args, wrap, asked, built, kept, phase, mine>>

-----------------------------------------------------------------------------
(* The stubs.  Each works on the C objects and then wraps its result; the  *)
(* blocks it was given are its CAMLparams until it returns.                *)

\* A stub that returns the formula f to OCaml, protecting the blocks hs.
Return(f, hs) == wrap' = f /\ args' = hs

(* Broken: a stub gives its creation reference back before it returns. *)
TidyCreate(f, k, n) ==
  /\ Client /\ Room
  /\ k = "literal" => n = 0
  /\ kind[f] = "none"
  /\ kind' = [kind EXCEPT ![f] = k]
  /\ sub' = [sub EXCEPT ![f] = [i \in 1 .. n |-> None]]
  /\ Return(f, {})
  /\ UNCHANGED <<ref, kept, freeing, done, block, rooted, asked, built, phase, mine>>

\* ocaml_create_literal; ocaml_create_conjunction, ocaml_create_disjunction:
\* n slots, none of them set.  The creation reference is never given back.
Create(f, k, n) ==
  /\ Client /\ Room
  /\ k = "literal" => n = 0
  /\ New(f, k, [i \in 1 .. n |-> None])
  /\ kept' = [kept EXCEPT ![f] = 1]
  /\ Return(f, {})
  /\ UNCHANGED <<freeing, done, block, rooted, asked, built, phase, mine>>

\* ocaml_add_boolformula: the child is appended to the parent, which returns.
Add(p, c) ==
  /\ Client /\ Room /\ p \in rooted /\ c \in rooted
  /\ kind[block[p]] = "node"
  /\ block[p] \notin Reach({block[c]})
  /\ Len(sub[block[p]]) < MaxSlots /\ ref[block[c]] < MaxRef
  /\ sub' = [sub EXCEPT ![block[p]] = Append(@, block[c])]
  /\ ref' = [ref EXCEPT ![block[c]] = @ + 1]
  /\ Return(block[p], {p, c})
  /\ UNCHANGED <<kind, freeing, done, block, rooted, asked, built, kept, phase, mine>>

\* ocaml_set_boolformula: the old child, if any, keeps the count it had.
Put(p, i, c) ==
  /\ Client /\ Room /\ p \in rooted /\ c \in rooted
  /\ i \in DOMAIN sub[block[p]]
  /\ block[p] \notin Reach({block[c]})
  /\ ref[block[c]] < MaxRef
  /\ sub' = [sub EXCEPT ![block[p]] = [@ EXCEPT ![i] = block[c]]]
  /\ ref' = [ref EXCEPT ![block[c]] = @ + 1]
  /\ LET old == sub[block[p]][i] IN
       kept' = IF old = None THEN kept ELSE [kept EXCEPT ![old] = @ + 1]
  /\ Return(block[p], {p, c})
  /\ UNCHANGED <<kind, freeing, done, block, rooted, asked, built, phase, mine>>

\* ocaml_get_boolformula: a slot that has been set.
Get(h, i) ==
  /\ Client /\ Room /\ h \in rooted
  /\ i \in DOMAIN sub[block[h]] /\ sub[block[h]][i] # None
  /\ Return(sub[block[h]][i], {h})
  /\ UNCHANGED <<heap, block, rooted, asked, built, kept, phase, mine>>

\* The stubs that only read: ocaml_get_type, ocaml_get_length ...
Inspect(h) ==
  /\ Client /\ h \in rooted
  /\ kind[block[h]] \in {"literal", "node"}
  /\ UNCHANGED vars

\* ... and ocaml_print, ocaml_num_vars, which walk through all of it.
Whole(h) == \A f \in Reach({block[h]}) : \A i \in DOMAIN sub[f] : sub[f][i] # None
Survey(h) ==
  /\ Client /\ h \in rooted
  /\ Whole(h)
  /\ UNCHANGED vars

\* ocaml_copy, ocaml_to_cnf: a new formula is built from all of an old one.
Copy(h) ==
  /\ Client /\ Room /\ h \in rooted
  /\ Whole(h)
  /\ args' = {h}
  /\ phase' = "copy"
  /\ UNCHANGED <<heap, block, rooted, wrap, asked, built, kept, mine>>

Copied(f) ==
  /\ Idle /\ phase = "copy" /\ built = {f}
  /\ built' = {}
  /\ kept' = [kept EXCEPT ![f] = @ + 1]
  /\ phase' = Caller
  /\ Return(f, args)
  /\ UNCHANGED <<heap, block, rooted, asked, mine>>

\* Val_boolformula: the block is allocated, and only then counted.
Wrap(h) ==
  /\ Idle /\ wrap # None /\ phase # "query"
  /\ block[h] = None
  /\ block' = [block EXCEPT ![h] = wrap]
  /\ rooted' = rooted \cup {h}
  /\ ref' = [ref EXCEPT ![wrap] = @ + 1]
  /\ wrap' = None
  /\ args' = {}
  /\ UNCHANGED <<kind, sub, freeing, done, asked, built, kept, phase, mine>>

\* OCaml code forgets a block, or passes its last use.
Drop(h) ==
  /\ Idle /\ h \in rooted
  /\ phase \in {"client", "callback", "query"}
  /\ rooted' = rooted \ {h}
  /\ UNCHANGED <<heap, block, args, wrap, asked, built, kept, phase, mine>>

(* Broken: a stub does not register its arguments. *)
BareProtected == rooted \cup {asked}

\* The collector finds a block nobody can reach: dealloc_boolformula.
Protected == rooted \cup args \cup {asked}

Finalise(h) ==
  /\ Idle
  /\ phase \in {"client", "callback"} \/ wrap # None
  /\ block[h] # None /\ h \notin Protected
  /\ block' = [block EXCEPT ![h] = None]
  /\ Free(block[h])
  /\ UNCHANGED <<kind, sub, done, rooted, args, wrap, asked, built, kept, phase, mine>>

-----------------------------------------------------------------------------
(* The learner, and the C code that builds formulas: boolformula_copy,     *)
(* boolformula_to_cnf, cdnfformula_to_boolformula.  They set each part     *)
(* into its parents, give their own reference to it back, and never build  *)
(* a cycle.                                                                *)

Building == Idle /\ wrap = None /\ phase \in {"copy", "build"}

Make(f, k) ==
  /\ Building
  /\ New(f, k, <<>>)
  /\ built' = built \cup {f}
  /\ UNCHANGED <<freeing, done, block, rooted, args, wrap, asked, kept, phase, mine>>

Set(p, c) ==
  /\ Building
  /\ p \in built /\ c \in built /\ p \notin Reach({c})
  /\ kind[p] = "node" /\ Len(sub[p]) < MaxSlots
  /\ sub' = [sub EXCEPT ![p] = Append(@, c)]
  /\ ref' = [ref EXCEPT ![c] = @ + 1]
  /\ UNCHANGED <<kind, freeing, done, block, rooted, args, wrap, asked, built, kept, phase, mine>>

GiveBack(c) ==
  /\ Building
  /\ c \in built
  /\ Free(c)
  /\ built' = built \ {c}
  /\ UNCHANGED <<kind, sub, done, block, rooted, args, wrap, asked, kept, phase, mine>>

\* ocaml_cdnf and its variants call learn.
Go ==
  /\ Client /\ phase = "client"
  /\ phase' = "build"
  /\ UNCHANGED <<heap, block, rooted, args, wrap, asked, built, kept, mine>>

\* learn_core asks about a copy f of its conjecture g and holds the original.
Ask(f, g) ==
  /\ Building /\ phase = "build"
  /\ f # g /\ built = {f, g}
  /\ wrap' = f
  /\ mine' = g
  /\ built' = {f}
  /\ phase' = "query"
  /\ UNCHANGED <<heap, block, rooted, args, asked, kept>>

(* Broken: the reference of the copy's maker is not given back. *)
KeepingIsEquivalent(h) ==
  /\ Idle /\ phase = "query"
  /\ block[h] = None
  /\ block' = [block EXCEPT ![h] = wrap]
  /\ ref' = [ref EXCEPT ![wrap] = @ + 1]
  /\ asked' = h
  /\ rooted' = rooted \cup {h}
  /\ built' = built \ {wrap}
  /\ wrap' = None
  /\ phase' = "callback"
  /\ UNCHANGED <<kind, sub, freeing, done, args, kept, mine>>

\* is_equivalent: wrap the copy, give back its creation reference, call OCaml.
IsEquivalent(h) ==
  /\ Idle /\ phase = "query"
  /\ block[h] = None
  /\ block' = [block EXCEPT ![h] = wrap]
  /\ asked' = h
  /\ rooted' = rooted \cup {h}
  /\ built' = built \ {wrap}
  /\ wrap' = None
  /\ phase' = "callback"
  /\ UNCHANGED <<heap, args, kept, mine>>

\* The callback answers ...
Answer ==
  /\ Client /\ phase = "callback"
  /\ asked' = None
  /\ phase' = "answered"
  /\ UNCHANGED <<heap, block, rooted, args, wrap, built, kept, mine>>

\* ... or raises, and the learner's frames are gone with all they held.
Raise ==
  /\ Client /\ phase = "callback"
  /\ asked' = None
  /\ kept' = [kept EXCEPT ![mine] = @ + 1]
  /\ mine' = None
  /\ phase' = "client"
  /\ UNCHANGED <<heap, block, rooted, args, wrap, built>>

\* Not equal: the conjecture is freed and the next one built.
Refuted ==
  /\ Idle /\ phase = "answered"
  /\ Free(mine)
  /\ mine' = None
  /\ phase' = "build"
  /\ UNCHANGED <<kind, sub, done, block, rooted, args, wrap, asked, built, kept>>

\* Equal: learn returns the conjecture, and the stub wraps it.
Learned ==
  /\ Idle /\ phase = "answered"
  /\ kept' = [kept EXCEPT ![mine] = @ + 1]
  /\ mine' = None
  /\ phase' = "client"
  /\ Return(mine, {})
  /\ UNCHANGED <<heap, block, rooted, asked, built>>

\* Not part of the program (bound): no address is left, and another run starts.
Abort ==
  /\ Building
  /\ \A f \in Formulas : kind[f] # "none"
  /\ kind' = [f \in Formulas |-> "none"]
  /\ sub' = [f \in Formulas |-> <<>>]
  /\ ref' = [f \in Formulas |-> 0]
  /\ kept' = [f \in Formulas |-> 0]
  /\ block' = [h \in Handles |-> None]
  /\ rooted' = {} /\ args' = {} /\ built' = {}
  /\ asked' = None /\ mine' = None
  /\ phase' = "client"
  /\ UNCHANGED <<freeing, done, wrap>>

\* learn_core returns NULL on a conflict: OCaml gets None.
Conflict ==
  /\ Building /\ phase = "build" /\ built = {}
  /\ phase' = "client"
  /\ UNCHANGED <<heap, block, rooted, args, wrap, asked, built, kept, mine>>

Stub ==
  \/ \E f \in Formulas, k \in {"literal", "node"}, n \in 0 .. MaxSlots : Create(f, k, n)
  \/ \E p, c \in Handles : Add(p, c)
  \/ \E p, c \in Handles, i \in 1 .. MaxSlots : Put(p, i, c)
  \/ \E h \in Handles, i \in 1 .. MaxSlots : Get(h, i)
  \/ \E h \in Handles : Inspect(h) \/ Survey(h) \/ Copy(h)
  \/ \E f \in Formulas : Copied(f)
  \/ \E h \in Handles : Wrap(h)

Learner ==
  \/ \E f \in Formulas, k \in {"literal", "node"} : Make(f, k)
  \/ \E p, c \in Formulas : Set(p, c)
  \/ \E c \in Formulas : GiveBack(c)
  \/ Go
  \/ \E f, g \in Formulas : Ask(f, g)
  \/ \E h \in Handles : IsEquivalent(h)
  \/ Answer
  \/ Raise
  \/ Refuted
  \/ Learned
  \/ Conflict
  \/ Abort

Collector == \E h \in Handles : Drop(h) \/ Finalise(h)

Next == Stub \/ Learner \/ Collector \/ FreeSub \/ FreeDone

Spec == Init /\ [][Next]_vars

-----------------------------------------------------------------------------
(* What holds.                                                             *)

\* The formulas something outside the heap of formulas holds on to.
Held == {block[h] : h \in Handles} \cup built \cup {mine}
        \cup {f \in Formulas : kept[f] > 0}
Allocated == {f \in Formulas : kind[f] # "none"}
BeingFreed == {freeing[i] : i \in 1 .. Len(freeing)}

(* No pointer is dangling: a block, the pointer in Val_boolformula and     *)
(* every slot lead to a formula that is allocated and not being freed, as  *)
(* long as their owner lives; so each read of a stub is of live memory.    *)
NoDangling ==
  LET live == Allocated \ BeingFreed IN
    /\ \A h \in Handles : block[h] # None => block[h] \in live
    /\ wrap # None => wrap \in live
    /\ \A p \in live, i \in 1 .. MaxSlots :
         i \in DOMAIN sub[p] /\ sub[p][i] # None => sub[p][i] \in live

(* boolformula_free walks all slots of what it frees, and a connective     *)
(* made by OCaml may still have slots never set: such a one is never freed *)
(* (its creation reference is never given back).                           *)
FreesOnlyFilled ==
  \A f \in BeingFreed : \A i \in DOMAIN sub[f] : sub[f][i] # None

(* Nothing leaks but what the stubs are known to keep: each allocated      *)
(* formula is reachable from a block, from the learner, from a formula     *)
(* with a reference nobody will give back, or is being freed.              *)
NoGarbage ==
  Allocated \subseteq Reach((Held \cup BeingFreed) \ {None})

(* A formula OCaml can no longer reach, and nobody else holds, is          *)
(* reclaimed: so is each conjecture shown to an equivalence query.         *)
Needed == Reach(({block[h] : h \in Protected \ {None}} \cup built \cup {mine, wrap}
                 \cup {f \in Formulas : kept[f] > 0}) \ {None})
Reclaimed == \A f \in Formulas : (f \in Allocated \ Needed) ~> (f \notin Allocated)

\* C code runs to its end, also when it builds a formula, which takes finitely
\* many steps; and the collector comes round to each block.
CCode == \/ \E f, g \in Formulas : Copied(f) \/ Ask(f, g)
         \/ \E c \in Formulas : GiveBack(c)
         \/ \E f \in Formulas, k \in {"literal", "node"} : Make(f, k)
         \/ \E p, c \in Formulas : Set(p, c)
         \/ \E h \in Handles : Wrap(h) \/ IsEquivalent(h)
         \/ Refuted \/ Learned \/ Conflict \/ Abort \/ FreeSub \/ FreeDone
BuildEnds == Conflict \/ \E f, g \in Formulas : Copied(f) \/ Ask(f, g)
FairSpec == Spec /\ WF_vars(CCode) /\ SF_vars(BuildEnds) /\ \A h \in Handles : SF_vars(Finalise(h))

=============================================================================
