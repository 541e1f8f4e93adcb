------------------------------ MODULE Compiler ------------------------------
(***************************************************************************)
(* The traversal of a definition by the compiler: what it resolves, what it *)
(* counts and what it refuses.  A body is a sequence of items; BodyOrder is *)
(* about the order.  An item stands for a node by what it resolves: an      *)
(* operation, a subworkflow, the operation that starts a wait, or the body   *)
(* nested in a control instruction (which the compiler treats alike, one    *)
(* level deeper).  The bytes of the plan, which are counted and limited as   *)
(* its nodes are, are left out.                                             *)
(***************************************************************************)
EXTENDS Naturals, FiniteSets, Sequences, SequencesExt, FiniteSetsExt

CONSTANTS
    ControlDepth,       \* limits.control_depth
    NodeLimit,          \* limits.nodes, of one document
    Activations         \* limits.activations, of the expanded plan

Op(o) == [kind |-> "op", of |-> o]
Sub(r) == [kind |-> "sub", of |-> r]
In(b) == [kind |-> "in", of |-> b]
Wait(o) == [kind |-> "wait", of |-> o]    \* AwaitSignal with a start

(* Compiler and Metadata: what is threaded through the traversal. *)
Fresh == [ok |-> TRUE, nodes |-> 0, document |-> 0, active |-> {}, defs |-> {}, ops |-> {}]
Refused(s) == [s EXCEPT !.ok = FALSE]

RECURSIVE Item(_, _, _, _, _)
RECURSIVE Body(_, _, _, _, _)

(* Mutant: a compiled workflow stays active. *)
Workflow_StaysActive(catalog, known, d, depth, s) ==
    IF \/ depth > ControlDepth
       \/ \E e \in catalog : e.rev = d.rev /\ e # d
       \/ d.rev \in s.active
    THEN Refused(s)
    ELSE LET inner == Body(catalog, known, d.body, depth,
                           [s EXCEPT !.document = 0, !.active = @ \cup {d.rev}])
         IN  [inner EXCEPT !.document = s.document, !.defs = @ \cup {d}]

(* A workflow under its own document budget; it is active only while its    *)
(* body is compiled.                                                        *)
Workflow(catalog, known, d, depth, s) ==
    IF \/ depth > ControlDepth
       \/ \E e \in catalog : e.rev = d.rev /\ e # d
       \/ d.rev \in s.active
    THEN Refused(s)
    ELSE LET inner == Body(catalog, known, d.body, depth,
                           [s EXCEPT !.document = 0, !.active = @ \cup {d.rev}])
         IN  [inner EXCEPT !.document = s.document, !.active = @ \ {d.rev},
                           !.defs = @ \cup {d}]

Body(catalog, known, items, depth, s) ==
    LET t == [s EXCEPT !.nodes = @ + Len(items), !.document = @ + Len(items)]
    IN  IF depth > ControlDepth \/ t.document > NodeLimit \/ t.nodes > Activations
        THEN Refused(t)
        ELSE FoldLeft(LAMBDA acc, item : Item(catalog, known, item, depth, acc), t, items)

(* instruction: an error is a diagnostic, and the next item is compiled. *)
Item(catalog, known, item, depth, s) ==
    CASE item.kind = "op" ->
            IF item.of \in known THEN [s EXCEPT !.ops = @ \cup {item.of}] ELSE Refused(s)
      [] item.kind = "wait" ->    \* one node more, of the same body
            LET t == [s EXCEPT !.nodes = @ + 1, !.document = @ + 1]
            IN  IF t.document > NodeLimit \/ t.nodes > Activations \/ item.of \notin known
                THEN Refused(t) ELSE [t EXCEPT !.ops = @ \cup {item.of}]
      [] item.kind = "in" -> Body(catalog, known, item.of, depth + 1, s)
      [] item.kind = "sub" ->
            LET found == {d \in catalog : d.rev = item.of}
            IN  IF found = {} THEN Refused(s)
                ELSE Workflow(catalog, known, CHOOSE d \in found : TRUE, depth + 1, s)

Compile(catalog, known, d) == Workflow(catalog, known, d, 0, Fresh)

-----------------------------------------------------------------------------
(* What an accepted definition is, from the tree it unfolds into.  A node of *)
(* the tree is the path of items that leads to it, the definition it is in  *)
(* and its position; the tree is cut one level below the depth limit.       *)
Node(items, i, d, up) == [item |-> items[i], at |-> up \o <<i>>, doc |-> d,
                          home |-> SubSeq(up, 1, d.level)]
Level(items, d, up) == {Node(items, i, d, up) : i \in DOMAIN items}

Below(catalog, n) ==
    CASE n.item.kind \in {"op", "wait"} -> {}
      [] n.item.kind = "in" -> Level(n.item.of, n.doc, n.at)
      [] n.item.kind = "sub" ->
            UNION {Level(e.body, [level |-> Len(n.at), revs |-> n.doc.revs \cup {e.rev}], n.at)
                   : e \in {x \in catalog : x.rev = n.item.of}}

RECURSIVE Unfold(_, _, _)
Unfold(catalog, level, rest) ==
    IF rest = 0 \/ level = {} THEN level
    ELSE level \cup Unfold(catalog, UNION {Below(catalog, n) : n \in level}, rest - 1)

Tree(catalog, d) ==
    Unfold(catalog, Level(d.body, [level |-> 0, revs |-> {d.rev}], <<>>), ControlDepth + 1)

Resolves(catalog, known, n) ==
    /\ n.item.kind \in {"op", "wait"} => n.item.of \in known
    /\ n.item.kind = "sub" => /\ \E e \in catalog : e.rev = n.item.of
                              /\ n.item.of \notin n.doc.revs

(* A wait that starts an operation is two nodes. *)
Nodes(tree) == Cardinality(tree) + Cardinality({n \in tree : n.item.kind = "wait"})

Acceptable(catalog, known, d) ==
    LET tree == Tree(catalog, d)
    IN  /\ \A e \in catalog : e.rev = d.rev => e = d
        /\ \A n \in tree : Resolves(catalog, known, n) /\ Len(n.at) <= ControlDepth + 1
        /\ Nodes(tree) <= Activations
        /\ \A n \in tree : Nodes({k \in tree : k.home = n.home}) <= NodeLimit

(* Everything a plan needs, read off the tree. *)
NeedsOps(catalog, d) == {n.item.of : n \in {k \in Tree(catalog, d) : k.item.kind \in {"op", "wait"}}}
NeedsDefs(catalog, d) ==
    {d} \cup {e \in catalog : \E n \in Tree(catalog, d) : n.item = Sub(e.rev)}
=============================================================================
