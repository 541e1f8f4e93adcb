----------------------------- MODULE BodyOrder -----------------------------
(***************************************************************************)
(* The order in which the compiler puts the nodes of one body, and what    *)
(* each of them may refer to.  Every list of at most MaxEdges edges over   *)
(* the nodes, one unknown name and every entry is an input; one node, whose *)
(* input is followed, selects from another (or from none).  Identities are *)
(* unique here: a repeated or empty one is refused before any of this.     *)
(***************************************************************************)
EXTENDS Naturals, FiniteSets, Sequences, SequencesExt

CONSTANTS Ids, Unknown, MaxEdges

ASSUME OrderAssumption ==
    IsFiniteSet(Ids) /\ Ids # {} /\ Unknown \notin Ids /\ MaxEdges \in Nat

Names == Ids \cup {Unknown}
Edges == [from : Names, to : Names]

VARIABLES
    entry, edges,       \* the body
    uses,               \* the input of node uses.at selects from node uses.of
    read,               \* edges that have been indexed
    next, previous,     \* the successor of a node; the nodes with a predecessor
    bad,                \* a diagnostic was recorded
    cursor, order,      \* the walk
    verdict

orderVars == <<entry, edges, uses, read, next, previous, bad, cursor, order, verdict>>

OrderInit ==
    /\ entry \in Names
    /\ edges \in UNION {[1..n -> Edges] : n \in 0..MaxEdges}
    /\ uses \in [at : Ids, of : Names \ {Unknown}] \cup {[at |-> Unknown, of |-> Unknown]}
    /\ read = 0 /\ next = [n \in Ids |-> Unknown] /\ previous = {} /\ bad = FALSE
    /\ cursor = Unknown /\ order = <<>> /\ verdict = "index"

Visited == ToSet(order)

(* One edge: a second successor or predecessor needs a control instruction. *)
Index ==
    /\ verdict = "index" /\ read < Len(edges)
    /\ read' = read + 1
    /\ LET e == edges[read + 1]
       IN  IF Unknown \in {e.from, e.to} THEN bad' = TRUE /\ UNCHANGED <<next, previous>>
           ELSE /\ bad' = (bad \/ next[e.from] # Unknown \/ e.to \in previous)
                /\ next' = [next EXCEPT ![e.from] = e.to]
                /\ previous' = IF next[e.from] # Unknown THEN previous ELSE previous \cup {e.to}
    /\ UNCHANGED <<entry, edges, uses, cursor, order, verdict>>

Enter ==
    /\ verdict = "index" /\ read = Len(edges)
    /\ IF bad \/ entry \notin Ids \/ entry \in previous
       THEN verdict' = "rejected" /\ UNCHANGED cursor
       ELSE verdict' = "walk" /\ cursor' = entry
    /\ UNCHANGED <<entry, edges, uses, read, next, previous, bad, order>>

Visit ==
    /\ verdict = "walk" /\ cursor # Unknown
    /\ IF cursor \in Visited THEN verdict' = "rejected" /\ UNCHANGED <<cursor, order>>
       ELSE order' = Append(order, cursor) /\ cursor' = next[cursor] /\ UNCHANGED verdict
    /\ UNCHANGED <<entry, edges, uses, read, next, previous, bad>>

(* body: a node may select from those that come before it. *)
Check ==
    /\ verdict = "walk" /\ cursor = Unknown
    /\ LET available(i) == {order[j] : j \in 1..(i - 1)}
       IN  verdict' = IF /\ Visited = Ids
                         /\ \A i \in DOMAIN order : order[i] = uses.at => uses.of \in available(i)
                      THEN "accepted" ELSE "rejected"
    /\ UNCHANGED <<entry, edges, uses, read, next, previous, bad, cursor, order>>

OrderNext == Index \/ Enter \/ Visit \/ Check
OrderSpec == OrderInit /\ [][OrderNext]_orderVars

-----------------------------------------------------------------------------
(* What an author means by a body: one chain over all nodes, from its       *)
(* entry, where data flows forward.                                         *)
Chains == {s \in [1..Cardinality(Ids) -> Ids] : {s[i] : i \in DOMAIN s} = Ids}
Links(s) == [i \in 1..(Len(s) - 1) |-> [from |-> s[i], to |-> s[i + 1]]]
Means(s) ==
    /\ s[1] = entry
    /\ Len(edges) = Len(s) - 1 /\ {edges[i] : i \in DOMAIN edges} = ToSet(Links(s))
    /\ \A i \in DOMAIN s : s[i] = uses.at => \E j \in 1..(i - 1) : s[j] = uses.of

(* What is accepted is exactly what means something, in that order: forks,  *)
(* joins, cycles, loose nodes, duplicate edges and references to a later    *)
(* node are all refused (compiler/control.rs:603, binding.rs:37).           *)
OrderIsTheChain ==
    /\ verdict = "accepted" => Means(order)
    /\ verdict = "rejected" => \A s \in Chains : ~Means(s)

(* A body whose names resolve and whose edges neither fork, join nor lead   *)
(* back to the entry is a path and loose rings: the walk cannot come back,  *)
(* so its own test for cycles is a second line (compiler/control.rs:663).   *)
WalkNeverReturns == verdict = "walk" => cursor \notin Visited
=============================================================================
