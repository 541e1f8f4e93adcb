--------------------------- MODULE SnapshotsProofs ---------------------------
(***************************************************************************)
(* Lemmas about checkpoints, for the proofs about the two providers: what  *)
(* the edits of a caller have as their type, that the replacement of one    *)
(* record is a legal successor, and how the derived values move with it.    *)
(***************************************************************************)
EXTENDS Snapshots, FiniteSetTheorems, WellFoundedInduction, TLAPS

(* What validate_waits asks of a checkpoint alone. *)
WaitsHold(s) ==
    \A p \in Paths :
        /\ s.waits[p] # "none" <=> s.nodes[p].kind = "wait"
        /\ s.nodes[p].kind = "wait" => (s.nodes[p].state = "Succeeded" <=> s.waits[p] = "Consumed")

-----------------------------------------------------------------------------
(* Values *)

LEMMA Absence ==
    /\ NoRun \notin Snapshot /\ NoReceipt \notin Receipt
    /\ NoIdent \notin Ident
<1>1. NoRun \notin Snapshot
  <2>1. \A s \in Snapshot : s.revision \in Nat
    BY DEF Snapshot
  <2>2. NoRun.revision \notin Nat
    BY DEF NoRun, NoTime
  <2> QED
    BY <2>1, <2>2
<1>2. NoReceipt \notin Receipt
  <2>1. \A s \in Receipt : s.expires \in Nat
    BY DEF Receipt
  <2>2. NoReceipt.expires \notin Nat
    BY DEF NoReceipt, NoTime
  <2> QED
    BY <2>1, <2>2
<1>3. NoIdent \notin Ident
  <2>1. \A s \in Ident : s.born \in Nat
    BY DEF Ident
  <2>2. NoIdent.born \notin Nat
    BY DEF NoIdent, NoTime
  <2> QED
    BY <2>1, <2>2
<1> QED
  BY <1>1, <1>2, <1>3

(* The fields of a checkpoint, and of what it is made of. *)
LEMMA SnapshotFields ==
    ASSUME NEW s \in Snapshot
    PROVE  /\ s.ident \in Ident /\ s.revision \in Nat /\ s.result \in Nat
           /\ s.audit \in Seq({"entry"})
           /\ s.nodes \in [Paths -> Record] /\ s.waits \in [Paths -> WaitStates]
           /\ s.finished \in Nat \cup {NoTime}
  BY DEF Snapshot

LEMMA InitialTyped ==
    ASSUME NEW ident \in Ident
    PROVE  Initial(ident) \in Snapshot /\ WaitsHold(Initial(ident))
<1>1. Absent \in Record /\ <<>> \in Seq({"entry"})
  BY DEF Absent, Record, NodeStates, NodeKinds
<1>2. Initial(ident) \in Snapshot
  BY <1>1 DEF Initial, Snapshot, RunStates, Active, WaitStates
<1>3. WaitsHold(Initial(ident))
  BY DEF Initial, WaitsHold, Absent
<1> QED
  BY <1>2, <1>3

LEMMA RecordSucceeds ==
    ASSUME NEW rec \in Record
    PROVE  [rec EXCEPT !.state = "Succeeded"] \in Record
  BY DEF Record, NodeStates

LEMMA IdentMoves ==
    ASSUME NEW ident \in Ident
    PROVE  [ident EXCEPT !.born = @ + 1] \in Ident
  BY DEF Ident

LEMMA RevisedTyped ==
    ASSUME NEW s \in Snapshot
    PROVE  /\ Revised(s) \in Snapshot /\ Revised(s).revision = s.revision + 1
           /\ ClosedWaits(s) \in [Paths -> WaitStates]
<1>1. Revised(s) \in Snapshot /\ Revised(s).revision = s.revision + 1
  BY DEF Revised, Snapshot
<1>2. ClosedWaits(s) \in [Paths -> WaitStates]
  BY DEF ClosedWaits, Snapshot, WaitStates
<1> QED
  BY <1>1, <1>2

(* Whatever a caller makes of a checkpoint is one, of the next revision. *)
LEMMA EditsTyped ==
    ASSUME NEW s \in Snapshot, NEW at \in Nat, NEW t \in Edits(s, at)
    PROVE  t \in Snapshot /\ t.revision = s.revision + 1
<1> DEFINE v == Revised(s)
<1>1. v \in Snapshot /\ v.revision = s.revision + 1 /\ ClosedWaits(s) \in [Paths -> WaitStates]
  BY RevisedTyped
<1> HIDE DEF v
<1>f. /\ v.ident \in Ident /\ v.result \in Nat
      /\ v.audit \in Seq({"entry"}) /\ <<>> \in Seq({"entry"})
      /\ v.nodes \in [Paths -> Record] /\ v.waits \in [Paths -> WaitStates]
  BY <1>1, SnapshotFields
<1>2. CASE t \in Transitions(s, at)
  <2>1. ASSUME NEW st \in {"Running", "Waiting"}, t = [v EXCEPT !.state = st]
        PROVE  t \in Snapshot /\ t.revision = v.revision
    BY <2>1, <1>1 DEF Snapshot, RunStates, Active
  <2>2. ASSUME t = [v EXCEPT !.cancel = TRUE, !.state = "Cancelling", !.waits = ClosedWaits(s)]
        PROVE  t \in Snapshot /\ t.revision = v.revision
    BY <2>2, <1>1 DEF Snapshot, RunStates, Active
  <2>3. ASSUME t = [v EXCEPT !.state = "Succeeded", !.result = 1, !.finished = at,
                             !.waits = ClosedWaits(s)]
        PROVE  t \in Snapshot /\ t.revision = v.revision
    BY <2>3, <1>1 DEF Snapshot, RunStates, Terminal
  <2>4. ASSUME t = [v EXCEPT !.audit = Append(@, "entry")]
        PROVE  t \in Snapshot /\ t.revision = v.revision
    <3>1. Append(v.audit, "entry") \in Seq({"entry"})
      BY <1>f
    <3> QED
      BY <2>4, <1>1, <3>1 DEF Snapshot
  <2> QED
    BY <1>1, <1>2, <2>1, <2>2, <2>3, <2>4 DEF Transitions, v
<1>3. CASE t \in NodeWrites(s)
  <2>1. PICK p \in Paths, rec \in Records : t = Written(s, p, rec)
    BY <1>3 DEF NodeWrites
  <2>2. rec \in Record
    BY SnapshotsAssumption
  <2> QED
    BY <1>1, <2>1, <2>2 DEF Snapshot, WaitStates, v, Written
<1>4. CASE t \in Consumptions(s)
  <2>1. PICK p \in Paths :
           t = [v EXCEPT !.nodes[p].state = "Succeeded", !.waits[p] = "Consumed"]
    BY <1>4 DEF Consumptions, OpenWaits, v
  <2>2. [v.nodes[p] EXCEPT !.state = "Succeeded"] \in Record
    BY <1>f, RecordSucceeds
  <2> QED
    BY <1>1, <2>1, <2>2 DEF Snapshot, WaitStates
<1>5. CASE t \in Refused(s)
  <2>1. ASSUME t = [v EXCEPT !.cancel = FALSE, !.state = "Running"]
        PROVE  t \in Snapshot /\ t.revision = v.revision
    BY <2>1, <1>1 DEF Snapshot, RunStates, Active
  <2>2. ASSUME t = [v EXCEPT !.audit = <<>>, !.state = "Running"]
        PROVE  t \in Snapshot /\ t.revision = v.revision
    BY <2>2, <1>1, <1>f DEF Snapshot, RunStates, Active
  <2>3. ASSUME t = [v EXCEPT !.result = @ + 1]
        PROVE  t \in Snapshot /\ t.revision = v.revision
    <3>1. v.result + 1 \in Nat
      BY <1>f
    <3> QED
      BY <2>3, <1>1, <3>1 DEF Snapshot
  <2>4. ASSUME t = [v EXCEPT !.ident.born = @ + 1]
        PROVE  t \in Snapshot /\ t.revision = v.revision
    <3>1. [v.ident EXCEPT !.born = @ + 1] \in Ident
      BY <1>f, IdentMoves
    <3> QED
      BY <2>4, <1>1, <3>1 DEF Snapshot
  <2>5. ASSUME NEW p \in Paths, t = [v EXCEPT !.nodes[p] = Absent]
        PROVE  t \in Snapshot /\ t.revision = v.revision
    <3>1. Absent \in Record
      BY DEF Absent, Record, NodeStates, NodeKinds
    <3> QED
      BY <2>5, <1>1, <3>1 DEF Snapshot
  <2>6. ASSUME NEW p \in Paths, t = [v EXCEPT !.nodes[p].state = "Succeeded"]
        PROVE  t \in Snapshot /\ t.revision = v.revision
    <3>1. [v.nodes[p] EXCEPT !.state = "Succeeded"] \in Record
      BY <1>f, RecordSucceeds
    <3> QED
      BY <2>6, <1>1, <3>1 DEF Snapshot
  <2>7. ASSUME NEW p \in Paths, t = [v EXCEPT !.waits[p] = "Consumed"]
        PROVE  t \in Snapshot /\ t.revision = v.revision
    BY <2>7, <1>1 DEF Snapshot, WaitStates
  <2> QED
    BY <1>1, <1>5, <2>1, <2>2, <2>3, <2>4, <2>5, <2>6, <2>7 DEF Refused, OpenWaits, v
<1> QED
  BY <1>2, <1>3, <1>4, <1>5 DEF Edits

-----------------------------------------------------------------------------
(* The replacement of one record *)

Replaced(s, p, rec) == [s EXCEPT !.nodes[p] = rec, !.revision = @ + 1]

LEMMA ReplacedFields ==
    ASSUME NEW s \in Snapshot, NEW p \in Paths, NEW rec \in Record
    PROVE  LET t == Replaced(s, p, rec) IN
           /\ t \in Snapshot /\ t.revision = s.revision + 1
           /\ t.ident = s.ident /\ t.cancel = s.cancel /\ t.audit = s.audit
           /\ t.state = s.state /\ t.waits = s.waits /\ t.result = s.result
           /\ t.finished = s.finished
           /\ t.nodes = [s.nodes EXCEPT ![p] = rec]
<1> DEFINE nodes == [s.nodes EXCEPT ![p] = rec]
           t == Replaced(s, p, rec)
<1>1. nodes \in [Paths -> Record]
  BY SnapshotFields
<1>2. t = [s EXCEPT !.nodes = nodes, !.revision = @ + 1]
  BY DEF Replaced
<1>3. s.revision + 1 \in Nat
  BY SnapshotFields
<1> HIDE DEF nodes, t
<1>4. /\ t \in Snapshot /\ t.revision = s.revision + 1
      /\ t.ident = s.ident /\ t.cancel = s.cancel /\ t.audit = s.audit
      /\ t.state = s.state /\ t.waits = s.waits /\ t.result = s.result
      /\ t.finished = s.finished /\ t.nodes = nodes
  BY <1>1, <1>2, <1>3 DEF Snapshot
<1> QED
  BY <1>4 DEF nodes, t

(* commit_invocation's own checks imply those of commit. *)
LEMMA ReplacedIsSuccessor ==
    ASSUME NEW s \in Snapshot, WaitsHold(s), NEW p \in Paths, NEW rec \in Record,
           Replaceable(s, p, rec)
    PROVE  ValidSuccessor(s, Replaced(s, p, rec))
<1> DEFINE t == Replaced(s, p, rec)
<1>5. /\ t \in Snapshot /\ t.revision = s.revision + 1
      /\ t.ident = s.ident /\ t.cancel = s.cancel /\ t.audit = s.audit
      /\ t.state = s.state /\ t.waits = s.waits
      /\ t.nodes = [s.nodes EXCEPT ![p] = rec]
  BY ReplacedFields
<1> HIDE DEF t
<1>6. s.nodes \in [Paths -> Record] /\ s.audit \in Seq({"entry"})
  BY SnapshotFields
<1>8. ValidWaits(s, t)
  <2>1. s.waits[p] = "none" /\ rec.kind # "wait" /\ s.state \notin Terminal
    BY DEF Replaceable, WaitsHold
  <2>2. ASSUME NEW q \in Paths
        PROVE  /\ s.waits[q] # "none" <=> t.nodes[q].kind = "wait"
               /\ t.nodes[q].kind = "wait" =>
                     (t.nodes[q].state = "Succeeded" <=> s.waits[q] = "Consumed")
    <3>1. CASE q = p
      BY <1>5, <1>6, <2>1, <3>1
    <3>2. CASE q # p
      BY <1>5, <1>6, <3>2 DEF WaitsHold
    <3> QED
      BY <3>1, <3>2
  <2> QED
    BY <1>5, <2>1, <2>2 DEF ValidWaits
<1>9. \A q \in Paths : s.nodes[q].state = "Succeeded" => t.nodes[q] = s.nodes[q]
  BY <1>5, <1>6 DEF Replaceable
<1>10. IsPrefix(s.audit, t.audit)
  BY <1>5, <1>6 DEF IsPrefix
<1>11. ValidSuccessor(s, t)
  BY <1>5, <1>8, <1>9, <1>10 DEF ValidSuccessor, Replaceable
<1> QED
  BY <1>11 DEF t

LEMMA SuccessorWaits ==
    ASSUME NEW s, NEW t, ValidSuccessor(s, t)
    PROVE  WaitsHold(t)
  BY DEF ValidSuccessor, ValidWaits, WaitsHold

-----------------------------------------------------------------------------
(***************************************************************************)
(* Sums over a finite set, as the folds of the model compute them, and how *)
(* such a sum moves when one summand does.  The recursion picks the members *)
(* in an order of its own; the proofs take the smallest set for which a    *)
(* fact fails, so that a number of members stands for induction.           *)
(***************************************************************************)
(* The recursion of MapThenFoldSet(+, base, f, CHOOSE, S). *)
AnyOf(D) == CHOOSE x \in D : TRUE
IsSum(g, S, f, base) ==
    g = [D \in SUBSET S |-> IF D = {} THEN base
                            ELSE f[CHOOSE x \in D : TRUE] + g[D \ {CHOOSE x \in D : TRUE}]]

SumOver(S, f, base) == (CHOOSE g : IsSum(g, S, f, base))[S]

-----------------------------------------------------------------------------
(* Every set of natural numbers but the empty one has a least element. *)
LEMMA LeastNumber ==
    ASSUME NEW S \in SUBSET Nat, S # {}
    PROVE  \E n \in S : \A m \in S : ~(m < n)
<1>1. \E n \in S : \A m \in S : ~(<<m, n>> \in OpToRel(<, Nat))
  <2>1. IsWellFoundedOn(OpToRel(<, Nat), Nat)
    BY NatLessThanWellFounded
  <2> QED
    BY <2>1, WFMin, Zenon
<1>2. \A m, n \in Nat : m < n => <<m, n>> \in OpToRel(<, Nat)
  <2> SUFFICES ASSUME NEW m \in Nat, NEW n \in Nat, m < n
               PROVE  <<m, n>> \in OpToRel(<, Nat)
    OBVIOUS
  <2>1. <<m, n>> \in {s \in Nat \X Nat : s[1] < s[2]}
    OBVIOUS
  <2> QED
    BY <2>1 DEF OpToRel
<1> QED
  BY <1>1, <1>2, Zenon

(* Of the finite sets with a property, one has no smaller one. *)
LEMMA LeastSet ==
    ASSUME NEW F, F # {}, \A D \in F : IsFiniteSet(D)
    PROVE  \E D \in F : \A C \in F : ~(Cardinality(C) < Cardinality(D))
<1> DEFINE sizes == {Cardinality(D) : D \in F}
<1>1. sizes \in SUBSET Nat /\ sizes # {}
  BY FS_CardinalityType
<1>2. PICK n \in sizes : \A m \in sizes : ~(m < n)
  BY <1>1, LeastNumber
<1> QED
  BY <1>2

-----------------------------------------------------------------------------
LEMMA AnyRest ==
    ASSUME NEW S, IsFiniteSet(S), NEW D \in SUBSET S, D # {}
    PROVE  /\ AnyOf(D) \in D /\ D \ {AnyOf(D)} \in SUBSET S
           /\ IsFiniteSet(D) /\ Cardinality(D) \in Nat /\ Cardinality(D) > 0
           /\ Cardinality(D \ {AnyOf(D)}) = Cardinality(D) - 1
<1>1. AnyOf(D) \in D
  BY DEF AnyOf
<1>2. IsFiniteSet(D)
  BY FS_Subset
<1>3. Cardinality(D) \in Nat
  BY <1>2, FS_CardinalityType
<1>4. Cardinality(D) # 0
  BY <1>2, FS_EmptySet
<1>5. Cardinality(D \ {AnyOf(D)}) = Cardinality(D) - 1
  BY <1>1, <1>2, FS_RemoveElement
<1> QED
  BY <1>1, <1>2, <1>3, <1>4, <1>5

(* There is such a function: of the sizes up to which there is none, take  *)
(* the least.                                                              *)
LEMMA SumExists ==
    ASSUME NEW S, IsFiniteSet(S), NEW f \in [S -> Int], NEW base \in Int
    PROVE  \E g : IsSum(g, S, f, base)
<1> DEFINE Upto(n, g) == \A D \in SUBSET S : Cardinality(D) <= n =>
                            g[D] = IF D = {} THEN base ELSE f[AnyOf(D)] + g[D \ {AnyOf(D)}]
           Bad == {n \in Nat : ~ \E g \in [SUBSET S -> Int] : Upto(n, g)}
<1>0. \A D \in SUBSET S : IsFiniteSet(D) /\ Cardinality(D) \in Nat /\ Cardinality(D) <= Cardinality(S)
  BY FS_Subset, FS_CardinalityType
<1>1. Bad = {}
  <2> SUFFICES ASSUME Bad # {} PROVE FALSE
    OBVIOUS
  <2>1. PICK n \in Bad : \A m \in Bad : ~(m < n)
    BY LeastNumber
  <2>2. n # 0
    <3> DEFINE g == [D \in SUBSET S |-> base]
    <3>1. \A D \in SUBSET S : Cardinality(D) <= 0 => D = {}
      BY <1>0, FS_EmptySet
    <3>2. g \in [SUBSET S -> Int] /\ Upto(0, g)
      BY <3>1
    <3> QED
      BY <3>2
  <2>3. PICK g \in [SUBSET S -> Int] : Upto(n - 1, g)
    <3>1. n - 1 \in Nat /\ n - 1 < n
      BY <2>2
    <3>2. n - 1 \notin Bad
      BY <2>1, <3>1
    <3> QED
      BY <3>1, <3>2
  <2> DEFINE h == [D \in SUBSET S |-> IF Cardinality(D) < n THEN g[D]
                                      ELSE IF D = {} THEN base
                                      ELSE f[AnyOf(D)] + g[D \ {AnyOf(D)}]]
  <2>4. h \in [SUBSET S -> Int]
    <3>1. \A D \in SUBSET S : D # {} => AnyOf(D) \in S /\ D \ {AnyOf(D)} \in SUBSET S
      BY AnyRest
    <3> QED
      BY <3>1
  <2>5. Upto(n, h)
    <3> SUFFICES ASSUME NEW D \in SUBSET S, Cardinality(D) <= n
                 PROVE  h[D] = IF D = {} THEN base ELSE f[AnyOf(D)] + h[D \ {AnyOf(D)}]
      OBVIOUS
    <3>1. CASE D = {}
      <4>1. Cardinality(D) < n
        BY <2>1, <2>2, <3>1, FS_EmptySet
      <4>2. h[D] = g[D] /\ Cardinality(D) <= n - 1
        BY <1>0, <2>1, <4>1
      <4> QED
        BY <2>3, <3>1, <4>2
    <3>2. CASE D # {}
      <4>1. D \ {AnyOf(D)} \in SUBSET S /\ Cardinality(D \ {AnyOf(D)}) < n
        BY <2>1, <3>2, AnyRest
      <4>2. h[D \ {AnyOf(D)}] = g[D \ {AnyOf(D)}]
        BY <4>1
      <4>3. h[D] = f[AnyOf(D)] + g[D \ {AnyOf(D)}]
        <5>1. CASE Cardinality(D) < n
          <6>1. Cardinality(D) <= n - 1
            BY <1>0, <2>1, <5>1
          <6> QED
            BY <2>3, <3>2, <5>1, <6>1
        <5>2. CASE ~(Cardinality(D) < n)
          BY <3>2, <5>2
        <5> QED
          BY <5>1, <5>2
      <4> QED
        BY <3>2, <4>2, <4>3
    <3> QED
      BY <3>1, <3>2
  <2> QED
    BY <2>1, <2>4, <2>5
<1>2. Cardinality(S) \in Nat
  BY FS_CardinalityType
<1>3. PICK g \in [SUBSET S -> Int] : Upto(Cardinality(S), g)
  BY <1>1, <1>2
<1>4. IsSum(g, S, f, base)
  BY <1>0, <1>3 DEF IsSum, AnyOf
<1> QED
  BY <1>4

LEMMA SumType ==
    ASSUME NEW S, IsFiniteSet(S), NEW f \in [S -> Int], NEW base \in Int,
           NEW g, IsSum(g, S, f, base), NEW D \in SUBSET S
    PROVE  g[D] \in Int
<1>e. g[{}] = base
  BY DEF IsSum
<1>s. \A C \in SUBSET S : C # {} => g[C] = f[AnyOf(C)] + g[C \ {AnyOf(C)}]
  BY DEF IsSum, AnyOf
<1> DEFINE Bad == {C \in SUBSET S : g[C] \notin Int}
<1> SUFFICES ASSUME Bad # {} PROVE FALSE
  OBVIOUS
<1>1. \A C \in Bad : IsFiniteSet(C)
  BY FS_Subset
<1>2. PICK C \in Bad : \A B \in Bad : ~(Cardinality(B) < Cardinality(C))
  <2> HIDE DEF Bad
  <2> QED
    BY <1>1, LeastSet
<1>3. C # {}
  BY <1>e
<1>4. C \ {AnyOf(C)} \notin Bad /\ AnyOf(C) \in S
  BY <1>2, <1>3, AnyRest
<1>5. g[C \ {AnyOf(C)}] \in Int /\ f[AnyOf(C)] \in Int
  BY <1>3, <1>4, AnyRest
<1>6. g[C] = f[AnyOf(C)] + g[C \ {AnyOf(C)}]
  BY <1>s, <1>3
<1>7. g[C] \in Int
  BY <1>5, <1>6
<1> QED
  BY <1>7

(* The order in which members are taken does not matter. *)
LEMMA SumRemove ==
    ASSUME NEW S, IsFiniteSet(S), NEW f \in [S -> Int], NEW base \in Int,
           NEW g, IsSum(g, S, f, base), NEW D \in SUBSET S, NEW x \in D
    PROVE  g[D] = f[x] + g[D \ {x}]
<1>e. g[{}] = base
  BY DEF IsSum
<1>s. \A C \in SUBSET S : C # {} => g[C] = f[AnyOf(C)] + g[C \ {AnyOf(C)}]
  BY DEF IsSum, AnyOf
<1> DEFINE Bad == {C \in SUBSET S : \E y \in C : g[C] # f[y] + g[C \ {y}]}
<1> SUFFICES ASSUME Bad # {} PROVE FALSE
  OBVIOUS
<1>1. \A C \in Bad : IsFiniteSet(C)
  BY FS_Subset
<1>2. PICK C \in Bad : \A B \in Bad : ~(Cardinality(B) < Cardinality(C))
  <2> HIDE DEF Bad
  <2> QED
    BY <1>1, LeastSet
<1>3. PICK y \in C : g[C] # f[y] + g[C \ {y}]
  OBVIOUS
<1> DEFINE z == AnyOf(C)
<1>4. /\ z \in C /\ C \in SUBSET S /\ g[C] = f[z] + g[C \ {z}]
      /\ C \ {z} \in SUBSET S /\ Cardinality(C \ {z}) < Cardinality(C)
  <2>1. C \in SUBSET S /\ C # {}
    BY <1>3
  <2>2. z \in C /\ C \ {z} \in SUBSET S /\ Cardinality(C \ {z}) < Cardinality(C)
    BY <2>1, AnyRest
  <2>3. g[C] = f[z] + g[C \ {z}]
    BY <1>s, <2>1
  <2> QED
    BY <2>1, <2>2, <2>3
<1>5. y # z
  BY <1>3, <1>4
<1>6. /\ C \ {y} \in SUBSET S /\ Cardinality(C \ {y}) < Cardinality(C)
  BY <1>4, FS_RemoveElement, FS_CardinalityType, FS_Subset
<1> HIDE DEF z
<1>7. g[C \ {z}] = f[y] + g[(C \ {z}) \ {y}]
  BY <1>2, <1>4, <1>5
<1>8. g[C \ {y}] = f[z] + g[(C \ {y}) \ {z}]
  BY <1>2, <1>4, <1>5, <1>6
<1>9. (C \ {z}) \ {y} = (C \ {y}) \ {z}
  OBVIOUS
<1>10. f[y] \in Int /\ f[z] \in Int /\ g[(C \ {y}) \ {z}] \in Int
  BY <1>4, SumType
<1>11. g[C] = f[z] + (f[y] + g[(C \ {y}) \ {z}])
  BY <1>4, <1>7, <1>9
<1>12. f[z] + (f[y] + g[(C \ {y}) \ {z}]) = f[y] + (f[z] + g[(C \ {y}) \ {z}])
  BY <1>10
<1> HIDE DEF Bad
<1> QED
  BY <1>3, <1>8, <1>11, <1>12

(* Where two functions agree, their sums differ by their bases. *)
LEMMA SumAgree ==
    ASSUME NEW S, IsFiniteSet(S), NEW f \in [S -> Int], NEW base \in Int,
           NEW e \in [S -> Int], NEW start \in Int,
           NEW g, IsSum(g, S, f, base), NEW h, IsSum(h, S, e, start),
           NEW D \in SUBSET S, \A x \in D : e[x] = f[x]
    PROVE  h[D] - start = g[D] - base
<1>e. g[{}] = base /\ h[{}] = start
  BY DEF IsSum
<1>s. \A C \in SUBSET S : C # {} => /\ g[C] = f[AnyOf(C)] + g[C \ {AnyOf(C)}]
                                   /\ h[C] = e[AnyOf(C)] + h[C \ {AnyOf(C)}]
  <2> TAKE C \in SUBSET S
  <2> HAVE C # {}
  <2>1. g[C] = f[AnyOf(C)] + g[C \ {AnyOf(C)}]
    BY DEF IsSum, AnyOf
  <2>2. h[C] = e[AnyOf(C)] + h[C \ {AnyOf(C)}]
    BY DEF IsSum, AnyOf
  <2> QED
    BY <2>1, <2>2
<1> DEFINE Bad == {C \in SUBSET D : h[C] - start # g[C] - base}
<1> SUFFICES ASSUME Bad # {} PROVE FALSE
  OBVIOUS
<1>1. \A C \in Bad : IsFiniteSet(C)
  BY FS_Subset
<1>2. PICK C \in Bad : \A B \in Bad : ~(Cardinality(B) < Cardinality(C))
  <2> HIDE DEF Bad
  <2> QED
    BY <1>1, LeastSet
<1>3. C # {} /\ C \in SUBSET S
  BY <1>e
<1> DEFINE z == AnyOf(C)
<1>4. z \in C /\ z \in D /\ C \ {z} \in SUBSET D /\ Cardinality(C \ {z}) < Cardinality(C)
  <2>1. z \in C /\ Cardinality(C) \in Nat /\ Cardinality(C \ {z}) = Cardinality(C) - 1
    BY <1>3, AnyRest
  <2>2. C \in SUBSET D
    OBVIOUS
  <2> HIDE DEF z, Bad
  <2> QED
    BY <2>1, <2>2
<1>5. g[C] = f[z] + g[C \ {z}] /\ h[C] = e[z] + h[C \ {z}]
  BY <1>s, <1>3
<1> HIDE DEF z
<1>6. h[C \ {z}] - start = g[C \ {z}] - base
  BY <1>2, <1>4
<1>7. f[z] \in Int /\ e[z] = f[z] /\ h[C \ {z}] \in Int /\ g[C \ {z}] \in Int
  BY <1>3, <1>4, SumType
<1> QED
  BY <1>2, <1>5, <1>6, <1>7

(* A sum of natural numbers is no less than its base and any of them. *)
LEMMA SumBound ==
    ASSUME NEW S, IsFiniteSet(S), NEW f \in [S -> Int], NEW base \in Int,
           NEW g, IsSum(g, S, f, base), \A x \in S : f[x] >= 0, NEW D \in SUBSET S
    PROVE  g[D] >= base /\ \A x \in D : g[D] >= base + f[x]
<1>e. g[{}] = base
  BY DEF IsSum
<1>s. \A C \in SUBSET S : C # {} => g[C] = f[AnyOf(C)] + g[C \ {AnyOf(C)}]
  BY DEF IsSum, AnyOf
<1>1. \A C \in SUBSET S : g[C] >= base /\ g[C] \in Int
  <2> DEFINE Bad == {C \in SUBSET S : ~(g[C] >= base)}
  <2> SUFFICES ASSUME Bad # {} PROVE FALSE
    BY SumType
  <2>1. \A C \in Bad : IsFiniteSet(C)
    BY FS_Subset
  <2>2. PICK C \in Bad : \A B \in Bad : ~(Cardinality(B) < Cardinality(C))
    <3> HIDE DEF Bad
    <3> QED
      BY <2>1, LeastSet
  <2>3. C \in SUBSET S /\ ~(g[C] >= base)
    OBVIOUS
  <2>4. C # {}
    BY <1>e, <2>3
  <2> DEFINE z == AnyOf(C)
  <2>5. z \in S /\ C \ {z} \in SUBSET S /\ Cardinality(C \ {z}) < Cardinality(C)
    BY <2>3, <2>4, AnyRest
  <2>6. g[C] = f[z] + g[C \ {z}]
    BY <1>s, <2>3, <2>4
  <2> HIDE DEF z
  <2>7. g[C \ {z}] >= base /\ g[C \ {z}] \in Int
    BY <2>2, <2>5, SumType
  <2>8. f[z] \in Int /\ f[z] >= 0
    BY <2>5
  <2> QED
    BY <2>3, <2>6, <2>7, <2>8
<1>2. \A x \in D : g[D] >= base + f[x]
  <2> TAKE x \in D
  <2>1. g[D] = f[x] + g[D \ {x}]
    BY SumRemove
  <2>2. g[D \ {x}] >= base /\ g[D \ {x}] \in Int
    BY <1>1
  <2> QED
    BY <2>1, <2>2
<1> QED
  BY <1>1, <1>2

LEMMA SumChosen ==
    ASSUME NEW S, IsFiniteSet(S), NEW f \in [S -> Int], NEW base \in Int
    PROVE  \E g : IsSum(g, S, f, base) /\ SumOver(S, f, base) = g[S]
<1> DEFINE g == CHOOSE g : IsSum(g, S, f, base)
<1>1. IsSum(g, S, f, base)
  BY SumExists
<1> QED
  BY <1>1 DEF SumOver

LEMMA SumRebased ==
    ASSUME NEW S, IsFiniteSet(S), NEW f \in [S -> Nat], NEW base \in Nat, NEW start \in Nat
    PROVE  SumOver(S, f, start) = SumOver(S, f, base) - base + start
<1>0. f \in [S -> Int] /\ base \in Int /\ start \in Int
  OBVIOUS
<1>1. PICK g : IsSum(g, S, f, base) /\ SumOver(S, f, base) = g[S]
  BY <1>0, SumChosen
<1>2. PICK h : IsSum(h, S, f, start) /\ SumOver(S, f, start) = h[S]
  BY <1>0, SumChosen
<1> QED
  BY <1>0, <1>1, <1>2, SumAgree, SumType

LEMMA SumExcept ==
    ASSUME NEW S, IsFiniteSet(S), NEW f \in [S -> Nat], NEW e \in [S -> Nat], NEW base \in Nat,
           NEW x \in S, \A y \in S \ {x} : e[y] = f[y]
    PROVE  SumOver(S, e, base) = SumOver(S, f, base) - f[x] + e[x]
<1>0. /\ f \in [S -> Int] /\ base \in Int /\ e \in [S -> Int]
      /\ S \ {x} \in SUBSET S /\ S \in SUBSET S
  OBVIOUS
<1>1. PICK g : IsSum(g, S, f, base) /\ SumOver(S, f, base) = g[S]
  BY <1>0, SumChosen
<1>2. PICK h : IsSum(h, S, e, base) /\ SumOver(S, e, base) = h[S]
  BY <1>0, SumChosen
<1>3. h[S \ {x}] - base = g[S \ {x}] - base
  BY <1>0, <1>1, <1>2, SumAgree
<1>4. h[S \ {x}] \in Int /\ g[S \ {x}] \in Int
  BY <1>0, <1>1, <1>2, SumType
<1>5. h[S] = e[x] + h[S \ {x}] /\ g[S] = f[x] + g[S \ {x}]
  BY <1>0, <1>1, <1>2, SumRemove
<1>6. e[x] \in Int /\ f[x] \in Int
  OBVIOUS
<1> QED
  BY <1>0, <1>1, <1>2, <1>3, <1>4, <1>5, <1>6

LEMMA SumIsBound ==
    ASSUME NEW S, IsFiniteSet(S), NEW f \in [S -> Nat], NEW base \in Nat
    PROVE  /\ SumOver(S, f, base) \in Nat /\ SumOver(S, f, base) >= base
           /\ \A x \in S : SumOver(S, f, base) >= base + f[x]
<1>0. f \in [S -> Int] /\ base \in Int /\ S \in SUBSET S /\ \A x \in S : f[x] >= 0
  OBVIOUS
<1>1. PICK g : IsSum(g, S, f, base) /\ SumOver(S, f, base) = g[S]
  BY <1>0, SumChosen
<1>2. g[S] \in Int
  BY <1>0, <1>1, SumType
<1>3. g[S] >= base /\ \A x \in S : g[S] >= base + f[x]
  BY <1>0, <1>1, SumBound
<1> QED
  BY <1>1, <1>2, <1>3

(* A sum is no more than one of larger summands. *)
LEMMA SumBelow ==
    ASSUME NEW S, IsFiniteSet(S), NEW f \in [S -> Nat], NEW e \in [S -> Nat], NEW base \in Nat,
           \A x \in S : e[x] <= f[x]
    PROVE  SumOver(S, e, base) <= SumOver(S, f, base)
<1>0. f \in [S -> Int] /\ e \in [S -> Int] /\ base \in Int
  OBVIOUS
<1>1. PICK g : IsSum(g, S, f, base) /\ SumOver(S, f, base) = g[S]
  BY <1>0, SumChosen
<1>2. PICK h : IsSum(h, S, e, base) /\ SumOver(S, e, base) = h[S]
  BY <1>0, SumChosen
<1>e. g[{}] = base /\ h[{}] = base
  BY <1>1, <1>2 DEF IsSum
<1>s. \A C \in SUBSET S : C # {} => /\ g[C] = f[AnyOf(C)] + g[C \ {AnyOf(C)}]
                                   /\ h[C] = e[AnyOf(C)] + h[C \ {AnyOf(C)}]
  <2> TAKE C \in SUBSET S
  <2> HAVE C # {}
  <2>1. g[C] = f[AnyOf(C)] + g[C \ {AnyOf(C)}]
    BY <1>1 DEF IsSum, AnyOf
  <2>2. h[C] = e[AnyOf(C)] + h[C \ {AnyOf(C)}]
    BY <1>2 DEF IsSum, AnyOf
  <2> QED
    BY <2>1, <2>2
<1> DEFINE Bad == {C \in SUBSET S : ~(h[C] <= g[C])}
<1>3. Bad = {}
  <2> SUFFICES ASSUME Bad # {} PROVE FALSE
    OBVIOUS
  <2>1. \A C \in Bad : IsFiniteSet(C)
    BY FS_Subset
  <2>2. PICK C \in Bad : \A B \in Bad : ~(Cardinality(B) < Cardinality(C))
    <3> HIDE DEF Bad
    <3> QED
      BY <2>1, LeastSet
  <2>3. C \in SUBSET S /\ ~(h[C] <= g[C])
    OBVIOUS
  <2>4. C # {}
    BY <1>0, <1>e, <2>3
  <2> DEFINE z == AnyOf(C)
  <2>5. z \in S /\ C \ {z} \in SUBSET S /\ Cardinality(C \ {z}) < Cardinality(C)
    BY <2>3, <2>4, AnyRest
  <2>6. g[C] = f[z] + g[C \ {z}] /\ h[C] = e[z] + h[C \ {z}]
    BY <1>s, <2>3, <2>4
  <2> HIDE DEF z
  <2>7. h[C \ {z}] <= g[C \ {z}]
    BY <2>2, <2>5
  <2>8. g[C \ {z}] \in Int /\ h[C \ {z}] \in Int
    BY <1>0, <1>1, <1>2, <2>5, SumType
  <2>9. f[z] \in Nat /\ e[z] \in Nat /\ e[z] <= f[z]
    BY <2>5
  <2> QED
    BY <2>3, <2>6, <2>7, <2>8, <2>9
<1>4. S \in SUBSET S /\ S \notin Bad
  BY <1>3
<1> QED
  BY <1>1, <1>2, <1>4

LEMMA SumOfZeros ==
    ASSUME NEW S, IsFiniteSet(S), NEW f \in [S -> Nat], NEW base \in Nat, \A x \in S : f[x] = 0
    PROVE  SumOver(S, f, base) = base
<1>0. f \in [S -> Int] /\ base \in Int /\ S \in SUBSET S
  OBVIOUS
<1>1. PICK g : IsSum(g, S, f, base) /\ SumOver(S, f, base) = g[S]
  BY <1>0, SumChosen
<1> DEFINE h == [D \in SUBSET S |-> base]
<1>2. IsSum(h, S, f, base)
  <2>1. \A D \in SUBSET S : D # {} => /\ (CHOOSE x \in D : TRUE) \in S
                                      /\ D \ {CHOOSE x \in D : TRUE} \in SUBSET S
    OBVIOUS
  <2> QED
    BY <2>1 DEF IsSum
<1>3. h[S] = base
  OBVIOUS
<1> HIDE DEF h
<1>4. g[S] - base = h[S] - base
  BY <1>0, <1>1, <1>2, SumAgree
<1>5. g[S] \in Int
  BY <1>0, <1>1, SumType
<1> QED
  BY <1>1, <1>3, <1>4, <1>5

-----------------------------------------------------------------------------
(* The projection of a checkpoint *)

Sizes(s) == [p \in Paths |-> s.nodes[p].bytes]

LEMMA BytesAreSum ==
    ASSUME NEW s
    PROVE  DataBytes(s) = SumOver(Paths, Sizes(s), ResultBytes(s))
<1> DEFINE b == ResultBytes(s)
           f == Sizes(s)
           Folds(g) ==
    g = [D \in SUBSET Paths |-> IF D = {} THEN b
                            ELSE s.nodes[CHOOSE x \in D : TRUE].bytes + g[D \ {CHOOSE x \in D : TRUE}]]
<1>1. \A g : Folds(g) <=> IsSum(g, Paths, f, b)
  <2>1. \A D \in SUBSET Paths : D # {} =>
            s.nodes[CHOOSE x \in D : TRUE].bytes = f[CHOOSE x \in D : TRUE]
    <3>1. \A D \in SUBSET Paths : D # {} => (CHOOSE x \in D : TRUE) \in Paths
      OBVIOUS
    <3> QED
      BY <3>1 DEF Sizes
  <2> HIDE DEF f, b
  <2> QED
    BY <2>1 DEF IsSum
<1>2. (CHOOSE g : Folds(g)) = CHOOSE g : IsSum(g, Paths, f, b)
  <2> HIDE DEF Folds, f, b
  <2> QED
    BY <1>1
<1>3. DataBytes(s) = (CHOOSE g : Folds(g))[Paths]
  BY Zenon DEF DataBytes, MapThenFoldSet
<1> QED
  BY <1>2, <1>3 DEF SumOver

LEMMA BytesTyped ==
    ASSUME NEW s \in Snapshot
    PROVE  /\ IsFiniteSet(Paths) /\ Sizes(s) \in [Paths -> Nat] /\ ResultBytes(s) \in Nat
           /\ DataBytes(s) \in Nat /\ DataBytes(s) >= ResultBytes(s)
           /\ \A p \in Paths : DataBytes(s) >= ResultBytes(s) + s.nodes[p].bytes
<1>1. IsFiniteSet(Paths)
  BY SnapshotsAssumption
<1>2. Sizes(s) \in [Paths -> Nat] /\ \A p \in Paths : Sizes(s)[p] = s.nodes[p].bytes
  BY SnapshotFields DEF Sizes, Record
<1>3. ResultBytes(s) \in Nat
  <2>1. IsFiniteSet({p \in Paths : s.waits[p] # "none"})
    BY <1>1, FS_Subset
  <2>2. Cardinality({p \in Paths : s.waits[p] # "none"}) \in Nat
    BY <2>1, FS_CardinalityType
  <2>3. Len(s.audit) \in Nat /\ s.result \in Nat
    BY SnapshotFields
  <2> QED
    BY <2>2, <2>3 DEF ResultBytes
<1>4. /\ DataBytes(s) \in Nat /\ DataBytes(s) >= ResultBytes(s)
      /\ \A p \in Paths : DataBytes(s) >= ResultBytes(s) + Sizes(s)[p]
  BY <1>1, <1>2, <1>3, BytesAreSum, SumIsBound
<1> QED
  BY <1>1, <1>2, <1>3, <1>4

(* A checkpoint with the same records exchanges the bytes of the result. *)
LEMMA BytesRebased ==
    ASSUME NEW s \in Snapshot, NEW t \in Snapshot, t.nodes = s.nodes
    PROVE  DataBytes(t) = DataBytes(s) - ResultBytes(s) + ResultBytes(t)
<1>1. Sizes(t) = Sizes(s)
  BY DEF Sizes
<1>2. /\ IsFiniteSet(Paths) /\ Sizes(s) \in [Paths -> Nat]
      /\ ResultBytes(s) \in Nat /\ ResultBytes(t) \in Nat
  BY BytesTyped
<1> QED
  BY <1>1, <1>2, BytesAreSum, SumRebased

(* A record replaced exchanges its own. *)
LEMMA BytesReplaced ==
    ASSUME NEW s \in Snapshot, NEW p \in Paths, NEW rec \in Record
    PROVE  DataBytes(Replaced(s, p, rec)) = DataBytes(s) - s.nodes[p].bytes + rec.bytes
<1> DEFINE t == Replaced(s, p, rec)
<1>1. /\ t \in Snapshot /\ t.audit = s.audit /\ t.waits = s.waits /\ t.result = s.result
      /\ t.nodes = [s.nodes EXCEPT ![p] = rec]
  BY ReplacedFields
<1>2. s.nodes \in [Paths -> Record]
  BY SnapshotFields
<1> HIDE DEF t
<1>3. /\ Sizes(t) \in [Paths -> Nat] /\ Sizes(t)[p] = rec.bytes
      /\ Sizes(s)[p] = s.nodes[p].bytes
      /\ \A q \in Paths \ {p} : Sizes(t)[q] = Sizes(s)[q]
  BY <1>1, <1>2 DEF Sizes, Record
<1>4. ResultBytes(t) = ResultBytes(s)
  BY <1>1 DEF ResultBytes
<1>5. IsFiniteSet(Paths) /\ Sizes(s) \in [Paths -> Nat] /\ ResultBytes(s) \in Nat
  BY BytesTyped
<1>6. SumOver(Paths, Sizes(t), ResultBytes(s))
         = SumOver(Paths, Sizes(s), ResultBytes(s)) - Sizes(s)[p] + Sizes(t)[p]
  BY <1>3, <1>5, SumExcept
<1>7. DataBytes(t) = DataBytes(s) - s.nodes[p].bytes + rec.bytes
  BY <1>3, <1>4, <1>6, BytesAreSum
<1> QED
  BY <1>7 DEF t

(* The sets the counters count gain or lose the record replaced. *)
LEMMA SetsReplaced ==
    ASSUME NEW s \in Snapshot, NEW p \in Paths, NEW rec \in Record
    PROVE  /\ Present(Replaced(s, p, rec)) = IF rec # Absent THEN Present(s) \cup {p}
                                             ELSE Present(s) \ {p}
           /\ Unresolved(Replaced(s, p, rec)) = IF IsUnresolved(rec) THEN Unresolved(s) \cup {p}
                                                ELSE Unresolved(s) \ {p}
<1>1. Replaced(s, p, rec).nodes = [s.nodes EXCEPT ![p] = rec]
  BY ReplacedFields
<1>2. s.nodes \in [Paths -> Record]
  BY SnapshotFields
<1> QED
  BY <1>1, <1>2 DEF Present, Unresolved

LEMMA CountWith ==
    ASSUME NEW S \in SUBSET Paths, NEW p \in Paths
    PROVE  /\ Cardinality(S) \in Nat
           /\ Cardinality(S \cup {p}) = Cardinality(S) + (IF p \in S THEN 0 ELSE 1)
           /\ Cardinality(S \ {p}) = Cardinality(S) - (IF p \in S THEN 1 ELSE 0)
<1>1. IsFiniteSet(S) /\ Cardinality(S) \in Nat
  BY FS_Subset, FS_CardinalityType, SnapshotsAssumption
<1>2. CASE p \in S
  <2>1. S \cup {p} = S
    BY <1>2
  <2>2. Cardinality(S \ {p}) = Cardinality(S) - 1
    BY <1>1, <1>2, FS_RemoveElement
  <2> QED
    BY <1>1, <1>2, <2>1, <2>2
<1>3. CASE p \notin S
  <2>1. S \ {p} = S
    BY <1>3
  <2>2. Cardinality(S \cup {p}) = Cardinality(S) + 1
    BY <1>1, <1>3, FS_AddElement
  <2> QED
    BY <1>1, <1>3, <2>1, <2>2
<1> QED
  BY <1>2, <1>3

(* How the whole projection moves with one record. *)
LEMMA HeadReplaced ==
    ASSUME NEW s \in Snapshot, NEW p \in Paths, NEW rec \in Record, rec # Absent
    PROVE  LET bit(b) == IF b THEN 1 ELSE 0 IN
           HeadOf(Replaced(s, p, rec)) =
              [HeadOf(s) EXCEPT !.revision = @ + 1,
                  !.count = @ + bit(s.nodes[p] = Absent),
                  !.bytes = @ - s.nodes[p].bytes + rec.bytes,
                  !.unresolved = @ - bit(IsUnresolved(s.nodes[p])) + bit(IsUnresolved(rec))]
<1> DEFINE t == Replaced(s, p, rec)
           bit(b) == IF b THEN 1 ELSE 0
<1>1. /\ t.revision = s.revision + 1 /\ t.state = s.state /\ t.cancel = s.cancel
      /\ t.waits = s.waits
  BY ReplacedFields
<1>2. Wakeup(t) = Wakeup(s)
  BY <1>1 DEF Wakeup
<1>3. DataBytes(t) = DataBytes(s) - s.nodes[p].bytes + rec.bytes
  BY BytesReplaced
<1>4. Present(s) \in SUBSET Paths /\ Unresolved(s) \in SUBSET Paths
  BY DEF Present, Unresolved
<1>5. Cardinality(Present(t)) = Cardinality(Present(s)) + bit(s.nodes[p] = Absent)
  <2>1. Present(t) = Present(s) \cup {p}
    BY SetsReplaced
  <2>2. p \in Present(s) <=> s.nodes[p] # Absent
    BY DEF Present
  <2> QED
    BY <1>4, <2>1, <2>2, CountWith
<1>6. Cardinality(Unresolved(t)) = Cardinality(Unresolved(s)) - bit(IsUnresolved(s.nodes[p]))
                                   + bit(IsUnresolved(rec))
  <2>1. Unresolved(t) = IF IsUnresolved(rec) THEN Unresolved(s) \cup {p} ELSE Unresolved(s) \ {p}
    BY SetsReplaced
  <2>2. p \in Unresolved(s) <=> IsUnresolved(s.nodes[p])
    BY DEF Unresolved
  <2> DEFINE U == Unresolved(s)
             before == IsUnresolved(s.nodes[p])
             after == IsUnresolved(rec)
  <2>3. /\ Cardinality(U) \in Nat
        /\ Cardinality(U \cup {p}) = Cardinality(U) + (IF p \in U THEN 0 ELSE 1)
        /\ Cardinality(U \ {p}) = Cardinality(U) - (IF p \in U THEN 1 ELSE 0)
    BY <1>4, CountWith
  <2> HIDE DEF t, U, before, after
  <2>4. CASE after
    BY <2>1, <2>2, <2>3, <2>4 DEF U, before, after
  <2>5. CASE ~after
    BY <2>1, <2>2, <2>3, <2>5 DEF U, before, after
  <2> QED
    BY <2>4, <2>5
<1> HIDE DEF t, bit
<1>7. HeadOf(t) = [HeadOf(s) EXCEPT !.revision = @ + 1,
                      !.count = @ + bit(s.nodes[p] = Absent),
                      !.bytes = @ - s.nodes[p].bytes + rec.bytes,
                      !.unresolved = @ - bit(IsUnresolved(s.nodes[p])) + bit(IsUnresolved(rec))]
  <2> DEFINE count == Cardinality(Present(s)) + bit(s.nodes[p] = Absent)
             bytes == DataBytes(s) - s.nodes[p].bytes + rec.bytes
             unresolved == Cardinality(Unresolved(s)) - bit(IsUnresolved(s.nodes[p]))
                           + bit(IsUnresolved(rec))
             moved == [revision |-> s.revision + 1, state |-> s.state, cancel |-> s.cancel,
                       wakeup |-> Wakeup(s), count |-> count, bytes |-> bytes,
                       unresolved |-> unresolved]
  <2>1. HeadOf(t) = moved
    BY <1>1, <1>2, <1>3, <1>5, <1>6 DEF HeadOf
  <2>2. [HeadOf(s) EXCEPT !.revision = s.revision + 1, !.count = count, !.bytes = bytes,
                          !.unresolved = unresolved] = moved
    <3> DEFINE r == s.revision + 1
               before == HeadOf(s)
               one   == [before EXCEPT !.revision = r]
               two   == [one EXCEPT !.count = count]
               three == [two EXCEPT !.bytes = bytes]
               four  == [three EXCEPT !.unresolved = unresolved]
    <3> HIDE DEF r, count, bytes, unresolved
    <3>1. one = [revision |-> r, state |-> s.state, cancel |-> s.cancel, wakeup |-> Wakeup(s),
                 count |-> Cardinality(Present(s)), bytes |-> DataBytes(s),
                 unresolved |-> Cardinality(Unresolved(s))]
      BY DEF HeadOf
    <3> HIDE DEF one
    <3>2. two = [revision |-> r, state |-> s.state, cancel |-> s.cancel, wakeup |-> Wakeup(s),
                 count |-> count, bytes |-> DataBytes(s),
                 unresolved |-> Cardinality(Unresolved(s))]
      BY <3>1
    <3> HIDE DEF two
    <3>3. three = [revision |-> r, state |-> s.state, cancel |-> s.cancel, wakeup |-> Wakeup(s),
                   count |-> count, bytes |-> bytes,
                   unresolved |-> Cardinality(Unresolved(s))]
      BY <3>2
    <3> HIDE DEF three
    <3>4. four = [revision |-> r, state |-> s.state, cancel |-> s.cancel, wakeup |-> Wakeup(s),
                  count |-> count, bytes |-> bytes, unresolved |-> unresolved]
      BY <3>3
    <3>5. [before EXCEPT !.revision = r, !.count = count, !.bytes = bytes,
                         !.unresolved = unresolved] = four
      <4> HIDE DEF before
      <4> QED
        BY DEF one, two, three, four
    <3> HIDE DEF four
    <3> QED
      BY <3>4, <3>5 DEF r
  <2>3. /\ HeadOf(s).revision = s.revision /\ HeadOf(s).count = Cardinality(Present(s))
        /\ HeadOf(s).bytes = DataBytes(s) /\ HeadOf(s).unresolved = Cardinality(Unresolved(s))
    BY DEF HeadOf
  <2> QED
    BY <2>1, <2>2, <2>3
<1> QED
  BY <1>7 DEF t, bit

-----------------------------------------------------------------------------
(* There are rankings of the runs, since runs are finitely many. *)
LEMMA RunsAreRanked ==
    \E f \in [Runs -> 1..Cardinality(Runs)] : \A q, r \in Runs : f[q] = f[r] => q = r
<1> DEFINE n == Cardinality(Runs)
<1>1. PICK f : f \in Bijection(1..n, Runs)
  BY FS_CardinalityType, SnapshotsAssumption DEF ExistsBijection
<1>2. /\ f \in [1..n -> Runs]
      /\ \A r \in Runs : \E i \in 1..n : f[i] = r
  BY <1>1 DEF Bijection, Injection, Surjection
<1> DEFINE g == [r \in Runs |-> CHOOSE i \in 1..n : f[i] = r]
<1>3. \A r \in Runs : g[r] \in 1..n /\ f[g[r]] = r
  BY <1>2
<1>4. g \in [Runs -> 1..n] /\ \A q, r \in Runs : g[q] = g[r] => q = r
  BY <1>3
<1> HIDE DEF g
<1> QED
  BY <1>4
=============================================================================
