---------------------------- MODULE GroupsProofs ----------------------------
(***************************************************************************)
(* Proofs about Groups, for every tree of groups, every concurrency and    *)
(* policy and any number of scopes.                                        *)
(*                                                                         *)
(* The argument: a live future has live groups around it (TreeInv), so a   *)
(* group that is done, or whose process died, has a quiet subtree; what a  *)
(* group holds in memory is tied to its frame and to the children it has   *)
(* collected (BusyInv), which says what it may write when it ends (EndInv) *)
(* and what its record means from then on (SettledInv).  A step belongs to *)
(* the future of one node and starts or takes at most one child; StepKeeps *)
(* shows once that it disturbs nothing elsewhere in the tree, and each     *)
(* action has one lemma for its own node.                                  *)
(***************************************************************************)
EXTENDS Groups, FiniteSetTheorems, TLAPS

Busy == {"admit", "poll", "stop"}     \* a group that may have live children
Joined(n) == rec[n].state \notin {"Pending", "Running", "Unknown"}
Around(n) == Above[n] \ {Run}         \* the groups around a node

(* Every live future is polled by live groups, in a process that runs it. *)
TreeInv(n) ==
    ~At(n, "none") =>
        /\ \A g \in Around(n) : task[g].pc \in Busy
        /\ phase = "ready" /\ available
        /\ head.state \notin {"Blocked", "Succeeded", "Failed", "Cancelled"}

(* What the record and the future of a node may be, by what it is. *)
KindInv(n) ==
    /\ rec[n].state \in {"Failed", "Cancelled"} => rec[n].error # "none"
    /\ n \in Groups => /\ ~rec[n].suspect /\ rec[n].state # "Unknown"
                       /\ task[n].pc \notin {"call", "consume"}
    /\ n \in Calls => /\ task[n].pc \in {"none", "view", "enter", "call", "done"}
                      /\ rec[n].state = "Running" =>
                            At(n, "call") \/ phase # "ready" \/ ~available
    /\ n \in Signals => /\ task[n].pc \in {"none", "view", "enter", "consume", "done"}
                        /\ ~rec[n].suspect /\ rec[n].state \notin {"Running", "Unknown"}
                        /\ wait[n] = "None" => rec[n].state = "Absent" /\ ~At(n, "consume")

(* What the result of a node says of its record. *)
DoneInv(n) ==
    At(n, "done") =>
        /\ task[n].result = "ok" => rec[n].state = "Succeeded"
        /\ task[n].result \in Errors \ {"unknown"} => Joined(n) \/ CancelSeen(n)

FrameInv(g) ==
    /\ frame[g].next <= Len(Children[g])
    /\ frame[g].stopped <=> frame[g].error # "none"

(* No node below a group has a future. *)
Quiet(g) == \A n \in Below[g] : At(n, "none")

(* A group that runs its children: what its variables say of its frame, and *)
(* of the children it has collected.                                        *)
CursorInv(g) ==
    /\ local[g].next <= frame[g].next
    /\ \A i \in DOMAIN Children[g] : i > local[g].next => At(Children[g][i], "none")
    /\ At(g, "poll") => local[g].halted \/ local[g].next >= Total(g) \/ Live(g) # {}
StoppedInv(g) ==
    /\ token[g] = frame[g].stopped
    /\ local[g].halted => local[g].failed # "none"
    /\ local[g].failed \in {"unknown"} \cup IF frame[g].stopped THEN {frame[g].error, "limit"}
                                                                ELSE {"none"}
    /\ At(g, "stop") => task[g].result \in Errors \ {"unknown"}
CollectedInv(g) ==
    \A i \in DOMAIN Children[g] :
        i <= local[g].next /\ At(Children[g][i], "none") =>
            \/ Joined(Children[g][i])
            \/ local[g].suspended \/ local[g].failed # "none"
            \/ head.cancelRequested \/ CancelledAbove(g)
BusyInv(g) == task[g].pc \in Busy => CursorInv(g) /\ StoppedInv(g) /\ CollectedInv(g)

Resolved(g) == \A n \in Below[g] : ~Unresolved(n) /\ (n \in Calls => rec[n].state # "Running")
AllJoined(g) == frame[g].next = Len(Children[g]) /\ \A n \in Kids(g) : Joined(n)

(* A group that has seen its last child. *)
EndInv(g) ==
    /\ task[g].pc \notin {"none", "view", "done"} => ~Settled(rec[g])
    /\ At(g, "save") => ~frame[g].stopped /\ AllJoined(g) /\ Resolved(g)
    /\ At(g, "fail") => /\ task[g].result \in Errors
                        /\ task[g].result # "unknown" => Resolved(g)
                        /\ frame[g].stopped => task[g].result \in {frame[g].error, "limit", "unknown"}

SettledInv(g) ==
    /\ Settled(rec[g]) => Resolved(g)
    /\ rec[g].state = "Succeeded" => AllJoined(g)
    /\ Settled(rec[g]) /\ frame[g].stopped => rec[g].error \in {frame[g].error, "limit"}

IInv ==
    /\ TypeOK
    /\ \A n \in Nodes : TreeInv(n) /\ KindInv(n) /\ DoneInv(n)
    /\ \A g \in Groups : FrameInv(g) /\ BusyInv(g) /\ EndInv(g) /\ SettledInv(g)
    /\ CursorIsAhead /\ StopClosesWaits /\ EndsAccounted

-----------------------------------------------------------------------------
(* The tree of scopes. *)
LEMMA KidsAre ==
    ASSUME NEW g \in Groups
    PROVE  /\ Kids(g) \subseteq Nodes \ {Root}
           /\ \A i \in DOMAIN Children[g] : Children[g][i] \in Kids(g)
           /\ \A c \in Kids(g) : \E i \in DOMAIN Children[g] : c = Children[g][i]
           /\ Children[g] \in Seq(Nodes \ {Root}) /\ DOMAIN Children[g] = 1..Len(Children[g])
           /\ Len(Children[g]) \in Nat
<1>1. Children[g] \in Seq(Nodes \ {Root})
  BY GroupsAssumption
<1> QED
  BY <1>1 DEF Kids, Range

LEMMA OneParent ==
    ASSUME NEW g \in Groups, NEW h \in Groups, NEW c \in Kids(g), c \in Kids(h)
    PROVE  g = h
BY KidsAre, GroupsAssumption

LEMMA BelowClosed ==
    ASSUME NEW g \in Groups
    PROVE  /\ Below[g] \subseteq Nodes /\ Kids(g) \subseteq Below[g]
           /\ \A h \in Groups : h \in Below[g] => Kids(h) \subseteq Below[g]
<1>1. Below[g] = {n \in Nodes : \A S \in SUBSET Nodes :
         Kids(g) \subseteq S /\ (\A h \in Groups \cap S : Kids(h) \subseteq S) => n \in S}
  BY DEF Below
<1>2. \A h \in Groups : Kids(h) \subseteq Nodes
  BY KidsAre
<1> QED
  BY <1>1, <1>2

LEMMA BelowLeast ==
    ASSUME NEW g \in Groups, NEW S \in SUBSET Nodes, Kids(g) \subseteq S,
           \A h \in Groups \cap S : Kids(h) \subseteq S
    PROVE  Below[g] \subseteq S
BY DEF Below

(* What is below a group is below one of its children, or is a child. *)
LEMMA BelowDown ==
    ASSUME NEW g \in Groups, NEW n \in Below[g]
    PROVE  n \in Kids(g) \/ \E c \in Kids(g) \cap Groups : n \in Below[c]
<1> DEFINE S == Kids(g) \cup UNION {Below[c] : c \in Kids(g) \cap Groups}
<1>1. S \in SUBSET Nodes /\ Kids(g) \subseteq S
  BY KidsAre, BelowClosed
<1>2. ASSUME NEW h \in Groups \cap S
      PROVE  Kids(h) \subseteq S
  <2>1. CASE h \in Kids(g)
    BY <2>1, BelowClosed
  <2>2. CASE \E c \in Kids(g) \cap Groups : h \in Below[c]
    BY <2>2, BelowClosed
  <2> QED
    BY <1>2, <2>1, <2>2
<1>3. Below[g] \subseteq S
  <2> HIDE DEF S
  <2> QED
    BY <1>1, <1>2, BelowLeast
<1> QED
  BY <1>3

(* And it is a child of the group, or of a group below it. *)
LEMMA BelowUp ==
    ASSUME NEW g \in Groups, NEW n \in Below[g]
    PROVE  n \in Kids(g) \/ \E h \in Below[g] \cap Groups : n \in Kids(h)
<1> DEFINE S == Kids(g) \cup UNION {Kids(h) : h \in Below[g] \cap Groups}
<1>1. S \in SUBSET Nodes /\ Kids(g) \subseteq S
  BY KidsAre
<1>2. S \subseteq Below[g]
  BY BelowClosed
<1>3. \A h \in Groups \cap S : Kids(h) \subseteq S
  BY <1>2
<1>4. Below[g] \subseteq S
  <2> HIDE DEF S
  <2> QED
    BY <1>1, <1>3, BelowLeast
<1> QED
  BY <1>4

LEMMA BelowTransitive ==
    ASSUME NEW g \in Groups, NEW h \in Groups, h \in Below[g]
    PROVE  Below[h] \subseteq Below[g]
<1>1. Below[g] \in SUBSET Nodes /\ Kids(h) \subseteq Below[g]
      /\ \A k \in Groups \cap Below[g] : Kids(k) \subseteq Below[g]
  BY BelowClosed
<1> QED
  BY <1>1, BelowLeast

(* No group is below itself: the tree hangs on its root. *)
LEMMA BelowAcyclic ==
    ASSUME NEW g \in Groups
    PROVE  g \notin Below[g]
<1> DEFINE S == {n \in Nodes : n \in Groups => n \notin Below[n]}
<1>1. \A h \in Groups : Root \notin Below[h]
  <2> SUFFICES ASSUME NEW h \in Groups, Root \in Below[h] PROVE FALSE
    OBVIOUS
  <2> QED
    BY BelowUp, KidsAre
<1>2. ASSUME NEW h \in Groups, h \notin Below[h], NEW c \in Kids(h), c \in Groups, c \in Below[c]
      PROVE  FALSE
  <2>1. c \in Kids(c) \/ \E k \in Below[c] \cap Groups : c \in Kids(k)
    BY <1>2, BelowUp
  <2>2. c \in Kids(c) => c = h
    BY <1>2, OneParent
  <2>3. c \in Below[h]
    BY BelowClosed
  <2>4. \A k \in Below[c] \cap Groups : c \in Kids(k) => k = h
    BY OneParent
  <2>5. h \in Below[c]
    BY <1>2, <2>1, <2>2, <2>3, <2>4
  <2>6. Below[c] \subseteq Below[h]
    BY <1>2, <2>3, BelowTransitive
  <2> QED
    BY <1>2, <2>5, <2>6
<1>3. Root \in Groups /\ Root \notin Below[Root] /\ Below[Root] = Nodes \ {Root}
  BY <1>1, GroupsAssumption
<1>4. Kids(Root) \subseteq S
  BY <1>2, <1>3, KidsAre
<1>5. \A h \in Groups \cap S : Kids(h) \subseteq S
  BY <1>2, KidsAre
<1>6. S \in SUBSET Nodes
  OBVIOUS
<1> HIDE DEF S
<1>7. Below[Root] \subseteq S
  BY <1>3, <1>4, <1>5, <1>6, BelowLeast
<1>8. g \in Nodes
  BY DEF Nodes
<1> QED
  BY <1>1, <1>3, <1>7, <1>8 DEF S

(* The scopes around a node. *)
LEMMA AboveAre ==
    /\ Root \in Nodes /\ Run \notin Nodes /\ Around(Root) = {} /\ Above[Root] = {Run}
    /\ \A n \in Nodes : /\ Around(n) \subseteq Groups /\ n \notin Around(n)
                        /\ Above[n] = {Run} \cup Around(n) /\ Run \notin Around(n)
                        /\ n # Root => Root \in Around(n)
    /\ \A n \in Nodes, g \in Groups : g \in Around(n) <=> n \in Below[g]
<1>1. Run \notin Nodes /\ Root \in Groups /\ Groups \subseteq Nodes
  BY GroupsAssumption DEF Reserved, Nodes
<1>2. \A n \in Nodes : Above[n] = {Run} \cup {g \in Groups : n \in Below[g]}
  BY DEF Above
<1>3. \A n \in Nodes : Around(n) = {g \in Groups : n \in Below[g]}
  BY <1>1, <1>2 DEF Around
<1>4. \A h \in Groups : Root \notin Below[h]
  <2> SUFFICES ASSUME NEW h \in Groups, Root \in Below[h] PROVE FALSE
    OBVIOUS
  <2> QED
    BY BelowUp, KidsAre
<1>5. \A n \in Nodes : n # Root => n \in Below[Root]
  BY GroupsAssumption
<1> QED
  BY <1>1, <1>2, <1>3, <1>4, <1>5, BelowAcyclic

LEMMA AboveChild ==
    ASSUME NEW g \in Groups, NEW c \in Kids(g)
    PROVE  /\ c \in Nodes /\ c # g /\ c # Root /\ g \in Nodes
           /\ Around(c) = {g} \cup Around(g) /\ Above[c] = {g} \cup Above[g]
<1>1. c \in Nodes /\ c # Root /\ g \in Nodes /\ c \in Below[g]
  BY KidsAre, BelowClosed DEF Nodes
<1>2. \A h \in Groups : g \in Below[h] => c \in Below[h]
  BY BelowClosed
<1>3. ASSUME NEW h \in Groups, c \in Below[h]
      PROVE  h = g \/ g \in Below[h]
  <2>1. c \in Kids(h) \/ \E k \in Below[h] \cap Groups : c \in Kids(k)
    BY <1>3, BelowUp
  <2> QED
    BY <2>1, OneParent
<1>4. Around(c) = {g} \cup Around(g)
  BY <1>1, <1>2, <1>3, AboveAre
<1> QED
  BY <1>1, <1>4, AboveAre

-----------------------------------------------------------------------------
(* A group that does not run its children has no future below it. *)
LEMMA NotBusyIsQuiet ==
    ASSUME IInv, NEW g \in Groups, task[g].pc \notin Busy
    PROVE  Quiet(g)
<1>1. \A n \in Nodes : TreeInv(n)
  BY Zenon DEF IInv
<1>2. \A n \in Below[g] : n \in Nodes /\ g \in Around(n)
  BY AboveAre, BelowClosed
<1> QED
  BY <1>1, <1>2 DEF TreeInv, Quiet

(* What a step of the future of one node, n, does not disturb.  Of the      *)
(* other nodes it may start or collect one, c, a child of n; of the other   *)
(* reservations it may close some.                                          *)
LEMMA StepKeeps ==
    ASSUME IInv, NEW n \in Nodes, ~At(n, "none"), task'[n].pc # "none",
           NEW c \in Nodes,
           \/ c = n
           \/ /\ n \in Groups /\ c \in Kids(n)
              /\ task[n].pc \in Busy /\ task'[n].pc \in Busy
              /\ task[c].pc \in {"none", "done"} /\ task'[c].pc \in {"none", "view"}
              /\ At(c, "none") => \A i \in frame'[n].next + 1..Len(Children[n]) : c # Children[n][i],
           TypeOK', head' = head, phase' = phase, available' = available,
           \A m \in Nodes : m # n => rec'[m] = rec[m],
           \A m \in Nodes : m # n /\ m # c => task'[m] = task[m],
           \A g \in Groups : g # n =>
              frame'[g] = frame[g] /\ local'[g] = local[g] /\ token'[g] = token[g],
           token'[Run] = token[Run],
           \A m \in Signals : m # n => wait'[m] = wait[m] \/ wait'[m] = "Closed",
           n \in Signals => \/ wait'[n] \notin {"Open", "Delivered"}
                            \/ Open(n)
                            \/ \A g \in Around(n) : ~frame[g].stopped,
           n \in Groups =>
              /\ frame'[n].next >= frame[n].next
              /\ frame'[n].stopped =>
                    \/ frame[n].stopped
                    \/ \A m \in Signals : n \in Above[m] => wait'[m] \notin {"Open", "Delivered"}
              /\ task[n].pc \in Busy =>
                    (token[n] => token'[n]) /\ (task'[n].pc \in Busy \/ Quiet(n)),
           KindInv(n)', DoneInv(n)',
           n \in Groups => FrameInv(n)' /\ BusyInv(n)' /\ EndInv(n)' /\ SettledInv(n)'
    PROVE  IInv'
<1>1. TypeOK /\ CursorIsAhead /\ StopClosesWaits /\ EndsAccounted
  BY Zenon DEF IInv
<1>2. \A m \in Nodes : TreeInv(m) /\ KindInv(m) /\ DoneInv(m)
  BY Zenon DEF IInv
<1>3. \A g \in Groups : FrameInv(g) /\ BusyInv(g) /\ EndInv(g) /\ SettledInv(g)
  BY Zenon DEF IInv
<1>4. Groups \subseteq Nodes /\ Signals \subseteq Nodes
  BY DEF Nodes
<1>0. ASSUME c # n
      PROVE  /\ n \in Groups /\ c \in Kids(n)
             /\ task[n].pc \in Busy /\ task'[n].pc \in Busy
             /\ task[c].pc \in {"none", "done"} /\ task'[c].pc \in {"none", "view"}
             /\ At(c, "none") =>
                   \A i \in frame'[n].next + 1..Len(Children[n]) : c # Children[n][i]
  BY <1>0
<1>5. c # n => task[c].pc \notin Busy /\ task'[c].pc \notin Busy
  BY <1>0 DEF Busy
<1>6. \A m \in Nodes : m # c => (At(m, "none") <=> At(m, "none")')
  BY DEF At
(* A group around n is running its children and is not settled. *)
<1>7. \A g \in Groups : n \in Below[g] => task[g].pc \in Busy /\ ~Settled(rec[g]) /\ g # n
  <2>1. \A g \in Around(n) : task[g].pc \in Busy
    BY <1>2 DEF TreeInv
  <2>2. \A g \in Groups : task[g].pc \in Busy => ~Settled(rec[g])
    BY <1>3 DEF EndInv, Busy
  <2> QED
    BY <2>1, <2>2, AboveAre
(* Nothing is live below a group that does not run its children. *)
<1>8. \A g \in Groups : task[g].pc \notin Busy => Quiet(g)
  BY NotBusyIsQuiet
(* The child that n starts or collects is not around another node. *)
<1>9. \A m \in Nodes : ~At(m, "none") => c = n \/ c \notin Around(m)
  BY <1>2, <1>5 DEF TreeInv
<1>10. ASSUME c # n
       PROVE  Around(c) = {n} \cup Around(n) /\ Above[c] = {n} \cup Above[n] /\ c \notin Around(n)
  <2>1. n \in Groups /\ c \in Kids(n)
    BY <1>0, <1>10
  <2> QED
    BY <1>9, <1>10, <2>1, AboveChild
<1>11. ASSUME NEW m \in Nodes
       PROVE  TreeInv(m)'
  <2>1. SUFFICES ASSUME task'[m].pc # "none"
                 PROVE  /\ \A g \in Around(m) : task'[g].pc \in Busy
                        /\ phase = "ready" /\ available
                        /\ head.state \notin {"Blocked", "Succeeded", "Failed", "Cancelled"}
    BY DEF TreeInv, At, Around
  <2>2. phase = "ready" /\ available /\ head.state \notin {"Blocked", "Succeeded", "Failed", "Cancelled"}
    BY <1>2 DEF TreeInv
  <2>3. \A g \in Around(m) : g \in Groups /\ m \in Below[g] /\ g # m
    BY AboveAre
  <2>4. CASE ~At(m, "none")
    <3>1. \A g \in Around(m) : task[g].pc \in Busy /\ (g = c => g = n)
      BY <1>2, <1>5, <2>4 DEF TreeInv
    <3>2. \A g \in Around(m) : g # n => task'[g].pc \in Busy
      BY <1>4, <2>3, <3>1
    <3>3. n \in Around(m) => task'[n].pc \in Busy
      BY <2>3, <2>4, <3>1 DEF Quiet
    <3> QED
      BY <2>2, <3>2, <3>3
  <2>5. CASE At(m, "none")
    <3>1. m = c /\ c # n
      BY <1>6, <2>1, <2>5 DEF At
    <3>2. \A g \in Around(n) : g # n /\ g # c /\ task[g].pc \in Busy /\ g \in Groups
      BY <1>2, <1>10, <3>1, AboveAre DEF TreeInv
    <3>3. \A g \in Around(n) : task'[g].pc \in Busy
      BY <1>4, <3>2
    <3> QED
      BY <1>10, <2>2, <3>1, <3>3
  <2> QED
    BY <2>4, <2>5
<1>12. ASSUME NEW m \in Nodes
       PROVE  KindInv(m)'
  <2>1. CASE m = n
    BY <2>1
  <2>2. CASE m # n /\ m # c
    <3>1. rec'[m] = rec[m] /\ task'[m] = task[m]
      BY <2>2
    <3>2. m \in Signals => (wait'[m] = "None" => wait[m] = "None")
      BY <2>2
    <3>3. KindInv(m)
      BY <1>2
    <3> QED
      BY <3>1, <3>2, <3>3 DEF KindInv, At
  <2>3. CASE m = c /\ c # n
    <3>1. rec'[m] = rec[m]
      BY <2>3
    <3>2. m \in Signals => (wait'[m] = "None" => wait[m] = "None")
      BY <2>3
    <3>3. KindInv(m) /\ task[m].pc \in {"none", "done"} /\ task'[m].pc \in {"none", "view"}
      BY <1>2, <2>3
    <3> QED
      BY <3>1, <3>2, <3>3 DEF KindInv, At
  <2> QED
    BY <2>1, <2>2, <2>3
<1>13. ASSUME NEW m \in Nodes
       PROVE  DoneInv(m)'
  <2>1. CASE m = n
    BY <2>1
  <2>2. CASE m # n /\ m # c
    <3>1. SUFFICES ASSUME At(m, "done") PROVE DoneInv(m)'
      BY <2>2 DEF DoneInv, At
    <3>2. CancelSeen(m) => CancelSeen(m)'
      <4>1. \A s \in Above[m] : s = Run \/ (s \in Groups /\ m \in Below[s])
        BY AboveAre
      <4>2. n \in Above[m] => task[n].pc \in Busy
        <5>1. ~At(m, "none")
          BY <3>1 DEF At
        <5>2. n \in Above[m] => n \in Groups /\ m \in Below[n]
          BY <4>1, AboveAre
        <5> QED
          BY <1>8, <5>1, <5>2 DEF Quiet
      <4>3. \A s \in Above[m] : token[s] => token'[s]
        BY <4>1, <4>2, AboveAre
      <4> QED
        BY <4>3 DEF CancelSeen, CancelledAbove
    <3>3. rec'[m] = rec[m] /\ task'[m] = task[m] /\ DoneInv(m)
      BY <1>2, <2>2
    <3> QED
      BY <3>2, <3>3 DEF DoneInv, At, Joined
  <2>3. CASE m = c /\ c # n
    BY <2>3 DEF DoneInv, At
  <2> QED
    BY <2>1, <2>2, <2>3
<1>14. ASSUME NEW g \in Groups
       PROVE  FrameInv(g)'
  BY <1>3 DEF FrameInv
<1>15. ASSUME NEW g \in Groups
       PROVE  BusyInv(g)'
  <2>1. SUFFICES ASSUME g # n, task'[g].pc \in Busy
                 PROVE  CursorInv(g)' /\ StoppedInv(g)' /\ CollectedInv(g)'
    BY DEF BusyInv
  <2>2. g # c
    BY <1>5, <2>1
  <2>3. /\ task'[g] = task[g] /\ frame'[g] = frame[g] /\ local'[g] = local[g]
        /\ token'[g] = token[g] /\ g \in Nodes
    BY <1>4, <2>1, <2>2
  <2>4. CursorInv(g) /\ StoppedInv(g) /\ CollectedInv(g)
    BY <1>3, <2>1, <2>3 DEF BusyInv
  <2>5. c \in Kids(g) => c = n
    BY <2>1, OneParent
  <2>6. \A d \in Kids(g) : d \in Nodes /\ (At(d, "none") <=> At(d, "none")')
    <3>1. At(n, "none") <=> At(n, "none")'
      BY DEF At
    <3> QED
      BY <1>6, <2>5, <3>1, KidsAre
  <2>7. Live(g)' = Live(g)
    BY <2>6 DEF Live
  <2>8. CursorInv(g)'
    BY <2>3, <2>4, <2>6, <2>7, KidsAre DEF CursorInv, At, Total
  <2>9. StoppedInv(g)'
    BY <2>3, <2>4 DEF StoppedInv, At
  <2>10. CancelledAbove(g) => CancelledAbove(g)'
    <3>1. \A s \in Above[g] : s = Run \/ (s \in Groups /\ g \in Below[s])
      BY <1>4, AboveAre
    <3>2. n \in Above[g] => task[n].pc \in Busy
      <4>1. ~At(g, "none")
        BY <2>1, <2>3 DEF At, Busy
      <4>2. n \in Above[g] => n \in Groups /\ g \in Below[n]
        BY <3>1, AboveAre
      <4> QED
        BY <1>8, <4>1, <4>2 DEF Quiet
    <3>3. \A s \in Above[g] : token[s] => token'[s]
      BY <3>1, <3>2, AboveAre
    <3> QED
      BY <3>3 DEF CancelledAbove
  <2>11. CollectedInv(g)'
    <3>1. \A d \in Kids(g) : At(d, "none") => rec'[d] = rec[d]
      BY <2>6
    <3>2. \A i \in DOMAIN Children[g] : Children[g][i] \in Kids(g)
      BY KidsAre
    <3> QED
      BY <2>3, <2>4, <2>6, <2>10, <3>1, <3>2 DEF CollectedInv, Joined
  <2> QED
    BY <2>8, <2>9, <2>11
(* Below a group that is past its children the records stay. *)
<1>16. ASSUME NEW g \in Groups, g # n, n \notin Below[g]
       PROVE  /\ Resolved(g) => Resolved(g)' /\ rec'[g] = rec[g]
              /\ AllJoined(g) => AllJoined(g)' /\ frame'[g] = frame[g]
  <2>1. \A m \in Below[g] : m \in Nodes /\ rec'[m] = rec[m]
    BY <1>16, BelowClosed
  <2>2. Kids(g) \subseteq Below[g]
    BY BelowClosed
  <2>3. rec'[g] = rec[g] /\ frame'[g] = frame[g]
    BY <1>4, <1>16
  <2>4. Resolved(g) => Resolved(g)'
    BY <2>1 DEF Resolved, Unresolved
  <2>5. AllJoined(g) => AllJoined(g)'
    BY <2>1, <2>2, <2>3 DEF AllJoined, Joined
  <2> QED
    BY <2>3, <2>4, <2>5
<1>17. ASSUME NEW g \in Groups
       PROVE  EndInv(g)'
  <2>1. CASE g = n
    BY <2>1
  <2>2. CASE g = c /\ c # n
    BY <2>2 DEF EndInv, At
  <2>3. CASE g # n /\ g # c
    <3>1. task'[g] = task[g] /\ rec'[g] = rec[g] /\ frame'[g] = frame[g] /\ EndInv(g)
      BY <1>3, <1>4, <2>3
    <3>2. CASE n \in Below[g]
      <4>1. task[g].pc \in Busy
        BY <1>7, <3>2
      <4> QED
        BY <3>1, <4>1 DEF EndInv, At, Busy
    <3>3. CASE n \notin Below[g]
      BY <1>16, <2>3, <3>1, <3>3 DEF EndInv, At
    <3> QED
      BY <3>2, <3>3
  <2> QED
    BY <2>1, <2>2, <2>3
<1>18. ASSUME NEW g \in Groups
       PROVE  SettledInv(g)'
  <2>1. CASE g = n
    BY <2>1
  <2>2. CASE g # n /\ n \in Below[g]
    <3>1. rec'[g] = rec[g] /\ ~Settled(rec[g])
      BY <1>4, <1>7, <2>2
    <3> QED
      BY <3>1 DEF SettledInv, Settled
  <2>3. CASE g # n /\ n \notin Below[g]
    <3>1. SettledInv(g)
      BY <1>3
    <3>2. Resolved(g) => Resolved(g)'
      BY <1>16, <2>3
    <3>3. AllJoined(g) => AllJoined(g)'
      BY <1>16, <2>3
    <3>4. rec'[g] = rec[g] /\ frame'[g] = frame[g]
      BY <1>4, <2>3
    <3> QED
      BY <3>1, <3>2, <3>3, <3>4 DEF SettledInv, Settled
  <2> QED
    BY <2>1, <2>2, <2>3
<1>19. CursorIsAhead'
  <2>1. SUFFICES ASSUME NEW g \in Groups, NEW i \in frame'[g].next + 1..Len(Children[g]),
                        NEW m \in Below[g], m = Children[g][i] \/ Children[g][i] \in Above[m]
                 PROVE  rec'[m].state = "Absent" /\ task'[m].pc = "none"
    BY DEF CursorIsAhead, At
  <2>2. i \in frame[g].next + 1..Len(Children[g]) /\ m \in Nodes
    <3>1. frame[g].next \in Nat /\ frame'[g].next \in Nat
      BY <1>1 DEF TypeOK
    <3>2. frame'[g].next >= frame[g].next
      <4>1. CASE g = n
        BY <4>1
      <4>2. CASE g # n
        BY <3>1, <4>2
      <4> QED
        BY <4>1, <4>2
    <3> QED
      BY <3>1, <3>2, BelowClosed, KidsAre
  <2>3. rec[m].state = "Absent" /\ At(m, "none")
    BY <1>1, <2>1, <2>2 DEF CursorIsAhead
  <2>4. m # n
    BY <2>3
  <2>5. rec'[m].state = "Absent"
    BY <2>2, <2>3, <2>4
  <2>6. m # c
    <3>1. SUFFICES ASSUME m = c, c # n PROVE FALSE
      BY <2>4
    <3>2. DEFINE d == Children[g][i]
    <3>3. d \in Kids(g) /\ d \in Nodes
      <4>1. i \in DOMAIN Children[g]
        <5>1. frame[g].next \in Nat
          BY <1>1 DEF TypeOK
        <5> QED
          BY <2>2, <5>1, KidsAre
      <4> QED
        BY <4>1, KidsAre
    <3>4. CASE d = c
      <4>1. g = n
        BY <3>1, <3>3, <3>4, OneParent
      <4> QED
        BY <2>1, <2>3, <3>1, <3>4, <4>1
    <3>5. CASE d = n
      <4>1. n \in Below[g]
        BY <3>3, <3>5, BelowClosed
      <4>2. At(n, "none")
        BY <1>1, <2>2, <3>5, <4>1 DEF CursorIsAhead
      <4> QED
        BY <4>2
    <3>6. CASE d \in Around(n)
      <4>1. n \in Below[d] /\ d \in Groups /\ d \in Above[n]
        BY <3>6, AboveAre
      <4>2. n \in Below[g]
        BY <3>3, <4>1, BelowClosed, BelowTransitive
      <4>3. At(n, "none")
        BY <1>1, <2>2, <4>1, <4>2 DEF CursorIsAhead
      <4> QED
        BY <4>3
    <3>7. d # Run
      BY <3>3, AboveAre
    <3>8. d = c \/ d \in Above[c]
      BY <2>1, <3>1
    <3> QED
      BY <1>10, <3>1, <3>4, <3>5, <3>6, <3>7, <3>8, AboveAre
  <2>7. task'[m] = task[m]
    BY <2>2, <2>4, <2>6
  <2> QED
    BY <2>3, <2>5, <2>7 DEF At
<1>20. StopClosesWaits'
  <2>1. SUFFICES ASSUME NEW g \in Groups, frame'[g].stopped, NEW m \in Signals, g \in Above[m]
                 PROVE  wait'[m] \notin {"Open", "Delivered"}
    BY DEF StopClosesWaits, Open
  <2>2. CASE frame[g].stopped
    <3>1. wait[m] \notin {"Open", "Delivered"}
      BY <1>1, <2>1, <2>2 DEF StopClosesWaits, Open
    <3>2. CASE m = n
      <4>1. g \in Around(n)
        BY <1>4, <2>1, <3>2, AboveAre DEF Around
      <4> QED
        BY <2>1, <2>2, <3>1, <3>2, <4>1 DEF Open
    <3>3. CASE m # n
      BY <3>1, <3>3
    <3> QED
      BY <3>2, <3>3
  <2>3. CASE ~frame[g].stopped
    BY <2>1, <2>3
  <2> QED
    BY <2>2, <2>3
<1>21. EndsAccounted'
  <2>1. ~IsTerminal
    BY <1>2 DEF TreeInv, IsTerminal
  <2> QED
    BY <2>1 DEF EndsAccounted, IsTerminal
<1> QED
  BY <1>11, <1>12, <1>13, <1>14, <1>15, <1>17, <1>18, <1>19, <1>20, <1>21 DEF IInv

(* A step of a node that touches its record, its future and its own         *)
(* reservation only.                                                        *)
LEMMA OwnStepKeeps ==
    ASSUME IInv, NEW n \in Nodes, ~At(n, "none"), task'[n].pc # "none",
           task'[n] \in [pc : Pcs, result : Results], task' = [task EXCEPT ![n] = task'[n]],
           rec'[n] \in Records, rec' = [rec EXCEPT ![n] = rec'[n]],
           wait' \in [Signals -> Waits], \A m \in Signals : m # n => wait'[m] = wait[m],
           frame' = frame, local' = local, token' = token,
           head' = head, phase' = phase, available' = available, cancelling' = cancelling,
           n \in Signals => \/ wait'[n] \notin {"Open", "Delivered"}
                            \/ Open(n)
                            \/ \A g \in Around(n) : ~frame[g].stopped,
           n \in Groups /\ task[n].pc \in Busy => task'[n].pc \in Busy \/ Quiet(n),
           KindInv(n)', DoneInv(n)',
           n \in Groups => BusyInv(n)' /\ EndInv(n)' /\ SettledInv(n)'
    PROVE  IInv'
<1>1. TypeOK
  BY Zenon DEF IInv
<1>2. TypeOK'
  BY <1>1 DEF TypeOK
<1>3. /\ \A m \in Nodes : m # n => rec'[m] = rec[m]
      /\ \A m \in Nodes : m # n /\ m # n => task'[m] = task[m]
  BY <1>1 DEF TypeOK
<1>4. n \in Groups => /\ frame'[n].next >= frame[n].next
                      /\ frame'[n].stopped => frame[n].stopped
                      /\ token[n] => token'[n]
                      /\ FrameInv(n)'
  <2>1. \A g \in Groups : FrameInv(g)
    BY Zenon DEF IInv
  <2> QED
    BY <1>1, <2>1 DEF TypeOK, FrameInv
<1> QED
  BY <1>2, <1>3, <1>4, StepKeeps

(* What the invariant says of a live node. *)
LEMMA LiveFacts ==
    ASSUME IInv, NEW n \in Nodes, ~At(n, "none")
    PROVE  /\ TypeOK /\ TreeInv(n) /\ KindInv(n) /\ DoneInv(n)
           /\ n \in Groups => FrameInv(n) /\ BusyInv(n) /\ EndInv(n) /\ SettledInv(n)
           /\ phase = "ready" /\ available
           /\ head.state \notin {"Blocked", "Succeeded", "Failed", "Cancelled"}
           /\ rec[n] \in Records /\ task[n] \in [pc : Pcs, result : Results]
           /\ n \notin Reserved /\ n \in Errors /\ n \in Results
           /\ n \in Groups => n \notin Calls /\ n \notin Signals
           /\ n \in Calls => n \notin Signals
<1>1. TypeOK /\ TreeInv(n) /\ KindInv(n) /\ DoneInv(n)
  BY Zenon DEF IInv
<1>2. n \in Groups => FrameInv(n) /\ BusyInv(n) /\ EndInv(n) /\ SettledInv(n)
  BY Zenon DEF IInv
<1>3. rec[n] \in Records /\ task[n] \in [pc : Pcs, result : Results]
  BY <1>1 DEF TypeOK
<1>4. /\ n \notin Reserved /\ n \in Errors /\ n \in Results
      /\ n \in Groups => n \notin Calls /\ n \notin Signals
      /\ n \in Calls => n \notin Signals
  BY GroupsAssumption DEF Errors, Results
<1> QED
  BY <1>1, <1>2, <1>3, <1>4 DEF TreeInv

LEMMA ViewKeeps ==
    ASSUME IInv, NEW n \in Nodes, View(n)
    PROVE  IInv'
<1>1. At(n, "view") /\ ~At(n, "none") /\ task[n].pc \notin Busy
  BY DEF View, At, Busy
<1>2. /\ TypeOK /\ KindInv(n) /\ rec[n] \in Records /\ task[n] \in [pc : Pcs, result : Results]
      /\ n \in Groups => EndInv(n) /\ SettledInv(n)
      /\ n \in Errors /\ n \in Results /\ n # "ok" /\ n # "unknown" /\ phase = "ready" /\ available
      /\ n \in Groups => n \notin Calls /\ n \notin Signals
  BY <1>1, LiveFacts DEF Reserved
<1>3. /\ rec' = rec /\ frame' = frame /\ local' = local /\ token' = token /\ wait' = wait
      /\ head' = head /\ UNCHANGED <<phase, available, cancelling>>
  BY DEF View, stored, process
<1>4. \/ Return(n, "ok") /\ rec[n].state = "Succeeded"
      \/ Return(n, "unknown")
      \/ Return(n, rec[n].error) /\ rec[n].state \in {"Failed", "Cancelled"}
      \/ Return(n, "cancelled") /\ CancelSeen(n)
      \/ Return(n, n) /\ rec[n].state = "Absent"
      \/ Goto(n, "enter") /\ ~Settled(rec[n])
  BY DEF View, Settled
<1>12. DOMAIN task = Nodes
  BY <1>2 DEF TypeOK
<1>5. \/ /\ \E result \in Results :
              /\ task' = [task EXCEPT ![n] = [pc |-> "done", result |-> result]]
              /\ result = "ok" => rec[n].state = "Succeeded"
              /\ result \in Errors \ {"unknown"} => Joined(n) \/ CancelSeen(n)
      \/ task' = [task EXCEPT ![n].pc = "enter"] /\ ~Settled(rec[n])
  <2>1. rec[n].state \in {"Failed", "Cancelled"} => rec[n].error \in Errors /\ rec[n].error # "ok"
    <3>1. rec[n].error # "none" => rec[n].error \in Errors
      BY <1>2 DEF Records
    <3>2. "ok" \notin Errors
      BY GroupsAssumption DEF Errors, Reserved
    <3> QED
      BY <1>2, <3>1, <3>2 DEF KindInv
  <2>2. Errors \subseteq Results /\ {"ok", "unknown", "cancelled"} \subseteq Results
    BY DEF Results, Errors
  <2>3. "ok" \notin Errors
    BY GroupsAssumption DEF Errors, Reserved
  <2> QED
    BY <1>2, <1>4, <2>1, <2>2, <2>3 DEF Return, Goto, Joined
<1>6. task' = [task EXCEPT ![n] = task'[n]] /\ task'[n] \in [pc : Pcs, result : Results]
      /\ task'[n].pc \in {"enter", "done"} /\ (task'[n].pc = "enter" => ~Settled(rec[n]))
  BY <1>2, <1>5, <1>12 DEF TypeOK, Pcs
<1>7. rec' = [rec EXCEPT ![n] = rec'[n]] /\ rec'[n] \in Records
  BY <1>2, <1>3 DEF TypeOK
<1>8. KindInv(n)'
  BY <1>1, <1>2, <1>3, <1>6 DEF KindInv, At
<1>9. DoneInv(n)'
  <2>1. task'[n].pc = "done" =>
           /\ task'[n].result = "ok" => rec[n].state = "Succeeded"
           /\ task'[n].result \in Errors \ {"unknown"} => Joined(n) \/ CancelSeen(n)
    <3>1. CASE task' = [task EXCEPT ![n].pc = "enter"]
      <4>1. task'[n].pc = "enter"
        BY <1>2, <1>12, <3>1
      <4> QED
        BY <4>1
    <3>2. ASSUME NEW result \in Results,
                 task' = [task EXCEPT ![n] = [pc |-> "done", result |-> result]],
                 result = "ok" => rec[n].state = "Succeeded",
                 result \in Errors \ {"unknown"} => Joined(n) \/ CancelSeen(n)
          PROVE  /\ task'[n].result = "ok" => rec[n].state = "Succeeded"
                 /\ task'[n].result \in Errors \ {"unknown"} => Joined(n) \/ CancelSeen(n)
      <4>1. task'[n].result = result
        BY <1>12, <3>2
      <4> QED
        BY <3>2, <4>1
    <3> QED
      BY <1>5, <3>1, <3>2
  <2>2. (CancelSeen(n) => CancelSeen(n)') /\ (Joined(n) => Joined(n)')
    BY <1>3 DEF Joined, CancelSeen, CancelledAbove
  <2> QED
    BY <1>3, <2>1, <2>2 DEF DoneInv, At
<1>10. n \in Groups => BusyInv(n)' /\ EndInv(n)' /\ SettledInv(n)'
  <2>1. SUFFICES ASSUME n \in Groups PROVE BusyInv(n)' /\ EndInv(n)' /\ SettledInv(n)'
    OBVIOUS
  <2>2. BusyInv(n)'
    BY <1>6 DEF BusyInv, Busy
  <2>3. EndInv(n)'
    BY <1>3, <1>6 DEF EndInv, At, Settled
  <2>4. SettledInv(n)'
    BY <1>2, <1>3, <2>1 DEF SettledInv, Settled, Resolved, AllJoined, Unresolved, Joined
  <2> QED
    BY <2>2, <2>3, <2>4
<1>11. wait' \in [Signals -> Waits] /\ (n \in Signals => wait'[n] \notin {"Open", "Delivered"} \/ Open(n))
  BY <1>2, <1>3 DEF TypeOK, Open
<1> QED
  BY <1>1, <1>3, <1>6, <1>7, <1>8, <1>9, <1>10, <1>11, OwnStepKeeps

LEMMA DispatchKeeps ==
    ASSUME IInv, NEW n \in Nodes, Dispatch(n)
    PROVE  IInv'
<1>1. n \in Calls /\ At(n, "enter") /\ ~At(n, "none")
  BY DEF Dispatch, At
<1>2. /\ TypeOK /\ KindInv(n) /\ rec[n] \in Records /\ task[n] \in [pc : Pcs, result : Results]
      /\ n \notin Groups /\ n \notin Signals /\ DOMAIN task = Nodes /\ DOMAIN rec = Nodes
  BY <1>1, LiveFacts DEF TypeOK
<1>3. /\ frame' = frame /\ local' = local /\ token' = token /\ wait' = wait
      /\ head' = head /\ UNCHANGED <<phase, available, cancelling>>
  BY DEF Dispatch, process
<1>4. CASE rec' = rec /\ Return(n, "cancelled") /\ CancelSeen(n)
  <2>1. task' = [task EXCEPT ![n] = [pc |-> "done", result |-> "cancelled"]]
    BY <1>4 DEF Return
  <2>2. task'[n] = [pc |-> "done", result |-> "cancelled"] /\ task' = [task EXCEPT ![n] = task'[n]]
    BY <1>2, <2>1
  <2>3. task'[n] \in [pc : Pcs, result : Results] /\ rec' = [rec EXCEPT ![n] = rec'[n]]
    BY <1>2, <1>4, <2>2 DEF Pcs, Results, Errors, TypeOK
  <2>4. KindInv(n)'
    BY <1>1, <1>2, <1>4, <2>2, LiveFacts DEF KindInv, At
  <2>5. DoneInv(n)'
    BY <1>3, <1>4, <2>2 DEF DoneInv, At, CancelSeen, CancelledAbove
  <2> QED
    BY <1>1, <1>2, <1>3, <1>4, <2>2, <2>3, <2>4, <2>5, OwnStepKeeps DEF TypeOK
<1>5. CASE rec' = [rec EXCEPT ![n].state = "Running"] /\ Goto(n, "call")
  <2>1. rec'[n] = [state |-> "Running", suspect |-> rec[n].suspect, error |-> rec[n].error]
    BY <1>2, <1>5 DEF Records
  <2>2. rec' = [rec EXCEPT ![n] = rec'[n]] /\ rec'[n] \in Records
    BY <1>2, <1>5, <2>1 DEF Records
  <2>3. task'[n] = [pc |-> "call", result |-> task[n].result] /\ task' = [task EXCEPT ![n] = task'[n]]
    BY <1>2, <1>5 DEF Goto
  <2>4. task'[n] \in [pc : Pcs, result : Results]
    BY <1>2, <2>3 DEF Pcs
  <2>5. KindInv(n)' /\ DoneInv(n)'
    BY <1>2, <2>1, <2>3 DEF KindInv, DoneInv, At
  <2> QED
    BY <1>1, <1>2, <1>3, <2>2, <2>3, <2>4, <2>5, OwnStepKeeps DEF TypeOK
<1> QED
  BY <1>4, <1>5 DEF Dispatch

LEMMA OutcomeKeeps ==
    ASSUME IInv, NEW n \in Nodes, Outcome(n)
    PROVE  IInv'
<1>1. n \in Calls /\ At(n, "call") /\ ~At(n, "none")
  BY DEF Outcome, At
<1>2. /\ TypeOK /\ n \notin Groups /\ n \notin Signals /\ DOMAIN task = Nodes /\ DOMAIN rec = Nodes
      /\ n \in Errors /\ n \in Results /\ n # "ok" /\ n # "unknown" /\ n # "none" /\ n # "cancelled"
  BY <1>1, LiveFacts DEF TypeOK, Reserved
<1>3. /\ frame' = frame /\ local' = local /\ token' = token /\ wait' = wait
      /\ head' = head /\ UNCHANGED <<phase, available, cancelling>>
  BY DEF Outcome, process
<1>4. PICK result \in {"ok", "unknown", n, "cancelled"} :
         /\ rec' = [rec EXCEPT ![n] =
               [state   |-> CASE result = "ok" -> "Succeeded"
                              [] result = "unknown" -> "Unknown"
                              [] result = "cancelled" -> "Cancelled"
                              [] OTHER -> "Failed",
                suspect |-> result = "unknown",
                error   |-> IF result = "ok" THEN "none" ELSE result]]
         /\ Return(n, result)
  BY DEF Outcome
<1>5. task'[n] = [pc |-> "done", result |-> result] /\ task' = [task EXCEPT ![n] = task'[n]]
  BY <1>2, <1>4 DEF Return
<1>6. task'[n] \in [pc : Pcs, result : Results]
  BY <1>2, <1>5 DEF Pcs, Results, Errors
<1>7. /\ rec'[n].state = IF result = "ok" THEN "Succeeded"
                         ELSE IF result = "unknown" THEN "Unknown"
                         ELSE IF result = "cancelled" THEN "Cancelled" ELSE "Failed"
      /\ rec'[n].error = IF result = "ok" THEN "none" ELSE result
  BY <1>2, <1>4
<1>8. rec'[n] \in Records /\ rec' = [rec EXCEPT ![n] = rec'[n]]
  <2> DEFINE doubt == result = "unknown"
  <2>0. doubt \in BOOLEAN
    OBVIOUS
  <2>1. rec'[n] = [state |-> rec'[n].state, suspect |-> doubt, error |-> rec'[n].error]
    BY <1>2, <1>4
  <2>2. rec'[n].error \in {"none"} \cup Errors
    BY <1>2, <1>7 DEF Errors
  <2>3. rec'[n].state \in {"Absent", "Pending", "Running", "Succeeded", "Failed", "Cancelled", "Unknown"}
    BY <1>7
  <2>4. rec'[n] \in Records
    <3> HIDE DEF doubt
    <3> QED
      BY <2>0, <2>1, <2>2, <2>3 DEF Records
  <2>5. rec' = [rec EXCEPT ![n] = rec'[n]]
    BY <1>2, <1>4
  <2> QED
    BY <2>4, <2>5
<1>9. KindInv(n)'
  BY <1>1, <1>2, <1>5, <1>7 DEF KindInv, At
<1>10. DoneInv(n)'
  BY <1>2, <1>5, <1>7 DEF DoneInv, At, Joined
<1> QED
  BY <1>1, <1>2, <1>3, <1>5, <1>6, <1>8, <1>9, <1>10, OwnStepKeeps DEF TypeOK

(* A group that runs its children was cancelled when its stop was saved. *)
LEMMA StoppedAbove ==
    ASSUME IInv, NEW n \in Nodes, ~At(n, "none"), ~CancelSeen(n)
    PROVE  \A g \in Around(n) : ~frame[g].stopped
<1> SUFFICES ASSUME NEW g \in Around(n), frame[g].stopped
             PROVE  FALSE
  OBVIOUS
<1>1. g \in Groups /\ g \in Above[n]
  BY AboveAre
<1>2. task[g].pc \in Busy
  BY LiveFacts DEF TreeInv
<1>3. BusyInv(g)
  BY <1>1, Zenon DEF IInv
<1>4. token[g]
  BY <1>2, <1>3 DEF BusyInv, StoppedInv
<1> QED
  BY <1>1, <1>4 DEF CancelSeen, CancelledAbove

LEMMA ReserveKeeps ==
    ASSUME IInv, NEW n \in Nodes, Reserve(n)
    PROVE  IInv'
<1>1. n \in Signals /\ At(n, "enter") /\ ~At(n, "none")
  BY DEF Reserve, At
<1>2. /\ TypeOK /\ KindInv(n) /\ rec[n] \in Records /\ task[n] \in [pc : Pcs, result : Results]
      /\ n \notin Groups /\ n \notin Calls
      /\ DOMAIN task = Nodes /\ DOMAIN rec = Nodes /\ DOMAIN wait = Signals
  BY <1>1, LiveFacts DEF TypeOK
<1>3. /\ frame' = frame /\ local' = local /\ token' = token
      /\ head' = head /\ UNCHANGED <<phase, available, cancelling>>
  BY DEF Reserve, process
<1>4. ASSUME rec' = rec, wait' = wait, NEW result \in {"cancelled", "limit"},
             Return(n, result), Joined(n) \/ CancelSeen(n)
      PROVE  IInv'
  <2>1. task'[n] = [pc |-> "done", result |-> result] /\ task' = [task EXCEPT ![n] = task'[n]]
    BY <1>2, <1>4 DEF Return
  <2>2. task'[n] \in [pc : Pcs, result : Results] /\ rec' = [rec EXCEPT ![n] = rec'[n]]
    BY <1>2, <1>4, <2>1 DEF Pcs, Results, Errors, TypeOK
  <2>3. KindInv(n)'
    BY <1>1, <1>2, <1>4, <2>1 DEF KindInv, At
  <2>4. (CancelSeen(n) => CancelSeen(n)') /\ (Joined(n) => Joined(n)')
    BY <1>3, <1>4 DEF CancelSeen, CancelledAbove, Joined
  <2>5. DoneInv(n)'
    BY <1>4, <2>1, <2>4 DEF DoneInv, At
  <2>6. wait'[n] \notin {"Open", "Delivered"} \/ Open(n)
    BY <1>4 DEF Open
  <2> QED
    BY <1>1, <1>2, <1>3, <1>4, <2>1, <2>2, <2>3, <2>5, <2>6, OwnStepKeeps DEF TypeOK
<1>5. CASE wait[n] # "None" /\ Goto(n, "consume") /\ rec' = rec /\ wait' = wait
  <2>1. task'[n] = [pc |-> "consume", result |-> task[n].result] /\ task' = [task EXCEPT ![n] = task'[n]]
    BY <1>2, <1>5 DEF Goto
  <2>2. task'[n] \in [pc : Pcs, result : Results] /\ rec' = [rec EXCEPT ![n] = rec'[n]]
    BY <1>2, <1>5, <2>1 DEF Pcs, TypeOK
  <2>3. KindInv(n)' /\ DoneInv(n)'
    BY <1>1, <1>2, <1>5, <2>1 DEF KindInv, DoneInv, At
  <2>4. wait'[n] \notin {"Open", "Delivered"} \/ Open(n)
    BY <1>5 DEF Open
  <2> QED
    BY <1>1, <1>2, <1>3, <1>5, <2>1, <2>2, <2>3, <2>4, OwnStepKeeps DEF TypeOK
<1>6. CASE /\ ~CancelSeen(n) /\ wait' = [wait EXCEPT ![n] = "Open"]
           /\ rec' = [rec EXCEPT ![n].state = "Pending"] /\ Goto(n, "consume")
  <2>1. task'[n] = [pc |-> "consume", result |-> task[n].result] /\ task' = [task EXCEPT ![n] = task'[n]]
    BY <1>2, <1>6 DEF Goto
  <2>2. rec'[n] = [state |-> "Pending", suspect |-> rec[n].suspect, error |-> rec[n].error]
    BY <1>2, <1>6 DEF Records
  <2>3. rec' = [rec EXCEPT ![n] = rec'[n]] /\ rec'[n] \in Records
    BY <1>2, <1>6, <2>2 DEF Records
  <2>4. task'[n] \in [pc : Pcs, result : Results]
    BY <1>2, <2>1 DEF Pcs
  <2>5. wait'[n] = "Open" /\ wait' \in [Signals -> Waits] /\ \A m \in Signals : m # n => wait'[m] = wait[m]
    BY <1>1, <1>2, <1>6 DEF TypeOK, Waits
  <2>6. KindInv(n)' /\ DoneInv(n)'
    BY <1>1, <1>2, <2>1, <2>2, <2>5 DEF KindInv, DoneInv, At
  <2>7. \A g \in Around(n) : ~frame[g].stopped
    BY <1>1, <1>6, StoppedAbove
  <2> QED
    BY <1>1, <1>2, <1>3, <2>1, <2>3, <2>4, <2>5, <2>6, <2>7, OwnStepKeeps
<1>7. wait[n] = "None" => Joined(n)
  BY <1>1, <1>2 DEF KindInv, Joined
<1> QED
  BY <1>4, <1>5, <1>6, <1>7 DEF Reserve

LEMMA ConsumeKeeps ==
    ASSUME IInv, NEW n \in Nodes, Consume(n)
    PROVE  IInv'
<1>1. n \in Signals /\ At(n, "consume") /\ ~At(n, "none")
  BY DEF Consume, At
<1>2. /\ TypeOK /\ KindInv(n) /\ rec[n] \in Records /\ task[n] \in [pc : Pcs, result : Results]
      /\ n \notin Groups /\ n \notin Calls
      /\ DOMAIN task = Nodes /\ DOMAIN rec = Nodes /\ DOMAIN wait = Signals
  BY <1>1, LiveFacts DEF TypeOK
<1>3. /\ frame' = frame /\ local' = local /\ token' = token
      /\ head' = head /\ UNCHANGED <<phase, available, cancelling>>
  BY DEF Consume, process
<1>4. CASE /\ wait' = [wait EXCEPT ![n] = "Closed"]
           /\ rec' = [rec EXCEPT ![n].state = "Cancelled", ![n].error = "cancelled"]
           /\ Return(n, "cancelled")
  <2>1. /\ task'[n] = [pc |-> "done", result |-> "cancelled"]
        /\ task' = [task EXCEPT ![n] = task'[n]] /\ task'[n] \in [pc : Pcs, result : Results]
    BY <1>2, <1>4 DEF Return, Pcs, Results, Errors
  <2>2. rec'[n] = [state |-> "Cancelled", suspect |-> rec[n].suspect, error |-> "cancelled"]
    BY <1>2, <1>4 DEF Records
  <2>3. rec' = [rec EXCEPT ![n] = rec'[n]] /\ rec'[n] \in Records
    BY <1>2, <1>4, <2>2 DEF Records, Errors
  <2>4. wait'[n] = "Closed" /\ wait' \in [Signals -> Waits] /\ \A m \in Signals : m # n => wait'[m] = wait[m]
    BY <1>1, <1>2, <1>4 DEF TypeOK, Waits
  <2>5. KindInv(n)' /\ DoneInv(n)'
    BY <1>1, <1>2, <2>1, <2>2, <2>4 DEF KindInv, DoneInv, At, Joined
  <2> QED
    BY <1>1, <1>2, <1>3, <2>1, <2>3, <2>4, <2>5, OwnStepKeeps
<1>5. CASE /\ wait' = [wait EXCEPT ![n] = "Consumed"]
           /\ rec' = [rec EXCEPT ![n].state = "Succeeded"]
           /\ Return(n, "ok")
  <2>1. /\ task'[n] = [pc |-> "done", result |-> "ok"]
        /\ task' = [task EXCEPT ![n] = task'[n]] /\ task'[n] \in [pc : Pcs, result : Results]
    BY <1>2, <1>5 DEF Return, Pcs, Results
  <2>2. rec'[n] = [state |-> "Succeeded", suspect |-> rec[n].suspect, error |-> rec[n].error]
    BY <1>2, <1>5 DEF Records
  <2>3. rec' = [rec EXCEPT ![n] = rec'[n]] /\ rec'[n] \in Records
    BY <1>2, <1>5, <2>2 DEF Records
  <2>4. wait'[n] = "Consumed" /\ wait' \in [Signals -> Waits] /\ \A m \in Signals : m # n => wait'[m] = wait[m]
    BY <1>1, <1>2, <1>5 DEF TypeOK, Waits
  <2>5. KindInv(n)' /\ DoneInv(n)'
    BY <1>1, <1>2, <2>1, <2>2, <2>4 DEF KindInv, DoneInv, At, Joined
  <2> QED
    BY <1>1, <1>2, <1>3, <2>1, <2>3, <2>4, <2>5, OwnStepKeeps
<1>6. CASE rec' = rec /\ wait' = wait /\ Return(n, "suspended")
  <2>1. /\ task'[n] = [pc |-> "done", result |-> "suspended"]
        /\ task' = [task EXCEPT ![n] = task'[n]] /\ task'[n] \in [pc : Pcs, result : Results]
    BY <1>2, <1>6 DEF Return, Pcs, Results
  <2>3. rec' = [rec EXCEPT ![n] = rec'[n]]
    BY <1>2, <1>6 DEF TypeOK
  <2>4. KindInv(n)'
    BY <1>1, <1>2, <1>6, <2>1 DEF KindInv, At
  <2>5. "suspended" \notin Errors
    BY GroupsAssumption DEF Errors, Reserved
  <2>6. DoneInv(n)'
    BY <2>1, <2>5 DEF DoneInv, At
  <2>7. wait'[n] \notin {"Open", "Delivered"} \/ Open(n)
    BY <1>6 DEF Open
  <2> QED
    BY <1>1, <1>2, <1>3, <1>6, <2>1, <2>3, <2>4, <2>6, <2>7, OwnStepKeeps DEF TypeOK
<1> QED
  BY <1>4, <1>5, <1>6 DEF Consume

(* What the invariant says of a live group. *)
LEMMA GroupFacts ==
    ASSUME IInv, NEW g \in Groups, ~At(g, "none")
    PROVE  /\ TypeOK /\ KindInv(g) /\ FrameInv(g) /\ BusyInv(g) /\ EndInv(g) /\ SettledInv(g)
           /\ g \in Nodes /\ g \notin Calls /\ g \notin Signals
           /\ DOMAIN task = Nodes /\ DOMAIN rec = Nodes /\ DOMAIN local = Groups
           /\ DOMAIN frame = Groups /\ DOMAIN token = Groups \cup {Run}
           /\ rec[g] \in Records /\ task[g] \in [pc : Pcs, result : Results]
           /\ frame[g] \in [next : Nat, stopped : BOOLEAN, error : {"none"} \cup Errors]
           /\ local[g] \in [next : Nat, halted : BOOLEAN,
                            failed : {"none"} \cup Errors, suspended : BOOLEAN]
           /\ token[g] \in BOOLEAN /\ Len(Children[g]) \in Nat
           /\ "none" \notin Errors /\ "ok" \notin Errors /\ "suspended" \notin Errors
<1>1. g \in Nodes
  BY DEF Nodes
<1>2. TypeOK
  BY Zenon DEF IInv
<1>3. "none" \notin Errors /\ "ok" \notin Errors /\ "suspended" \notin Errors
  BY GroupsAssumption DEF Errors, Reserved
<1>4. FrameInv(g) /\ BusyInv(g) /\ EndInv(g) /\ SettledInv(g) /\ KindInv(g)
  BY <1>1, LiveFacts
<1> QED
  BY <1>1, <1>2, <1>3, <1>4, KidsAre, GroupsAssumption DEF TypeOK

(* A step of a group that leaves its frame and its variables alone. *)
LEMMA GroupOwnStepKeeps ==
    ASSUME IInv, NEW g \in Groups, ~At(g, "none"), task'[g].pc # "none",
           task'[g] \in [pc : Pcs, result : Results], task' = [task EXCEPT ![g] = task'[g]],
           rec'[g] \in Records, rec' = [rec EXCEPT ![g] = rec'[g]],
           UNCHANGED <<head, frame, wait, process, local, token>>,
           task[g].pc \in Busy => task'[g].pc \in Busy \/ Quiet(g),
           KindInv(g)', DoneInv(g)', BusyInv(g)', EndInv(g)', SettledInv(g)'
    PROVE  IInv'
<1>1. /\ head' = head /\ frame' = frame /\ wait' = wait /\ local' = local /\ token' = token
      /\ UNCHANGED <<phase, available, cancelling>>
  BY DEF process
<1>2. g \in Nodes /\ g \notin Signals /\ TypeOK
  BY GroupFacts
<1>3. wait' \in [Signals -> Waits] /\ \A m \in Signals : m # g => wait'[m] = wait[m]
  BY <1>1, <1>2 DEF TypeOK
<1> QED
  BY <1>1, <1>2, <1>3, OwnStepKeeps

LEMMA AdmittedKeeps ==
    ASSUME IInv, NEW g \in Groups, Admitted(g)
    PROVE  IInv'
<1>1. At(g, "admit") /\ ~At(g, "none") /\ task[g].pc \in Busy /\ Polled(g) /\ ~MayAdmit(g)
  BY DEF Admitted, At, Busy
<1>2. UNCHANGED <<rec, head, frame, wait, process, local, token>> /\ Goto(g, "poll")
  BY DEF Admitted, stored
<1>3. /\ task'[g] = [pc |-> "poll", result |-> task[g].result] /\ task' = [task EXCEPT ![g] = task'[g]]
      /\ task'[g] \in [pc : Pcs, result : Results]
  BY <1>1, <1>2, GroupFacts DEF Goto, Pcs
<1>4. rec' = [rec EXCEPT ![g] = rec'[g]] /\ rec'[g] \in Records
  BY <1>1, <1>2, GroupFacts DEF TypeOK
<1>5. KindInv(g)' /\ DoneInv(g)'
  <2>1. KindInv(g) /\ g \notin Calls /\ g \notin Signals
    BY <1>1, GroupFacts
  <2> QED
    BY <1>2, <1>3, <2>1 DEF KindInv, DoneInv, At
<1>6. CursorInv(g) /\ StoppedInv(g) /\ CollectedInv(g)
  BY <1>1, GroupFacts DEF BusyInv
<1>7. \A c \in Kids(g) : c \in Nodes /\ c # g
  BY AboveChild
<1>8. Live(g)' = Live(g)
  BY <1>1, <1>3, <1>7, GroupFacts DEF Live, At
<1>9. CursorInv(g)'
  <2>1. local[g].halted \/ ~(local[g].next < Total(g)) \/ ~(Cardinality(Live(g)) < Concurrency[g])
    BY <1>1 DEF MayAdmit
  <2>2. Live(g) = {} => Cardinality(Live(g)) < Concurrency[g]
    <3>1. Concurrency[g] \in Nat \ {0}
      BY GroupsAssumption
    <3> QED
      BY <3>1, FS_EmptySet
  <2>3. local[g].next \in Nat /\ Total(g) \in Nat
    BY <1>1, GroupFacts DEF Total
  <2>4. Live(g)' # {} \/ local[g].halted \/ local[g].next >= Total(g)
    BY <1>8, <2>1, <2>2, <2>3
  <2>5. \A i \in DOMAIN Children[g] : i > local[g].next => task'[Children[g][i]].pc = "none"
    <3>1. \A i \in DOMAIN Children[g] : Children[g][i] \in Kids(g)
      BY KidsAre
    <3>2. \A c \in Kids(g) : task'[c] = task[c]
      BY <1>1, <1>3, <1>7, GroupFacts
    <3> QED
      BY <1>6, <3>1, <3>2 DEF CursorInv, At
  <2> QED
    BY <1>2, <1>6, <2>4, <2>5 DEF CursorInv, At, Total
<1>10. StoppedInv(g)'
  BY <1>2, <1>3, <1>6 DEF StoppedInv, At
<1>11. CollectedInv(g)'
  <2>1. \A i \in DOMAIN Children[g] : Children[g][i] \in Kids(g)
    BY KidsAre
  <2>2. \A c \in Kids(g) : task'[c] = task[c]
    BY <1>1, <1>3, <1>7, GroupFacts
  <2> QED
    BY <1>2, <1>6, <2>1, <2>2 DEF CollectedInv, At, Joined, CancelledAbove
<1>12. BusyInv(g)' /\ EndInv(g)'
  BY <1>1, <1>2, <1>3, <1>9, <1>10, <1>11, GroupFacts DEF BusyInv, EndInv, At, Settled
<1>13. SettledInv(g)'
  BY <1>1, <1>2, GroupFacts DEF SettledInv, Settled, Resolved, AllJoined, Unresolved, Joined
<1>14. task'[g].pc # "none" /\ task'[g].pc \in Busy
  BY <1>3 DEF Busy
<1> QED
  BY <1>1, <1>2, <1>3, <1>4, <1>5, <1>12, <1>13, <1>14, GroupOwnStepKeeps

(* The last child of a group has ended, and nothing runs below it. *)
LEMMA LastChildIsLast ==
    ASSUME IInv, NEW g \in Groups, ~At(g, "none"), Live(g) = {}
    PROVE  /\ Quiet(g)
           /\ \A n \in Below[g] : n \in Calls => rec[n].state # "Running"
<1>1. \A c \in Kids(g) : At(c, "none")
  BY DEF Live
<1>2. \A c \in Kids(g) \cap Groups : Quiet(c)
  BY <1>1, NotBusyIsQuiet DEF At, Busy
<1>3. Quiet(g)
  BY <1>1, <1>2, BelowDown DEF Quiet
<1>4. phase = "ready" /\ available
  BY LiveFacts, GroupFacts
<1>5. \A n \in Below[g] : n \in Nodes /\ KindInv(n)
  <2>1. \A n \in Nodes : KindInv(n)
    BY Zenon DEF IInv
  <2> QED
    BY <2>1, BelowClosed
<1>6. \A n \in Below[g] : n \in Calls => rec[n].state # "Running"
  BY <1>3, <1>4, <1>5 DEF KindInv, Quiet, At
<1> QED
  BY <1>3, <1>6

LEMMA EndKeeps ==
    ASSUME IInv, NEW g \in Groups, End(g)
    PROVE  IInv'
<1>1. At(g, "poll") /\ ~At(g, "none") /\ task[g].pc \in Busy /\ Live(g) = {}
  BY DEF End, At, Busy
<1>2. UNCHANGED <<head, rec, frame, wait, process, local, token>>
  BY DEF End, stored
<1>3. /\ KindInv(g) /\ FrameInv(g) /\ EndInv(g) /\ SettledInv(g)
      /\ CursorInv(g) /\ StoppedInv(g) /\ CollectedInv(g)
  BY <1>1, GroupFacts DEF BusyInv
<1>4. /\ g \notin Calls /\ g \notin Signals /\ DOMAIN task = Nodes /\ g \in Nodes
      /\ task[g] \in [pc : Pcs, result : Results]
      /\ local[g].failed \in {"none"} \cup Errors /\ frame[g].stopped \in BOOLEAN
      /\ local[g].next \in Nat /\ frame[g].next \in Nat /\ Len(Children[g]) \in Nat
      /\ "none" \notin Errors /\ "suspended" \notin Errors
  BY <1>1, GroupFacts
<1>5. Quiet(g) /\ \A n \in Below[g] : n \in Calls => rec[n].state # "Running"
  BY <1>1, LastChildIsLast
<1>6. rec' = [rec EXCEPT ![g] = rec'[g]] /\ rec'[g] \in Records
  BY <1>1, <1>2, GroupFacts DEF TypeOK
<1>7. SettledInv(g)' /\ ~Settled(rec[g])
  BY <1>1, <1>2, <1>3 DEF SettledInv, EndInv, At, Settled, Resolved, AllJoined, Unresolved, Joined
<1>8. Resolved(g)' = Resolved(g) /\ AllJoined(g)' = AllJoined(g)
  BY <1>2 DEF Resolved, AllJoined, Unresolved, Joined
<1>9. (\A n \in Below[g] : ~Unresolved(n)) => Resolved(g)
  BY <1>5 DEF Resolved
<1>10. ASSUME NEW error \in Errors, task' = [task EXCEPT ![g] = [pc |-> "fail", result |-> error]],
              error # "unknown" => Resolved(g),
              frame[g].stopped => error \in {frame[g].error, "limit", "unknown"}
       PROVE  IInv'
  <2>1. task'[g] = [pc |-> "fail", result |-> error] /\ task' = [task EXCEPT ![g] = task'[g]]
    BY <1>4, <1>10
  <2>2. task'[g] \in [pc : Pcs, result : Results] /\ task'[g].pc # "none"
    BY <2>1 DEF Pcs, Results
  <2>3. KindInv(g)' /\ DoneInv(g)' /\ BusyInv(g)'
    BY <1>2, <1>3, <1>4, <2>1 DEF KindInv, DoneInv, BusyInv, Busy, At
  <2>4. EndInv(g)'
    BY <1>2, <1>7, <1>8, <1>10, <2>1 DEF EndInv, At
  <2> QED
    BY <1>1, <1>2, <1>5, <1>6, <1>7, <2>1, <2>2, <2>3, <2>4, GroupOwnStepKeeps
<1>11. CASE Return(g, "suspended")
  <2>1. task'[g] = [pc |-> "done", result |-> "suspended"] /\ task' = [task EXCEPT ![g] = task'[g]]
    BY <1>4, <1>11 DEF Return
  <2>2. task'[g] \in [pc : Pcs, result : Results] /\ task'[g].pc # "none"
    BY <2>1 DEF Pcs, Results
  <2>3. KindInv(g)' /\ DoneInv(g)' /\ BusyInv(g)'
    BY <1>2, <1>3, <1>4, <2>1 DEF KindInv, DoneInv, BusyInv, Busy, At
  <2>4. EndInv(g)'
    BY <2>1 DEF EndInv, At
  <2> QED
    BY <1>1, <1>2, <1>5, <1>6, <1>7, <2>1, <2>2, <2>3, <2>4, GroupOwnStepKeeps
<1>12. local[g].failed = "none" => ~frame[g].stopped /\ ~local[g].halted
  BY <1>3 DEF StoppedInv, FrameInv
<1>13. ASSUME Goto(g, "save"), \A n \in Below[g] : ~Unresolved(n), local[g].failed = "none",
              ~local[g].suspended, ~head.cancelRequested, ~CancelledAbove(g)
       PROVE  IInv'
  <2>1. /\ task'[g] = [pc |-> "save", result |-> task[g].result] /\ task' = [task EXCEPT ![g] = task'[g]]
        /\ task'[g].pc # "none" /\ task'[g] \in [pc : Pcs, result : Results]
    BY <1>4, <1>13 DEF Goto, Pcs
  <2>2. KindInv(g)' /\ DoneInv(g)' /\ BusyInv(g)'
    BY <1>2, <1>3, <1>4, <2>1 DEF KindInv, DoneInv, BusyInv, Busy, At
  <2>3. AllJoined(g)
    <3>1. local[g].next >= Total(g) /\ Total(g) = Len(Children[g])
      BY <1>1, <1>3, <1>12, <1>13 DEF CursorInv, Total
    <3>2. frame[g].next = Len(Children[g]) /\ local[g].next = Len(Children[g])
      BY <1>3, <1>4, <3>1 DEF CursorInv, FrameInv
    <3>3. \A c \in Kids(g) : Joined(c)
      <4>1. SUFFICES ASSUME NEW i \in DOMAIN Children[g] PROVE Joined(Children[g][i])
        BY KidsAre
      <4>2. At(Children[g][i], "none") /\ i <= local[g].next
        BY <1>1, <3>2, KidsAre DEF Live
      <4> QED
        BY <1>3, <1>13, <4>2 DEF CollectedInv
    <3> QED
      BY <3>2, <3>3 DEF AllJoined
  <2>4. EndInv(g)'
    BY <1>2, <1>7, <1>8, <1>9, <1>12, <1>13, <2>1, <2>3 DEF EndInv, At
  <2> QED
    BY <1>1, <1>2, <1>5, <1>6, <1>7, <2>1, <2>2, <2>4, GroupOwnStepKeeps
<1>14. "unknown" \in Errors /\ "cancelled" \in Errors
  BY DEF Errors
<1>15. frame[g].stopped => local[g].failed \in {frame[g].error, "limit", "unknown"}
  BY <1>3 DEF StoppedInv
<1>16. CASE \E n \in Below[g] : Unresolved(n)
  BY <1>10, <1>14, <1>16 DEF End
<1>17. CASE ~\E n \in Below[g] : Unresolved(n)
  <2>1. CASE local[g].failed # "none"
    BY <1>4, <1>9, <1>10, <1>15, <1>17, <2>1 DEF End
  <2>2. CASE local[g].failed = "none"
    BY <1>9, <1>10, <1>11, <1>12, <1>13, <1>14, <1>17, <2>2 DEF End
  <2> QED
    BY <2>1, <2>2
<1> QED
  BY <1>16, <1>17

LEMMA SaveKeeps ==
    ASSUME IInv, NEW g \in Groups, Save(g)
    PROVE  IInv'
<1>1. At(g, "save") /\ ~At(g, "none") /\ task[g].pc \notin Busy
  BY DEF Save, At, Busy
<1>2. UNCHANGED <<head, frame, wait, process, local, token>>
  BY DEF Save
<1>3. /\ KindInv(g) /\ EndInv(g) /\ SettledInv(g)
      /\ g \notin Calls /\ g \notin Signals /\ DOMAIN task = Nodes /\ DOMAIN rec = Nodes /\ g \in Nodes
      /\ task[g] \in [pc : Pcs, result : Results] /\ rec[g] \in Records /\ "ok" \notin Errors
      /\ TypeOK
  BY <1>1, GroupFacts
<1>4. ~frame[g].stopped /\ AllJoined(g) /\ Resolved(g) /\ ~Settled(rec[g])
  BY <1>1, <1>3 DEF EndInv, At
<1>5. CASE rec' = [rec EXCEPT ![g].state = "Succeeded", ![g].error = "none"] /\ Return(g, "ok")
  <2>1. /\ task'[g] = [pc |-> "done", result |-> "ok"] /\ task' = [task EXCEPT ![g] = task'[g]]
        /\ task'[g].pc # "none" /\ task'[g] \in [pc : Pcs, result : Results]
    BY <1>3, <1>5 DEF Return, Pcs, Results
  <2>2. rec'[g] = [state |-> "Succeeded", suspect |-> rec[g].suspect, error |-> "none"]
    BY <1>3, <1>5 DEF Records
  <2>3. rec' = [rec EXCEPT ![g] = rec'[g]] /\ rec'[g] \in Records
    BY <1>3, <1>5, <2>2 DEF Records
  <2>4. KindInv(g)' /\ DoneInv(g)' /\ BusyInv(g)' /\ EndInv(g)'
    BY <1>3, <2>1, <2>2 DEF KindInv, DoneInv, BusyInv, Busy, EndInv, At
  <2>5. Resolved(g)' /\ AllJoined(g)'
    <3>1. \A n \in Below[g] : n \in Nodes /\ n # g
      BY BelowClosed, BelowAcyclic
    <3>2. \A n \in Below[g] : rec'[n] = rec[n]
      BY <1>3, <2>3, <3>1
    <3>3. Kids(g) \subseteq Below[g]
      BY BelowClosed
    <3> QED
      BY <1>2, <1>4, <3>2, <3>3 DEF Resolved, AllJoined, Unresolved, Joined
  <2>6. SettledInv(g)'
    BY <1>2, <1>4, <2>2, <2>5 DEF SettledInv
  <2> QED
    BY <1>1, <1>2, <2>1, <2>3, <2>4, <2>6, GroupOwnStepKeeps
<1>6. CASE rec' = rec /\ task' = [task EXCEPT ![g] = [pc |-> "fail", result |-> "limit"]]
  <2>1. /\ task'[g] = [pc |-> "fail", result |-> "limit"] /\ task' = [task EXCEPT ![g] = task'[g]]
        /\ task'[g].pc # "none" /\ task'[g] \in [pc : Pcs, result : Results] /\ "limit" \in Errors
    BY <1>3, <1>6 DEF Pcs, Results, Errors
  <2>2. rec' = [rec EXCEPT ![g] = rec'[g]] /\ rec'[g] \in Records
    BY <1>3, <1>6 DEF TypeOK
  <2>3. KindInv(g)' /\ DoneInv(g)' /\ BusyInv(g)'
    BY <1>3, <1>6, <2>1 DEF KindInv, DoneInv, BusyInv, Busy, At
  <2>4. Resolved(g)' /\ ~Settled(rec'[g])
    BY <1>4, <1>6 DEF Resolved, Unresolved, Settled
  <2>5. EndInv(g)' /\ SettledInv(g)'
    BY <1>2, <2>1, <2>4 DEF EndInv, SettledInv, At, Settled
  <2> QED
    BY <1>1, <1>2, <2>1, <2>2, <2>3, <2>5, GroupOwnStepKeeps
<1> QED
  BY <1>5, <1>6 DEF Save

LEMMA FailKeeps ==
    ASSUME IInv, NEW g \in Groups, Fail(g)
    PROVE  IInv'
<1> DEFINE error == task[g].result
           state == IF error = "unknown" THEN "Pending"
                    ELSE IF error = "cancelled" THEN "Cancelled" ELSE "Failed"
<1>1. At(g, "fail") /\ ~At(g, "none") /\ task[g].pc \notin Busy
  BY DEF Fail, At, Busy
<1>2. UNCHANGED <<head, frame, wait, process, local, token>> /\ Return(g, error)
      /\ rec' = [rec EXCEPT ![g].error = error, ![g].state = state]
  BY DEF Fail
<1>3. /\ KindInv(g) /\ EndInv(g) /\ SettledInv(g)
      /\ g \notin Calls /\ g \notin Signals /\ DOMAIN task = Nodes /\ DOMAIN rec = Nodes /\ g \in Nodes
      /\ rec[g] \in Records /\ "ok" \notin Errors /\ "none" \notin Errors
  BY <1>1, GroupFacts
<1>4. /\ error \in Errors /\ (error # "unknown" => Resolved(g))
      /\ frame[g].stopped => error \in {frame[g].error, "limit", "unknown"}
  BY <1>1, <1>3 DEF EndInv, At
<1>5. state \in {"Pending", "Cancelled", "Failed"} /\ (state = "Pending" <=> error = "unknown")
  OBVIOUS
<1> HIDE DEF error, state
<1>6. /\ task'[g] = [pc |-> "done", result |-> error] /\ task' = [task EXCEPT ![g] = task'[g]]
      /\ task'[g].pc # "none" /\ task'[g] \in [pc : Pcs, result : Results]
  BY <1>2, <1>3, <1>4 DEF Return, Pcs, Results
<1>7. rec'[g] = [state |-> state, suspect |-> rec[g].suspect, error |-> error]
  BY <1>2, <1>3 DEF Records
<1>8. rec' = [rec EXCEPT ![g] = rec'[g]] /\ rec'[g] \in Records
  BY <1>2, <1>3, <1>4, <1>5, <1>7 DEF Records
<1>9. KindInv(g)' /\ DoneInv(g)' /\ BusyInv(g)' /\ EndInv(g)'
  BY <1>3, <1>4, <1>5, <1>6, <1>7 DEF KindInv, DoneInv, BusyInv, Busy, EndInv, At, Joined
<1>10. Resolved(g) => Resolved(g)'
  <2>1. \A n \in Below[g] : n \in Nodes /\ n # g
    BY BelowClosed, BelowAcyclic
  <2>2. \A n \in Below[g] : rec'[n] = rec[n]
    BY <1>3, <1>8, <2>1
  <2> QED
    BY <2>2 DEF Resolved, Unresolved
<1>11. SettledInv(g)'
  BY <1>2, <1>4, <1>5, <1>7, <1>10 DEF SettledInv, Settled
<1> QED
  BY <1>1, <1>2, <1>6, <1>8, <1>9, <1>11, GroupOwnStepKeeps

(* A step of a group that touches its record, frame, variables and token,   *)
(* and the future of one child besides its own; c is the group itself when  *)
(* there is no such child.                                                  *)
LEMMA GroupStepKeeps ==
    ASSUME IInv, NEW g \in Groups, ~At(g, "none"), NEW c \in Nodes,
           \/ c = g
           \/ /\ c \in Kids(g) /\ task[g].pc \in Busy
              /\ task[c].pc \in {"none", "done"} /\ task'[c].pc \in {"none", "view"}
              /\ At(c, "none") => \A i \in frame'[g].next + 1..Len(Children[g]) : c # Children[g][i],
           task'[g].pc \in Busy, TypeOK',
           \A m \in Nodes : m # g => rec'[m] = rec[m],
           \A m \in Nodes : m # g /\ m # c => task'[m] = task[m],
           \A h \in Groups : h # g =>
              frame'[h] = frame[h] /\ local'[h] = local[h] /\ token'[h] = token[h],
           token'[Run] = token[Run], head' = head, phase' = phase, available' = available,
           \A m \in Signals : wait'[m] = wait[m] \/ wait'[m] = "Closed",
           frame'[g].next >= frame[g].next,
           frame'[g].stopped => \/ frame[g].stopped
                                \/ \A m \in Signals : g \in Above[m] => wait'[m] \notin {"Open", "Delivered"},
           task[g].pc \in Busy => (token[g] => token'[g]),
           rec'[g] \in Records, ~rec'[g].suspect,
           rec'[g].state \notin {"Succeeded", "Failed", "Cancelled", "Unknown"},
           FrameInv(g)', CursorInv(g)', StoppedInv(g)', CollectedInv(g)'
    PROVE  IInv'
<1>1. task'[g].pc \in {"admit", "poll", "stop"}
  BY DEF Busy
<1>2. g \in Nodes /\ g \notin Calls /\ g \notin Signals
  BY GroupFacts
<1>3. KindInv(g)' /\ DoneInv(g)'
  BY <1>1, <1>2 DEF KindInv, DoneInv, At
<1>4. BusyInv(g)'
  BY DEF BusyInv
<1>5. EndInv(g)' /\ SettledInv(g)'
  BY <1>1 DEF EndInv, SettledInv, Settled, At
<1>6. task'[g].pc # "none"
  BY <1>1
<1> QED
  BY <1>2, <1>3, <1>4, <1>5, <1>6, StepKeeps

LEMMA EnterKeeps ==
    ASSUME IInv, NEW g \in Groups, Enter(g)
    PROVE  IInv'
<1>1. At(g, "enter") /\ ~At(g, "none") /\ task[g].pc \notin Busy
  BY DEF Enter, At, Busy
<1>2. UNCHANGED <<head, frame, wait, process>>
  BY DEF Enter
<1>3. /\ TypeOK /\ KindInv(g) /\ FrameInv(g) /\ EndInv(g) /\ SettledInv(g)
      /\ g \notin Calls /\ g \notin Signals /\ g \in Nodes
      /\ DOMAIN task = Nodes /\ DOMAIN rec = Nodes /\ DOMAIN local = Groups
      /\ DOMAIN token = Groups \cup {Run}
      /\ task[g] \in [pc : Pcs, result : Results] /\ rec[g] \in Records
      /\ frame[g] \in [next : Nat, stopped : BOOLEAN, error : {"none"} \cup Errors]
      /\ Len(Children[g]) \in Nat
  BY <1>1, GroupFacts
<1>4. ~Settled(rec[g])
  BY <1>1, <1>3 DEF EndInv, At
<1>5. CASE /\ rec' = IF rec[g].state = "Absent" THEN [rec EXCEPT ![g].state = "Running"] ELSE rec
           /\ local' = [local EXCEPT ![g] = [NoLocal EXCEPT !.failed = frame[g].error]]
           /\ token' = [token EXCEPT ![g] = frame[g].stopped]
           /\ Goto(g, "admit")
  <2>1. local'[g] = [next |-> 0, halted |-> FALSE, failed |-> frame[g].error, suspended |-> FALSE]
    BY <1>3, <1>5 DEF NoLocal
  <2>2. /\ local' = [local EXCEPT ![g] = local'[g]]
        /\ local'[g] \in [next : Nat, halted : BOOLEAN, failed : {"none"} \cup Errors, suspended : BOOLEAN]
    <3>1. local'[g] \in [next : Nat, halted : BOOLEAN, failed : {"none"} \cup Errors, suspended : BOOLEAN]
      BY <1>3, <2>1
    <3> DEFINE start == [NoLocal EXCEPT !.failed = frame[g].error]
    <3>2. local' = [local EXCEPT ![g] = start]
      BY <1>5
    <3> HIDE DEF start
    <3>3. local' = [local EXCEPT ![g] = local'[g]]
      BY <1>3, <3>2
    <3> QED
      BY <3>1, <3>3
  <2>3. task'[g] = [pc |-> "admit", result |-> task[g].result] /\ task' = [task EXCEPT ![g] = task'[g]]
        /\ task'[g] \in [pc : Pcs, result : Results] /\ task'[g].pc \in Busy
    BY <1>3, <1>5 DEF Goto, Pcs, Busy
  <2>4. /\ rec'[g] = [state |-> IF rec[g].state = "Absent" THEN "Running" ELSE rec[g].state,
                      suspect |-> rec[g].suspect, error |-> rec[g].error]
        /\ rec' = [rec EXCEPT ![g] = rec'[g]]
    <3>1. CASE rec[g].state = "Absent"
      BY <1>3, <1>5, <3>1 DEF Records
    <3>2. CASE rec[g].state # "Absent"
      BY <1>3, <1>5, <3>2 DEF Records, TypeOK
    <3> QED
      BY <3>1, <3>2
  <2>5. /\ rec'[g] \in Records /\ ~rec'[g].suspect
        /\ rec'[g].state \notin {"Succeeded", "Failed", "Cancelled", "Unknown"}
    BY <1>3, <1>4, <2>4 DEF Records, KindInv, Settled
  <2>6. TypeOK'
    <3>0. rec \in [Nodes -> Records] /\ task \in [Nodes -> [pc : Pcs, result : Results]]
      BY <1>3 DEF TypeOK
    <3>1. rec' \in [Nodes -> Records] /\ task' \in [Nodes -> [pc : Pcs, result : Results]]
      <4>1. rec' = [rec EXCEPT ![g] = rec'[g]] /\ task' = [task EXCEPT ![g] = task'[g]]
        BY <2>3, <2>4
      <4> QED
        BY <2>3, <2>5, <3>0, <4>1
    <3>2. local' \in [Groups -> [next : Nat, halted : BOOLEAN,
                                failed : {"none"} \cup Errors, suspended : BOOLEAN]]
      BY <1>3, <2>2 DEF TypeOK
    <3>3. token' \in [Groups \cup {Run} -> BOOLEAN]
      BY <1>3, <1>5 DEF TypeOK
    <3> QED
      BY <1>2, <1>3, <3>1, <3>2, <3>3 DEF TypeOK, process
  <2>7. token'[g] = frame[g].stopped /\ frame'[g] = frame[g] /\ frame[g].next >= 0
    BY <1>2, <1>3, <1>5
  <2>8. \A c \in Kids(g) : At(c, "none")'
    <3>1. Quiet(g)
      BY <1>1, NotBusyIsQuiet
    <3>2. \A c \in Kids(g) : c # g /\ c \in Nodes /\ c \in Below[g]
      BY AboveChild, BelowClosed
    <3> QED
      BY <1>3, <2>3, <3>1, <3>2 DEF Quiet, At
  <2>9. FrameInv(g)' /\ CursorInv(g)' /\ StoppedInv(g)' /\ CollectedInv(g)'
    <3>1. FrameInv(g)'
      BY <1>3, <2>7 DEF FrameInv
    <3>2. CursorInv(g)'
      BY <2>1, <2>3, <2>7, <2>8, KidsAre DEF CursorInv, At
    <3>3. StoppedInv(g)'
      BY <1>3, <2>1, <2>3, <2>7 DEF StoppedInv, FrameInv, At
    <3>4. CollectedInv(g)'
      BY <2>1, KidsAre DEF CollectedInv
    <3> QED
      BY <3>1, <3>2, <3>3, <3>4
  <2>10. /\ \A m \in Nodes : m # g => rec'[m] = rec[m]
         /\ \A m \in Nodes : m # g => task'[m] = task[m]
    BY <1>3, <2>3, <2>4
  <2>11. /\ \A h \in Groups : h # g =>
               frame'[h] = frame[h] /\ local'[h] = local[h] /\ token'[h] = token[h]
         /\ token'[Run] = token[Run]
    <3>1. Run # g /\ Run \notin Groups
      BY AboveAre DEF Nodes
    <3> QED
      BY <1>2, <1>3, <1>5, <2>2, <3>1
  <2>12. head' = head /\ UNCHANGED <<phase, available, cancelling>> /\ wait' = wait
    BY <1>2 DEF process
  <2> QED
    BY <1>1, <1>3, <2>3, <2>5, <2>6, <2>7, <2>9, <2>10, <2>11, <2>12, GroupStepKeeps
<1>6. CASE rec[g].state = "Absent" /\ Return(g, "limit") /\ UNCHANGED <<rec, local, token>>
  <2>1. /\ task'[g] = [pc |-> "done", result |-> "limit"] /\ task' = [task EXCEPT ![g] = task'[g]]
        /\ task'[g].pc # "none" /\ task'[g] \in [pc : Pcs, result : Results]
    BY <1>3, <1>6 DEF Return, Pcs, Results, Errors
  <2>2. rec' = [rec EXCEPT ![g] = rec'[g]] /\ rec'[g] \in Records
    BY <1>3, <1>6 DEF TypeOK
  <2>3. KindInv(g)' /\ DoneInv(g)' /\ BusyInv(g)' /\ EndInv(g)'
    BY <1>3, <1>6, <2>1 DEF KindInv, DoneInv, BusyInv, EndInv, Busy, At, Joined
  <2>4. SettledInv(g)'
    BY <1>6 DEF SettledInv, Settled
  <2> QED
    BY <1>1, <1>2, <1>6, <2>1, <2>2, <2>3, <2>4, GroupOwnStepKeeps
<1> QED
  BY <1>5, <1>6 DEF Enter

(* The stop of a group, saved while it runs its children. *)
LEMMA SaveStopKeeps ==
    ASSUME IInv, NEW g \in Groups, task[g].pc \in Busy,
           NEW error \in Errors, SaveStop(g, error),
           NEW failed \in Errors, failed \in {"unknown", "limit", frame'[g].error},
           local' = [local EXCEPT ![g].failed = failed, ![g].halted = TRUE],
           token' = [token EXCEPT ![g] = TRUE],
           NEW pc \in {"admit", "poll"}, Goto(g, pc),
           UNCHANGED <<head, rec, process>>
    PROVE  IInv'
<1>1. ~At(g, "none")
  BY DEF At, Busy
<1>2. /\ TypeOK /\ KindInv(g) /\ FrameInv(g) /\ EndInv(g)
      /\ CursorInv(g) /\ StoppedInv(g) /\ CollectedInv(g)
  BY <1>1, GroupFacts DEF BusyInv
<1>3. /\ g \notin Calls /\ g \notin Signals /\ g \in Nodes
      /\ DOMAIN task = Nodes /\ DOMAIN rec = Nodes /\ DOMAIN local = Groups
      /\ DOMAIN frame = Groups /\ DOMAIN token = Groups \cup {Run}
      /\ task[g] \in [pc : Pcs, result : Results] /\ rec[g] \in Records
      /\ frame[g] \in [next : Nat, stopped : BOOLEAN, error : {"none"} \cup Errors]
      /\ local[g] \in [next : Nat, halted : BOOLEAN, failed : {"none"} \cup Errors, suspended : BOOLEAN]
      /\ Len(Children[g]) \in Nat /\ "none" \notin Errors
  BY <1>1, GroupFacts
<1>4. /\ local'[g] = [next |-> local[g].next, halted |-> TRUE, failed |-> failed,
                      suspended |-> local[g].suspended]
      /\ local' = [local EXCEPT ![g] = local'[g]]
  BY <1>3
<1>5. task'[g] = [pc |-> pc, result |-> task[g].result] /\ task' = [task EXCEPT ![g] = task'[g]]
      /\ task'[g] \in [pc : Pcs, result : Results] /\ task'[g].pc \in Busy
  BY <1>3 DEF Goto, Pcs, Busy
<1>6. /\ frame'[g] = [next |-> frame[g].next, stopped |-> TRUE,
                      error |-> IF frame[g].error = "none" THEN error ELSE frame[g].error]
      /\ frame' = [frame EXCEPT ![g] = frame'[g]]
  <2>1. Advanced(g, local[g].next) = frame[g].next
    BY <1>2, <1>3 DEF CursorInv, Advanced
  <2> DEFINE to == [next  |-> Advanced(g, local[g].next), stopped |-> TRUE,
                    error |-> IF frame[g].error = "none" THEN error ELSE frame[g].error]
  <2>2. frame' = [frame EXCEPT ![g] = to]
    BY DEF SaveStop
  <2>3. frame'[g] = to /\ frame' = [frame EXCEPT ![g] = frame'[g]]
    <3> HIDE DEF to
    <3> QED
      BY <1>3, <2>2
  <2> QED
    BY <2>1, <2>3
<1>7. wait' = [m \in Signals |-> IF m \in Below[g] /\ Open(m) THEN "Closed" ELSE wait[m]]
  BY DEF SaveStop, Close
<1>8. wait' \in [Signals -> Waits] /\ \A m \in Signals : wait'[m] = wait[m] \/ wait'[m] = "Closed"
  BY <1>2, <1>7 DEF TypeOK, Waits
<1>9. \A m \in Signals : g \in Above[m] => wait'[m] \notin {"Open", "Delivered"}
  <2>1. \A m \in Signals : g \in Above[m] => m \in Below[g]
    BY AboveAre DEF Nodes
  <2> QED
    BY <1>7, <2>1 DEF Open
<1>10. frame'[g] \in [next : Nat, stopped : BOOLEAN, error : {"none"} \cup Errors]
       /\ local'[g] \in [next : Nat, halted : BOOLEAN, failed : {"none"} \cup Errors, suspended : BOOLEAN]
  BY <1>3, <1>4, <1>6
<1>11. rec' = rec /\ head' = head /\ UNCHANGED <<phase, available, cancelling>>
  BY DEF process
<1>12. TypeOK'
  <2>1. token' \in [Groups \cup {Run} -> BOOLEAN]
    BY <1>2 DEF TypeOK
  <2>2. frame' \in [Groups -> [next : Nat, stopped : BOOLEAN, error : {"none"} \cup Errors]]
    <3>1. frame \in [Groups -> [next : Nat, stopped : BOOLEAN, error : {"none"} \cup Errors]]
      BY <1>2 DEF TypeOK
    <3>2. frame' = [frame EXCEPT ![g] = frame'[g]]
      BY <1>6
    <3> QED
      BY <1>10, <3>1, <3>2
  <2>3. local' \in [Groups -> [next : Nat, halted : BOOLEAN,
                              failed : {"none"} \cup Errors, suspended : BOOLEAN]]
    BY <1>2, <1>4, <1>10 DEF TypeOK
  <2>4. task' \in [Nodes -> [pc : Pcs, result : Results]]
    BY <1>2, <1>5 DEF TypeOK
  <2> QED
    BY <1>2, <1>8, <1>11, <2>1, <2>2, <2>3, <2>4 DEF TypeOK
<1>13. /\ \A h \in Groups : h # g =>
             frame'[h] = frame[h] /\ local'[h] = local[h] /\ token'[h] = token[h]
       /\ token'[Run] = token[Run] /\ token'[g]
  <2>1. Run # g /\ Run \notin Groups
    BY AboveAre DEF Nodes
  <2> QED
    BY <1>3, <1>4, <1>6, <2>1
<1>14. \A m \in Nodes : m # g => task'[m] = task[m]
  BY <1>3, <1>5
<1>15. FrameInv(g)'
  BY <1>2, <1>3, <1>6 DEF FrameInv
<1>16. CursorInv(g)'
  <2>1. \A c \in Kids(g) : task'[c] = task[c]
    BY <1>14, AboveChild
  <2>2. \A i \in DOMAIN Children[g] : i > local'[g].next => task'[Children[g][i]].pc = "none"
    BY <1>2, <1>4, <2>1, KidsAre DEF CursorInv, At
  <2>3. local'[g].next <= frame'[g].next /\ local'[g].halted
    BY <1>2, <1>3, <1>4, <1>6 DEF CursorInv
  <2> QED
    BY <2>2, <2>3 DEF CursorInv, At
<1>17. StoppedInv(g)'
  <2>1. local'[g].failed \in {"unknown", frame'[g].error, "limit"}
    BY <1>4
  <2> QED
    BY <1>3, <1>4, <1>5, <1>6, <1>13, <2>1 DEF StoppedInv, At
<1>18. CollectedInv(g)'
  BY <1>3, <1>4 DEF CollectedInv
<1>19. rec'[g] \in Records /\ ~rec'[g].suspect
       /\ rec'[g].state \notin {"Succeeded", "Failed", "Cancelled", "Unknown"}
  BY <1>2, <1>3, <1>11 DEF KindInv, EndInv, Busy, Settled
<1>20. frame'[g].next >= frame[g].next
  BY <1>3, <1>6
<1> QED
  BY <1>1, <1>3, <1>5, <1>8, <1>9, <1>11, <1>12, <1>13, <1>14, <1>15, <1>16, <1>17, <1>18, <1>19, <1>20,
     GroupStepKeeps

LEMMA StopKeeps ==
    ASSUME IInv, NEW g \in Groups, Stop(g)
    PROVE  IInv'
<1> DEFINE error == task[g].result
           failed == IF local[g].failed = "none" THEN error ELSE local[g].failed
<1>1. At(g, "stop") /\ ~At(g, "none") /\ task[g].pc \in Busy
  BY DEF Stop, At, Busy
<1>2. /\ FrameInv(g) /\ StoppedInv(g) /\ DOMAIN frame = Groups /\ DOMAIN local = Groups
      /\ frame[g] \in [next : Nat, stopped : BOOLEAN, error : {"none"} \cup Errors]
      /\ local[g] \in [next : Nat, halted : BOOLEAN, failed : {"none"} \cup Errors, suspended : BOOLEAN]
  BY <1>1, GroupFacts DEF BusyInv
<1>3. error \in Errors
  BY <1>1, <1>2 DEF StoppedInv, At
<1>4. SaveStop(g, error) /\ Goto(g, "admit") /\ UNCHANGED <<head, rec, process>>
      /\ token' = [token EXCEPT ![g] = TRUE]
  BY DEF Stop
<1>5. local' = [local EXCEPT ![g].failed = failed, ![g].halted = TRUE]
  <2>1. local' = [local EXCEPT ![g].halted = TRUE, ![g].failed = IF @ = "none" THEN error ELSE @]
    BY DEF Stop
  <2> QED
    BY <1>2, <2>1
<1>6. frame'[g].error = IF frame[g].error = "none" THEN error ELSE frame[g].error
  BY <1>2, <1>4 DEF SaveStop
<1>7. failed \in Errors /\ failed \in {"unknown", "limit", frame'[g].error}
  BY <1>2, <1>3, <1>6 DEF StoppedInv, FrameInv
<1> HIDE DEF failed, error
<1> QED
  BY <1>1, <1>3, <1>4, <1>5, <1>7, SaveStopKeeps

LEMMA AdmitExhaustedKeeps ==
    ASSUME IInv, NEW g \in Groups, AdmitExhausted(g)
    PROVE  IInv'
<1>1. task[g].pc \in Busy
  BY DEF AdmitExhausted, MayAdmit, At, Busy
<1>2. "limit" \in Errors
  BY DEF Errors
<1>3. /\ SaveStop(g, "limit") /\ Goto(g, "poll") /\ UNCHANGED <<head, rec, process>>
      /\ local' = [local EXCEPT ![g].failed = "limit", ![g].halted = TRUE]
      /\ token' = [token EXCEPT ![g] = TRUE]
  BY DEF AdmitExhausted
<1> QED
  BY <1>1, <1>2, <1>3, SaveStopKeeps

LEMMA AdmitKeeps ==
    ASSUME IInv, NEW g \in Groups, Admit(g)
    PROVE  IInv'
<1> DEFINE i == local[g].next + 1
           c == Children[g][i]
<1>1. At(g, "admit") /\ ~At(g, "none") /\ task[g].pc \in Busy /\ local[g].next < Total(g)
  BY DEF Admit, MayAdmit, At, Busy
<1>2. /\ TypeOK /\ KindInv(g) /\ FrameInv(g) /\ EndInv(g)
      /\ CursorInv(g) /\ StoppedInv(g) /\ CollectedInv(g)
  BY <1>1, GroupFacts DEF BusyInv
<1>3. /\ g \notin Calls /\ g \notin Signals /\ g \in Nodes
      /\ DOMAIN task = Nodes /\ DOMAIN rec = Nodes /\ DOMAIN local = Groups
      /\ DOMAIN frame = Groups
      /\ task[g] \in [pc : Pcs, result : Results] /\ rec[g] \in Records
      /\ frame[g] \in [next : Nat, stopped : BOOLEAN, error : {"none"} \cup Errors]
      /\ local[g] \in [next : Nat, halted : BOOLEAN, failed : {"none"} \cup Errors, suspended : BOOLEAN]
      /\ Len(Children[g]) \in Nat
  BY <1>1, GroupFacts
<1>4. i \in DOMAIN Children[g] /\ i \in Nat /\ i <= Len(Children[g])
  <2>1. Total(g) <= Len(Children[g]) /\ Total(g) \in Nat
    BY <1>2, <1>3 DEF Total, FrameInv
  <2> QED
    BY <1>1, <1>3, <2>1, KidsAre
<1>5. c \in Kids(g) /\ c \in Nodes /\ c # g
  BY <1>4, AboveChild, KidsAre
<1>6. At(c, "none")
  BY <1>2, <1>3, <1>4 DEF CursorInv
<1>7. \A j \in DOMAIN Children[g] : Children[g][j] = c => j = i
  BY <1>4, GroupsAssumption
<1>8. /\ frame' = [frame EXCEPT ![g].next = Advanced(g, i)]
      /\ local' = [local EXCEPT ![g].next = @ + 1]
      /\ task' = [task EXCEPT ![c].pc = "view"]
      /\ UNCHANGED <<head, rec, wait, process, token>>
  BY DEF Admit, Goto
<1>9. Advanced(g, i) \in Nat /\ Advanced(g, i) >= i /\ Advanced(g, i) >= frame[g].next
      /\ Advanced(g, i) <= Len(Children[g])
  BY <1>2, <1>3, <1>4 DEF Advanced, FrameInv
<1>10. i > local[g].next /\ \A j \in Nat : j <= i => j = i \/ j <= local[g].next
  BY <1>3
<1>11. /\ local'[g] = [next |-> i, halted |-> local[g].halted, failed |-> local[g].failed,
                       suspended |-> local[g].suspended]
       /\ local' = [local EXCEPT ![g] = local'[g]]
  BY <1>3, <1>8
<1> HIDE DEF i, c
<1>12. /\ frame'[g] = [next |-> Advanced(g, i), stopped |-> frame[g].stopped, error |-> frame[g].error]
       /\ frame' = [frame EXCEPT ![g] = frame'[g]]
  BY <1>3, <1>8
<1>13. task'[c] = [pc |-> "view", result |-> task[c].result] /\ task' = [task EXCEPT ![c] = task'[c]]
  <2>1. task[c] \in [pc : Pcs, result : Results]
    BY <1>2, <1>5 DEF TypeOK
  <2> QED
    BY <1>3, <1>5, <1>8, <2>1
<1>14. rec' = rec /\ head' = head /\ wait' = wait /\ token' = token /\ UNCHANGED <<phase, available, cancelling>>
  BY <1>8 DEF process
<1>15. TypeOK'
  <2>1. frame'[g] \in [next : Nat, stopped : BOOLEAN, error : {"none"} \cup Errors]
    BY <1>3, <1>9, <1>12
  <2>2. local'[g] \in [next : Nat, halted : BOOLEAN, failed : {"none"} \cup Errors, suspended : BOOLEAN]
    BY <1>3, <1>4, <1>11
  <2>3. task'[c] \in [pc : Pcs, result : Results]
    <3>1. task[c] \in [pc : Pcs, result : Results]
      BY <1>2, <1>5 DEF TypeOK
    <3> QED
      BY <1>13, <3>1 DEF Pcs
  <2>4. frame' \in [Groups -> [next : Nat, stopped : BOOLEAN, error : {"none"} \cup Errors]]
    BY <1>2, <1>12, <2>1 DEF TypeOK
  <2>5. local' \in [Groups -> [next : Nat, halted : BOOLEAN,
                              failed : {"none"} \cup Errors, suspended : BOOLEAN]]
    BY <1>2, <1>11, <2>2 DEF TypeOK
  <2>6. task' \in [Nodes -> [pc : Pcs, result : Results]]
    BY <1>2, <1>5, <1>13, <2>3 DEF TypeOK
  <2> QED
    BY <1>2, <1>14, <2>4, <2>5, <2>6 DEF TypeOK
<1>16. /\ \A m \in Nodes : m # c => task'[m] = task[m]
       /\ \A h \in Groups : h # g => frame'[h] = frame[h] /\ local'[h] = local[h]
  BY <1>3, <1>11, <1>12, <1>13
<1>17. task'[g] = task[g] /\ task'[g].pc \in Busy
  BY <1>1, <1>3, <1>5, <1>16
<1>18. FrameInv(g)'
  BY <1>2, <1>9, <1>12 DEF FrameInv
<1>19. CursorInv(g)'
  <2>1. ~At(g, "poll")'
    BY <1>1, <1>17 DEF At
  <2>2. local'[g].next <= frame'[g].next
    BY <1>9, <1>11, <1>12
  <2>3. \A j \in DOMAIN Children[g] : j > i => task'[Children[g][j]].pc = "none"
    <3>1. SUFFICES ASSUME NEW j \in DOMAIN Children[g], j > i
                   PROVE  task'[Children[g][j]].pc = "none"
      OBVIOUS
    <3>2. j > local[g].next /\ j # i
      BY <1>3, <1>4, <1>10, <3>1, KidsAre
    <3>3. At(Children[g][j], "none") /\ Children[g][j] # c
      BY <1>2, <1>7, <3>2 DEF CursorInv
    <3>4. Children[g][j] \in Nodes
      BY KidsAre
    <3> QED
      BY <1>16, <3>3, <3>4 DEF At
  <2> QED
    BY <1>11, <2>1, <2>2, <2>3 DEF CursorInv, At
<1>20. StoppedInv(g)'
  BY <1>2, <1>11, <1>12, <1>14, <1>17 DEF StoppedInv, At
<1>21. CollectedInv(g)'
  <2>1. SUFFICES ASSUME NEW j \in DOMAIN Children[g], j <= local'[g].next,
                        task'[Children[g][j]].pc = "none"
                 PROVE  \/ Joined(Children[g][j])
                        \/ local[g].suspended \/ local[g].failed # "none"
                        \/ head.cancelRequested \/ CancelledAbove(g)
    BY <1>11, <1>14 DEF CollectedInv, At, Joined, CancelledAbove
  <2>2. j # i
    BY <1>13, <2>1 DEF c
  <2>3. j <= local[g].next
    BY <1>10, <1>11, <2>1, <2>2, KidsAre
  <2>4. At(Children[g][j], "none")
    <3>1. Children[g][j] \in Nodes /\ Children[g][j] # c
      BY <1>7, <2>2, KidsAre
    <3> QED
      BY <1>16, <2>1, <3>1 DEF At
  <2> QED
    BY <1>2, <2>3, <2>4 DEF CollectedInv
<1>22. rec'[g] \in Records /\ ~rec'[g].suspect
       /\ rec'[g].state \notin {"Succeeded", "Failed", "Cancelled", "Unknown"}
  BY <1>1, <1>2, <1>3, <1>14 DEF KindInv, EndInv, Busy, Settled
<1>23. \A j \in frame'[g].next + 1..Len(Children[g]) : c # Children[g][j]
  <2>1. SUFFICES ASSUME NEW j \in frame'[g].next + 1..Len(Children[g]), c = Children[g][j]
                 PROVE  FALSE
    OBVIOUS
  <2>2. j \in DOMAIN Children[g] /\ j > i
    BY <1>3, <1>4, <1>9, <1>12, KidsAre
  <2> QED
    BY <1>4, <1>7, <2>1, <2>2
<1>24. task[c].pc = "none" /\ task'[c].pc = "view"
  BY <1>6, <1>13 DEF At
<1>25. frame'[g].next >= frame[g].next /\ (frame'[g].stopped => frame[g].stopped)
  BY <1>9, <1>12
<1> QED
  BY <1>1, <1>3, <1>5, <1>14, <1>15, <1>16, <1>17, <1>18, <1>19, <1>20, <1>21, <1>22, <1>23, <1>24, <1>25,
     GroupStepKeeps

LEMMA ChildDoneKeeps ==
    ASSUME IInv, NEW g \in Groups, NEW c \in Kids(g), ChildDone(g, c)
    PROVE  IInv'
<1> DEFINE result == task[c].result
<1>1. At(g, "poll") /\ ~At(g, "none") /\ task[g].pc \in Busy /\ At(c, "done") /\ ~At(c, "none")
  BY DEF ChildDone, At, Busy
<1>2. /\ TypeOK /\ KindInv(g) /\ FrameInv(g) /\ EndInv(g)
      /\ CursorInv(g) /\ StoppedInv(g) /\ CollectedInv(g)
  BY <1>1, GroupFacts DEF BusyInv
<1>3. /\ g \notin Calls /\ g \notin Signals /\ g \in Nodes
      /\ DOMAIN task = Nodes /\ DOMAIN rec = Nodes /\ DOMAIN local = Groups
      /\ task[g] \in [pc : Pcs, result : Results] /\ rec[g] \in Records
      /\ local[g] \in [next : Nat, halted : BOOLEAN, failed : {"none"} \cup Errors, suspended : BOOLEAN]
      /\ "none" \notin Errors /\ "ok" \notin Errors /\ "suspended" \notin Errors
  BY <1>1, GroupFacts
<1>4. c \in Nodes /\ c # g /\ Above[c] = {g} \cup Above[g]
  BY AboveChild
<1>5. DoneInv(c) /\ result \in {"ok", "suspended"} \cup Errors
  BY <1>1, <1>4, LiveFacts DEF Results
<1>6. PICK pc \in {"admit", "stop"}, res \in Results :
         /\ task' = [task EXCEPT ![c] = NoTask, ![g] = [pc |-> pc, result |-> res]]
         /\ pc = "stop" => res \in Errors \ {"unknown"}
  <2>1. "limit" \in Errors /\ "limit" # "unknown" /\ Errors \subseteq Results /\ "ok" \in Results
    BY DEF Errors, Results
  <2>2. \E res \in Results : \/ /\ res \in Errors \ {"unknown"}
                                /\ task' = [task EXCEPT ![c] = NoTask, ![g] = [pc |-> "stop", result |-> res]]
                             \/ task' = [task EXCEPT ![c] = NoTask, ![g] = [pc |-> "admit", result |-> res]]
    BY <2>1 DEF ChildDone
  <2> QED
    BY <2>2
<1>7. /\ local' = CASE result = "suspended" -> [local EXCEPT ![g].suspended = TRUE]
                    [] result = "unknown" ->
                          [local EXCEPT ![g].failed = "unknown",
                                        ![g].halted = @ \/ g \in FailFast]
                    [] OTHER -> local
      /\ UNCHANGED <<stored, process, token>>
  BY DEF ChildDone
<1> HIDE DEF result
<1>8. /\ local' = [local EXCEPT ![g] = local'[g]]
      /\ local'[g] \in [next : Nat, halted : BOOLEAN, failed : {"none"} \cup Errors, suspended : BOOLEAN]
      /\ local'[g].next = local[g].next
      /\ local'[g].failed = IF result = "unknown" THEN "unknown" ELSE local[g].failed
      /\ local'[g].suspended = (result = "suspended" \/ local[g].suspended)
      /\ local'[g].halted => local[g].halted \/ result = "unknown"
  <2>1. CASE result = "suspended"
    <3>1. local' = [local EXCEPT ![g].suspended = TRUE] /\ result # "unknown"
      BY <1>7, <2>1
    <3>2. local'[g] = [next |-> local[g].next, halted |-> local[g].halted,
                       failed |-> local[g].failed, suspended |-> TRUE]
          /\ local' = [local EXCEPT ![g] = local'[g]]
      BY <1>3, <3>1
    <3> QED
      BY <1>3, <2>1, <3>1, <3>2
  <2>2. CASE result = "unknown"
    <3> DEFINE halted == local[g].halted \/ g \in FailFast
    <3>1. local' = [local EXCEPT ![g].failed = "unknown", ![g].halted = halted]
      BY <1>3, <1>7, <2>2
    <3>2. halted \in BOOLEAN
      OBVIOUS
    <3> HIDE DEF halted
    <3>3. local'[g] = [next |-> local[g].next, halted |-> halted,
                       failed |-> "unknown", suspended |-> local[g].suspended]
          /\ local' = [local EXCEPT ![g] = local'[g]]
      BY <1>3, <3>1
    <3>4. "unknown" \in Errors
      BY DEF Errors
    <3> QED
      BY <1>3, <2>2, <3>2, <3>3, <3>4
  <2>3. CASE result # "suspended" /\ result # "unknown"
    <3>1. local' = local
      BY <1>7, <2>3
    <3> QED
      BY <1>2, <1>3, <2>3, <3>1 DEF TypeOK
  <2> QED
    BY <2>1, <2>2, <2>3
<1>9. /\ task'[g] = [pc |-> pc, result |-> res] /\ task'[c] = NoTask
      /\ \A m \in Nodes : m # g /\ m # c => task'[m] = task[m]
      /\ task' \in [Nodes -> [pc : Pcs, result : Results]]
  <2>1. NoTask \in [pc : Pcs, result : Results] /\ [pc |-> pc, result |-> res] \in [pc : Pcs, result : Results]
    BY <1>6 DEF NoTask, Pcs, Results
  <2> QED
    BY <1>2, <1>3, <1>4, <1>6, <2>1 DEF TypeOK
<1>10. /\ rec' = rec /\ frame' = frame /\ head' = head /\ wait' = wait /\ token' = token
       /\ UNCHANGED <<phase, available, cancelling>>
  BY <1>7 DEF stored, process
<1>11. TypeOK'
  <2>1. local' \in [Groups -> [next : Nat, halted : BOOLEAN,
                              failed : {"none"} \cup Errors, suspended : BOOLEAN]]
    BY <1>2, <1>8 DEF TypeOK
  <2> QED
    BY <1>2, <1>9, <1>10, <2>1 DEF TypeOK
<1>12. \A h \in Groups : h # g => local'[h] = local[h]
  BY <1>3, <1>8
<1>13. task'[g].pc \in Busy /\ task'[g].pc # "poll" /\ task'[c].pc = "none" /\ task[c].pc = "done"
  BY <1>1, <1>6, <1>9 DEF Busy, NoTask, At
<1>14. FrameInv(g)'
  BY <1>2, <1>10 DEF FrameInv
<1>15. CursorInv(g)'
  <2>1. \A d \in Kids(g) : At(d, "none") => task'[d].pc = "none"
    <3>1. \A d \in Kids(g) : d \in Nodes /\ d # g
      BY AboveChild
    <3> QED
      BY <1>9, <1>13, <3>1 DEF At
  <2> QED
    BY <1>2, <1>8, <1>10, <1>13, <2>1, KidsAre DEF CursorInv, At
<1>16. StoppedInv(g)'
  BY <1>2, <1>3, <1>6, <1>8, <1>9, <1>10 DEF StoppedInv, At
<1>17. CollectedInv(g)'
  <2>1. SUFFICES ASSUME NEW j \in DOMAIN Children[g], j <= local[g].next,
                        task'[Children[g][j]].pc = "none"
                 PROVE  \/ Joined(Children[g][j])
                        \/ local'[g].suspended \/ local'[g].failed # "none"
                        \/ head.cancelRequested \/ CancelledAbove(g)
    BY <1>8, <1>10 DEF CollectedInv, At, Joined, CancelledAbove
  <2>2. CASE Children[g][j] = c
    <3>1. CASE result = "ok"
      BY <1>1, <1>5, <2>2, <3>1 DEF DoneInv, Joined, result
    <3>2. CASE result = "suspended"
      BY <1>8, <3>2
    <3>3. CASE result = "unknown"
      BY <1>8, <3>3
    <3>4. CASE result \in Errors \ {"unknown"}
      <4>1. Joined(c) \/ CancelSeen(c)
        BY <1>1, <1>5, <3>4 DEF DoneInv, result
      <4>2. CancelSeen(c) => token[g] \/ head.cancelRequested \/ CancelledAbove(g)
        BY <1>4 DEF CancelSeen, CancelledAbove
      <4>3. token[g] => local[g].failed # "none"
        BY <1>2, <1>3 DEF StoppedInv, FrameInv
      <4> QED
        BY <1>8, <2>2, <3>4, <4>1, <4>2, <4>3
    <3> QED
      BY <1>5, <3>1, <3>2, <3>3, <3>4
  <2>3. CASE Children[g][j] # c
    <3>1. Children[g][j] \in Nodes /\ Children[g][j] # g
      BY KidsAre, AboveChild
    <3>2. At(Children[g][j], "none")
      BY <1>9, <2>1, <2>3, <3>1 DEF At
    <3>3. \/ Joined(Children[g][j])
          \/ local[g].suspended \/ local[g].failed # "none"
          \/ head.cancelRequested \/ CancelledAbove(g)
      BY <1>2, <2>1, <3>2 DEF CollectedInv
    <3> QED
      BY <1>8, <3>3
  <2> QED
    BY <2>2, <2>3
<1>18. rec'[g] \in Records /\ ~rec'[g].suspect
       /\ rec'[g].state \notin {"Succeeded", "Failed", "Cancelled", "Unknown"}
  BY <1>1, <1>2, <1>3, <1>10 DEF KindInv, EndInv, Busy, Settled
<1>19. frame'[g].next >= frame[g].next
  BY <1>1, <1>10, GroupFacts
<1> QED
  BY <1>1, <1>3, <1>4, <1>9, <1>10, <1>11, <1>12, <1>13, <1>14, <1>15, <1>16, <1>17, <1>18, <1>19,
     GroupStepKeeps

-----------------------------------------------------------------------------
(* The steps around the body. *)

(* The body is the last future of a run to end. *)
LEMMA BodyIsLast ==
    ASSUME IInv, task[Root].pc \notin Busy
    PROVE  \A n \in Nodes : n # Root => At(n, "none")
<1>1. \A n \in Nodes : TreeInv(n)
  BY Zenon DEF IInv
<1> QED
  BY <1>1, AboveAre DEF TreeInv

(* A step that leaves no future but a body that starts: a record may be     *)
(* classified, a reservation closed.                                        *)
LEMMA IdleKeeps ==
    ASSUME IInv, TypeOK', frame' = frame,
           \A n \in Nodes : n # Root => task'[n].pc = "none",
           task'[Root].pc \in {"none", "view"}, TreeInv(Root)', EndsAccounted',
           \A m \in Signals : wait'[m] = wait[m] \/ wait'[m] = "Closed",
           \A n \in Nodes : /\ KindInv(n)'
                            /\ rec[n].state = "Absent" => rec'[n].state = "Absent"
                            /\ n \in Groups => rec'[n] = rec[n]
                            /\ ~Unresolved(n) /\ (n \in Calls => rec[n].state # "Running") =>
                                  rec'[n] = rec[n]
    PROVE  IInv'
<1>1. CursorIsAhead /\ StopClosesWaits
  BY Zenon DEF IInv
<1>2. \A g \in Groups : FrameInv(g) /\ SettledInv(g)
  BY Zenon DEF IInv
<1>3. Groups \subseteq Nodes /\ \A g \in Groups : Below[g] \subseteq Nodes \ {Root} /\ Kids(g) \subseteq Below[g]
  BY BelowClosed, AboveAre DEF Nodes
<1>4. \A n \in Nodes : TreeInv(n)' /\ KindInv(n)' /\ DoneInv(n)'
  <2>1. \A n \in Nodes : TreeInv(n)'
    BY DEF TreeInv, At
  <2>2. \A n \in Nodes : DoneInv(n)'
    BY DEF DoneInv, At
  <2> QED
    BY <2>1, <2>2
<1>5. ASSUME NEW g \in Groups
      PROVE  FrameInv(g)' /\ BusyInv(g)' /\ EndInv(g)' /\ SettledInv(g)'
  <2>1. task'[g].pc \in {"none", "view"}
    BY <1>3
  <2>2. BusyInv(g)' /\ EndInv(g)'
    BY <2>1 DEF BusyInv, EndInv, Busy, At
  <2>3. FrameInv(g)'
    BY <1>2 DEF FrameInv
  <2>4. rec'[g] = rec[g]
    BY <1>3
  <2>5. Resolved(g) => \A n \in Below[g] : rec'[n] = rec[n]
    BY <1>3 DEF Resolved
  <2>6. Resolved(g) => Resolved(g)'
    BY <2>5 DEF Resolved, Unresolved
  <2>7. Resolved(g) /\ AllJoined(g) => AllJoined(g)'
    BY <1>3, <2>5 DEF AllJoined, Joined
  <2>8. SettledInv(g)'
    BY <1>2, <2>4, <2>6, <2>7 DEF SettledInv, Settled
  <2> QED
    BY <2>2, <2>3, <2>8
<1>6. CursorIsAhead'
  <2>1. \A g \in Groups : \A n \in Below[g] : task'[n].pc = "none" /\ n \in Nodes
    BY <1>3
  <2> QED
    BY <1>1, <2>1 DEF CursorIsAhead, At
<1>7. StopClosesWaits'
  BY <1>1 DEF StopClosesWaits, Open
<1> QED
  BY <1>4, <1>5, <1>6, <1>7 DEF IInv

(* A step that touches no record, frame, future or variable of a group. *)
LEMMA OuterKeeps ==
    ASSUME IInv, TypeOK', UNCHANGED <<rec, frame, task, local, phase, available>>,
           \A g \in Groups : token'[g] = token[g],
           ~At(Root, "none") => (token[Run] => token'[Run]),
           \A m \in Signals : \/ wait'[m] = wait[m] \/ wait'[m] = "Closed"
                              \/ wait[m] = "Open" /\ wait'[m] = "Delivered",
           head.cancelRequested => head'.cancelRequested,
           \/ head' = head
           \/ head'.state \notin {"Blocked", "Succeeded", "Failed", "Cancelled"}
    PROVE  IInv'
<1>1. CursorIsAhead /\ StopClosesWaits /\ EndsAccounted
  BY Zenon DEF IInv
<1>2. \A g \in Groups : FrameInv(g) /\ BusyInv(g) /\ EndInv(g) /\ SettledInv(g)
  BY Zenon DEF IInv
<1>3. \A n \in Nodes : TreeInv(n) /\ KindInv(n) /\ DoneInv(n)
  BY Zenon DEF IInv
<1>4. \A n \in Nodes : ~At(n, "none") => (CancelledAbove(n) => CancelledAbove(n)')
  <2>1. \A n \in Nodes : ~At(n, "none") => ~At(Root, "none")
    BY BodyIsLast DEF At, Busy
  <2>2. \A n \in Nodes : \A s \in Above[n] : s = Run \/ s \in Groups
    BY AboveAre
  <2> QED
    BY <2>1, <2>2 DEF CancelledAbove
<1>5. ASSUME NEW n \in Nodes
      PROVE  TreeInv(n)' /\ KindInv(n)' /\ DoneInv(n)'
  <2>1. TreeInv(n)'
    BY <1>3 DEF TreeInv, At, Around
  <2>2. KindInv(n)'
    <3>1. n \in Signals => (wait'[n] = "None" => wait[n] = "None")
      OBVIOUS
    <3>2. KindInv(n)
      BY <1>3
    <3> QED
      BY <3>1, <3>2 DEF KindInv, At
  <2>3. DoneInv(n)'
    <3>1. At(n, "done") => (CancelSeen(n) => CancelSeen(n)')
      BY <1>4 DEF CancelSeen, At
    <3>2. DoneInv(n)
      BY <1>3
    <3> QED
      BY <3>1, <3>2 DEF DoneInv, At, Joined
  <2> QED
    BY <2>1, <2>2, <2>3
<1>6. ASSUME NEW g \in Groups
      PROVE  FrameInv(g)' /\ BusyInv(g)' /\ EndInv(g)' /\ SettledInv(g)'
  <2>1. FrameInv(g)' /\ EndInv(g)' /\ SettledInv(g)'
    <3>1. Resolved(g)' = Resolved(g) /\ AllJoined(g)' = AllJoined(g)
      BY DEF Resolved, AllJoined, Unresolved, Joined
    <3>2. FrameInv(g) /\ EndInv(g) /\ SettledInv(g)
      BY <1>2
    <3> QED
      BY <3>1, <3>2 DEF FrameInv, EndInv, SettledInv, Settled, At
  <2>2. BusyInv(g)'
    <3>1. SUFFICES ASSUME task[g].pc \in Busy
                   PROVE  CursorInv(g)' /\ StoppedInv(g)' /\ CollectedInv(g)'
      BY DEF BusyInv
    <3>2. CursorInv(g) /\ StoppedInv(g) /\ CollectedInv(g)
      BY <1>2, <3>1 DEF BusyInv
    <3>3. g \in Nodes /\ (CancelledAbove(g) => CancelledAbove(g)')
      BY <1>4, <3>1 DEF At, Busy, Nodes
    <3>4. CursorInv(g)'
      BY <3>2 DEF CursorInv, At, Live, Total
    <3>5. StoppedInv(g)'
      BY <3>2 DEF StoppedInv, At
    <3>6. CollectedInv(g)'
      BY <3>2, <3>3 DEF CollectedInv, At, Joined
    <3> QED
      BY <3>4, <3>5, <3>6
  <2> QED
    BY <2>1, <2>2
<1>7. CursorIsAhead'
  BY <1>1 DEF CursorIsAhead, At
<1>8. StopClosesWaits'
  BY <1>1 DEF StopClosesWaits, Open
<1>9. EndsAccounted'
  <2>1. (\A n \in Calls : rec[n].state # "Running" /\ ~Unresolved(n)) =>
           \A n \in Calls : rec'[n].state # "Running" /\ ~Unresolved(n)'
    BY DEF Unresolved
  <2>2. IsTerminal' /\ head'.error # "unresolved" => IsTerminal /\ head.error # "unresolved"
    BY DEF IsTerminal
  <2> QED
    BY <1>1, <2>1, <2>2 DEF EndsAccounted
<1> QED
  BY <1>5, <1>6, <1>7, <1>8, <1>9 DEF IInv

LEMMA CloseAll ==
    ASSUME TypeOK, wait' = Close(Nodes)
    PROVE  /\ wait' \in [Signals -> Waits]
           /\ \A m \in Signals : wait'[m] = wait[m] \/ wait'[m] = "Closed"
BY DEF TypeOK, Close, Waits

LEMMA CommandsKeep ==
    ASSUME IInv, \/ Cancel \/ CancelToken \/ (\E n \in Signals : Deliver(n)) \/ UNCHANGED vars
    PROVE  IInv'
<1>1. TypeOK
  BY Zenon DEF IInv
<1>2. CASE Cancel
  <2>1. wait' \in [Signals -> Waits] /\ \A m \in Signals : wait'[m] = wait[m] \/ wait'[m] = "Closed"
    BY <1>1, <1>2, CloseAll DEF Cancel
  <2>2. head'.cancelRequested /\ head'.state = "Cancelling" /\ TypeOK'
    BY <1>1, <1>2, <2>1 DEF Cancel, TypeOK, live
  <2>3. UNCHANGED <<rec, frame, task, local, phase, available>> /\ token' = token
    BY <1>2 DEF Cancel, live
  <2> QED
    BY <2>1, <2>2, <2>3, OuterKeeps
<1>3. CASE CancelToken
  <2>1. UNCHANGED <<head, wait, rec, frame, task, local, phase, available>>
    BY <1>3 DEF CancelToken, stored
  <2>2. Run \notin Groups
    BY AboveAre DEF Nodes
  <2> DEFINE on == ~At(Root, "none")
  <2>3. token' = [token EXCEPT ![Run] = on] /\ cancelling' = FALSE
    BY <1>3 DEF CancelToken
  <2>4. on \in BOOLEAN
    BY DEF At
  <2>5. on <=> ~At(Root, "none")
    OBVIOUS
  <2> HIDE DEF on
  <2>6. token' \in [Groups \cup {Run} -> BOOLEAN] /\ \A g \in Groups : token'[g] = token[g]
    BY <1>1, <2>2, <2>3, <2>4 DEF TypeOK
  <2>7. on => token'[Run]
    BY <1>1, <2>3 DEF TypeOK
  <2>8. TypeOK'
    BY <1>1, <2>1, <2>3, <2>6 DEF TypeOK
  <2> QED
    BY <2>1, <2>5, <2>6, <2>7, <2>8, OuterKeeps
<1>4. ASSUME NEW n \in Signals, Deliver(n)
      PROVE  IInv'
  <2>1. UNCHANGED <<head, rec, frame, task, local, token, phase, available, cancelling>>
    BY <1>4 DEF Deliver, process, live
  <2>2. wait[n] = "Open" /\ wait' = [wait EXCEPT ![n] = "Delivered"]
    BY <1>4 DEF Deliver
  <2>3. TypeOK'
    BY <1>1, <2>1, <2>2 DEF TypeOK, Waits
  <2>4. \A m \in Signals : wait'[m] = wait[m] \/ (wait[m] = "Open" /\ wait'[m] = "Delivered")
    BY <1>1, <2>2 DEF TypeOK
  <2> QED
    BY <2>1, <2>3, <2>4, OuterKeeps
<1>5. CASE UNCHANGED vars
  <2>1. UNCHANGED <<head, rec, frame, wait, task, local, token, phase, available, cancelling>>
    BY <1>5 DEF vars, stored, process, live
  <2>2. TypeOK'
    BY <1>1, <2>1 DEF TypeOK
  <2> QED
    BY <2>1, <2>2, OuterKeeps
<1> QED
  BY <1>2, <1>3, <1>4, <1>5

(* What the invariant says of a run without futures. *)
LEMMA IdleFacts ==
    ASSUME IInv, \/ At(Root, "none") \/ phase # "ready"
                 \/ head.state \in {"Blocked", "Succeeded", "Failed", "Cancelled"}
    PROVE  /\ TypeOK /\ EndsAccounted
           /\ \A n \in Nodes : At(n, "none") /\ KindInv(n) /\ (n \in Groups => ~Unresolved(n))
           /\ \A n \in Calls : n \in Nodes /\ (phase = "ready" /\ available => rec[n].state # "Running")
           /\ Root \in Nodes /\ Around(Root) = {}
<1>1. TypeOK /\ EndsAccounted /\ \A n \in Nodes : TreeInv(n) /\ KindInv(n)
  BY Zenon DEF IInv
<1>2. \A n \in Nodes : At(n, "none")
  <2>1. At(Root, "none") => \A n \in Nodes : At(n, "none")
    BY BodyIsLast DEF At, Busy
  <2> QED
    BY <1>1, <2>1 DEF TreeInv
<1>3. \A n \in Nodes : n \in Groups => ~Unresolved(n)
  BY <1>1 DEF KindInv, Unresolved
<1>4. \A n \in Calls : n \in Nodes
  BY DEF Nodes
<1>5. \A n \in Calls : phase = "ready" /\ available => rec[n].state # "Running"
  BY <1>1, <1>2, <1>4 DEF KindInv, At
<1> QED
  BY <1>1, <1>2, <1>3, <1>4, <1>5, AboveAre

LEMMA SpawnKeeps ==
    ASSUME IInv, Spawn
    PROVE  IInv'
<1>1. At(Root, "none") /\ phase = "ready"
      /\ head.state \in {"Accepted", "Running", "Cancelling", "Waiting"}
  BY DEF Spawn
<1>2. UNCHANGED <<rec, frame, wait, phase, available, cancelling>>
  BY DEF Spawn, process
<1>3. /\ TypeOK /\ \A n \in Nodes : At(n, "none") /\ KindInv(n)
      /\ Root \in Nodes /\ Around(Root) = {}
  BY <1>1, IdleFacts
<1>4. CASE available
  <2>1. /\ head' = IF head.cancelRequested THEN head ELSE [head EXCEPT !.state = "Running"]
        /\ task' = [task EXCEPT ![Root].pc = "view"]
        /\ local' = [g \in Groups |-> NoLocal]
        /\ token' = [s \in Groups \cup {Run} |-> FALSE]
    BY <1>4 DEF Spawn, Goto
  <2>2. head'.state \in {"Accepted", "Running", "Cancelling", "Waiting"}
    BY <1>1, <1>3, <2>1 DEF TypeOK
  <2>3. task' \in [Nodes -> [pc : Pcs, result : Results]]
    BY <1>3, <2>1 DEF TypeOK, Pcs
  <2>4. task'[Root].pc = "view" /\ \A n \in Nodes : n # Root => task'[n].pc = "none"
    BY <1>3, <2>1 DEF TypeOK, At
  <2>5. local' \in [Groups -> [next : Nat, halted : BOOLEAN,
                              failed : {"none"} \cup Errors, suspended : BOOLEAN]]
    BY <2>1 DEF NoLocal
  <2>6. TypeOK'
    <3>1. token' \in [Groups \cup {Run} -> BOOLEAN]
      BY <2>1
    <3>2. head' \in [state : {"Accepted", "Running", "Waiting", "Blocked", "Cancelling",
                              "Succeeded", "Failed", "Cancelled"},
                     cancelRequested : BOOLEAN,
                     error : {"none", "unknown", "unavailable", "unresolved", "other"},
                     unresolved : SUBSET Calls]
      BY <1>3, <2>1 DEF TypeOK
    <3> QED
      BY <1>2, <1>3, <2>3, <2>5, <3>1, <3>2 DEF TypeOK
  <2>7. TreeInv(Root)'
    BY <1>1, <1>2, <1>3, <1>4, <2>2 DEF TreeInv, Around
  <2>8. EndsAccounted'
    BY <2>2 DEF EndsAccounted, IsTerminal
  <2>9. \A n \in Nodes : KindInv(n)'
    BY <1>2, <1>3, <2>4 DEF KindInv, At
  <2> QED
    BY <1>2, <2>4, <2>6, <2>7, <2>8, <2>9, IdleKeeps
<1>5. CASE ~available
  <2>1. /\ head' = [head EXCEPT !.state = "Blocked", !.error = "unavailable"]
        /\ UNCHANGED <<task, local, token>>
    BY <1>5 DEF Spawn, live
  <2>2. TypeOK' /\ head'.state = "Blocked"
    BY <1>2, <1>3, <2>1 DEF TypeOK
  <2>3. \A n \in Nodes : task'[n].pc = "none"
    BY <1>3, <2>1 DEF At
  <2>4. TreeInv(Root)' /\ EndsAccounted'
    BY <1>3, <2>2, <2>3 DEF TreeInv, EndsAccounted, IsTerminal, At
  <2>5. \A n \in Nodes : KindInv(n)'
    BY <1>2, <1>3, <2>3 DEF KindInv, At
  <2>6. Root \in Nodes
    BY <1>3
  <2> QED
    BY <1>2, <2>2, <2>3, <2>4, <2>5, <2>6, IdleKeeps
<1> QED
  BY <1>4, <1>5

LEMMA FinishKeeps ==
    ASSUME IInv, Finish
    PROVE  IInv'
<1>1. At(Root, "done") /\ ~At(Root, "none") /\ Root \in Nodes /\ Around(Root) = {} /\ Root \in Groups
  BY AboveAre, GroupsAssumption DEF Finish, At
<1>2. /\ TypeOK /\ phase = "ready" /\ available
      /\ head.state \notin {"Blocked", "Succeeded", "Failed", "Cancelled"} /\ ~IsTerminal
  BY <1>1, LiveFacts DEF IsTerminal
<1>3. /\ Goto(Root, "none") /\ UNCHANGED <<frame, phase, available, cancelling, local, token>>
  BY DEF Finish, process
<1>4. \A n \in Nodes : task'[n].pc = "none"
  <2>1. \A n \in Nodes : n # Root => At(n, "none")
    BY <1>1, BodyIsLast DEF At, Busy
  <2> QED
    BY <1>1, <1>2, <1>3, <2>1 DEF TypeOK, Goto, At
<1>5. task' \in [Nodes -> [pc : Pcs, result : Results]]
  BY <1>1, <1>2, <1>3 DEF TypeOK, Goto, Pcs
<1>6. \A n \in Nodes : KindInv(n) /\ (n \in Groups => ~Unresolved(n))
  <2>1. \A n \in Nodes : KindInv(n)
    BY Zenon DEF IInv
  <2> QED
    BY <2>1 DEF KindInv, Unresolved
<1>7. \A n \in Calls : n \in Nodes /\ rec[n].state # "Running"
  <2>1. \A n \in Calls : n \in Nodes /\ n # Root
    BY <1>1, GroupsAssumption DEF Nodes
  <2>2. \A n \in Calls : At(n, "none")
    BY <1>1, <2>1, BodyIsLast DEF At, Busy
  <2> QED
    BY <1>2, <1>6, <2>1, <2>2 DEF KindInv, At
<1>8. TreeInv(Root)'
  BY <1>1, <1>4 DEF TreeInv, At
<1>9. CASE /\ head' = IF head.cancelRequested THEN head ELSE [head EXCEPT !.state = "Waiting"]
           /\ UNCHANGED <<rec, wait>>
  <2>1. TypeOK'
    BY <1>2, <1>3, <1>5, <1>9 DEF TypeOK
  <2>2. ~IsTerminal'
    BY <1>2, <1>9 DEF IsTerminal, TypeOK
  <2>3. \A n \in Nodes : KindInv(n)'
    BY <1>2, <1>3, <1>4, <1>6, <1>7, <1>9 DEF KindInv, At
  <2>4. EndsAccounted'
    BY <2>2 DEF EndsAccounted
  <2> QED
    BY <1>1, <1>3, <1>4, <1>8, <1>9, <2>1, <2>3, <2>4, IdleKeeps
<1>10. CASE /\ rec' = [n \in Nodes |-> IF Unresolved(n) THEN [rec[n] EXCEPT !.state = "Unknown"]
                                                        ELSE rec[n]]
            /\ \/ head' = [head EXCEPT !.state = "Blocked", !.error = "unknown"] /\ wait' = wait
               \/ /\ \A n \in Nodes : ~Unresolved(n)
                  /\ \/ Ends("Cancelled", "other") \/ Ends("Succeeded", "none")
                     \/ Ends("Failed", "other")
  <2>1. ASSUME NEW n \in Nodes
        PROVE  /\ rec'[n] \in Records
               /\ rec'[n].state = IF Unresolved(n) THEN "Unknown" ELSE rec[n].state
               /\ rec'[n].suspect = rec[n].suspect /\ rec'[n].error = rec[n].error
               /\ ~Unresolved(n) => rec'[n] = rec[n]
    <3>1. rec[n] \in Records
      BY <1>2 DEF TypeOK
    <3>2. CASE Unresolved(n)
      <4>1. rec'[n] = [rec[n] EXCEPT !.state = "Unknown"]
        BY <1>10, <3>2
      <4>2. rec'[n] = [state |-> "Unknown", suspect |-> rec[n].suspect, error |-> rec[n].error]
        BY <3>1, <4>1 DEF Records
      <4> QED
        BY <3>1, <3>2, <4>2 DEF Records
    <3>3. CASE ~Unresolved(n)
      BY <1>10, <3>1, <3>3
    <3> QED
      BY <3>2, <3>3
  <2>2. rec' \in [Nodes -> Records]
    BY <1>10, <2>1
  <2>3. ASSUME wait' \in [Signals -> Waits],
               \A m \in Signals : wait'[m] = wait[m] \/ wait'[m] = "Closed",
               NEW state \in {"Blocked", "Cancelled", "Succeeded", "Failed"},
               NEW error \in {"none", "unknown", "other"},
               head' = [head EXCEPT !.state = state, !.error = error],
               state # "Blocked" => \A n \in Nodes : ~Unresolved(n)
        PROVE  IInv'
    <3>1. TypeOK'
      BY <1>2, <1>3, <1>5, <2>2, <2>3 DEF TypeOK
    <3>2. \A n \in Nodes : KindInv(n)'
      <4>1. \A n \in Signals : wait'[n] = "None" => wait[n] = "None"
        BY <2>3
      <4>2. \A n \in Nodes : Unresolved(n) => rec[n].state # "Absent" /\ n \in Calls
        BY <1>6 DEF KindInv, Unresolved, Nodes
      <4>3. \A n \in Calls : n \notin Signals /\ n \notin Groups
        BY GroupsAssumption
      <4> QED
        BY <1>4, <1>6, <1>7, <2>1, <4>1, <4>2, <4>3 DEF KindInv, At
    <3>3. EndsAccounted'
      <4>1. CASE state = "Blocked"
        BY <1>2, <2>3, <4>1 DEF EndsAccounted, IsTerminal, TypeOK
      <4>2. CASE state # "Blocked"
        <5>1. \A n \in Calls : n \in Nodes /\ rec'[n] = rec[n] /\ ~Unresolved(n)
          BY <1>7, <2>1, <2>3, <4>2
        <5> QED
          BY <1>7, <5>1 DEF EndsAccounted, Unresolved
      <4> QED
        BY <4>1, <4>2
    <3>4. \A n \in Nodes : /\ rec[n].state = "Absent" => rec'[n].state = "Absent"
                           /\ ~Unresolved(n) => rec'[n] = rec[n]
                           /\ n \in Groups => rec'[n] = rec[n]
      <4>1. \A n \in Nodes : rec[n].state = "Absent" => ~Unresolved(n)
        BY DEF Unresolved
      <4> QED
        BY <1>6, <2>1, <4>1
    <3> QED
      BY <1>1, <1>3, <1>4, <1>8, <2>3, <3>1, <3>2, <3>3, <3>4, IdleKeeps
  <2>4. wait' = wait => /\ wait' \in [Signals -> Waits]
                        /\ \A m \in Signals : wait'[m] = wait[m] \/ wait'[m] = "Closed"
    BY <1>2 DEF TypeOK
  <2>5. wait' = Close(Nodes) => /\ wait' \in [Signals -> Waits]
                                /\ \A m \in Signals : wait'[m] = wait[m] \/ wait'[m] = "Closed"
    BY <1>2, CloseAll
  <2> QED
    BY <1>10, <2>3, <2>4, <2>5 DEF Ends
<1> QED
  BY <1>2, <1>9, <1>10 DEF Finish

LEMMA ReconcileKeeps ==
    ASSUME IInv, NEW n \in Calls, Reconcile(n)
    PROVE  IInv'
<1>1. phase = "ready" /\ head.state = "Blocked" /\ rec[n].state = "Unknown"
  BY DEF Reconcile, Resolvable
<1>2. /\ TypeOK /\ \A m \in Nodes : At(m, "none") /\ KindInv(m)
      /\ n \in Nodes /\ Root \in Nodes
  BY <1>1, IdleFacts
<1>3. n \notin Groups /\ n \notin Signals /\ n \in Errors /\ n # "none"
  BY <1>2, GroupsAssumption DEF Errors, Reserved
<1>4. UNCHANGED <<frame, wait, phase, available, cancelling, task, local, token>>
  BY DEF Reconcile, process, live
<1>5. PICK state \in {"Succeeded", "Failed", "Pending"} :
         rec' = [rec EXCEPT ![n] = [state |-> state, suspect |-> FALSE,
                                    error |-> IF state = "Failed" THEN n ELSE "none"]]
  BY DEF Reconcile
<1>6. rec'[n] = [state |-> state, suspect |-> FALSE, error |-> IF state = "Failed" THEN n ELSE "none"]
      /\ \A m \in Nodes : m # n => rec'[m] = rec[m]
  BY <1>2, <1>5 DEF TypeOK
<1>7. rec' \in [Nodes -> Records]
  <2>1. rec'[n] \in Records
    BY <1>3, <1>6 DEF Records
  <2> QED
    BY <1>2, <1>5, <1>6, <2>1 DEF TypeOK
<1>8. \/ head' = head
      \/ \E next \in {"Cancelling", "Accepted"} :
            head' = [head EXCEPT !.error = "none", !.state = next]
  BY DEF Reconcile
<1>9. head' \in [state : {"Accepted", "Running", "Waiting", "Blocked", "Cancelling",
                          "Succeeded", "Failed", "Cancelled"},
                 cancelRequested : BOOLEAN,
                 error : {"none", "unknown", "unavailable", "unresolved", "other"},
                 unresolved : SUBSET Calls]
      /\ head'.state \in {"Blocked", "Cancelling", "Accepted"}
  BY <1>1, <1>2, <1>8 DEF TypeOK
<1>10. TypeOK'
  BY <1>2, <1>4, <1>7, <1>9 DEF TypeOK
<1>11. EndsAccounted'
  BY <1>9 DEF EndsAccounted, IsTerminal
<1>12. \A m \in Nodes : task'[m].pc = "none"
  BY <1>2, <1>4 DEF At
<1>13. TreeInv(Root)'
  BY <1>2, <1>12 DEF TreeInv, At
<1>14. KindInv(n)'
  BY <1>2, <1>3, <1>6, <1>12 DEF KindInv, At
<1>15. \A m \in Nodes : m # n => KindInv(m)'
  BY <1>2, <1>4, <1>6 DEF KindInv, At
<1>16. Unresolved(n) /\ rec[n].state # "Absent"
  BY <1>1 DEF Unresolved
<1> QED
  BY <1>2, <1>3, <1>4, <1>6, <1>10, <1>11, <1>12, <1>13, <1>14, <1>15, <1>16, IdleKeeps

LEMMA StopTrackingKeeps ==
    ASSUME IInv, NEW n \in Calls, StopTracking(n)
    PROVE  IInv'
<1>1. phase = "ready" /\ head.state = "Blocked"
  BY DEF StopTracking, Resolvable
<1>2. /\ TypeOK /\ \A m \in Nodes : At(m, "none") /\ KindInv(m) /\ (m \in Groups => ~Unresolved(m))
      /\ Root \in Nodes
  BY <1>1, IdleFacts
<1>3. UNCHANGED <<rec, frame, phase, available, cancelling, task, local, token>>
  BY DEF StopTracking, process, live
<1>4. wait' \in [Signals -> Waits] /\ \A m \in Signals : wait'[m] = wait[m] \/ wait'[m] = "Closed"
  BY <1>2, CloseAll DEF StopTracking
<1> DEFINE left == {m \in Nodes : rec[m].state = "Unknown"}
<1>5. left \subseteq Calls
  BY <1>2 DEF KindInv, Nodes
<1>6. \E state \in {"Cancelled", "Failed"} :
         head' = [head EXCEPT !.state = state, !.error = "unresolved", !.unresolved = left]
  BY DEF StopTracking
<1> HIDE DEF left
<1>7. TypeOK' /\ head'.error = "unresolved"
  BY <1>2, <1>3, <1>4, <1>5, <1>6 DEF TypeOK
<1>8. EndsAccounted'
  BY <1>7 DEF EndsAccounted
<1>9. \A m \in Nodes : task'[m].pc = "none"
  BY <1>2, <1>3 DEF At
<1>10. TreeInv(Root)'
  BY <1>2, <1>9 DEF TreeInv, At
<1>11. \A m \in Nodes : KindInv(m)'
  <2>1. \A m \in Signals : wait'[m] = "None" => wait[m] = "None"
    BY <1>4
  <2> QED
    BY <1>2, <1>3, <2>1 DEF KindInv, At
<1> QED
  BY <1>2, <1>3, <1>4, <1>7, <1>8, <1>9, <1>10, <1>11, IdleKeeps

LEMMA CrashKeeps ==
    ASSUME IInv, Crash
    PROVE  IInv'
<1>1. /\ UNCHANGED <<head, rec, frame, wait, available>> /\ phase' = "down" /\ cancelling' = FALSE
      /\ task'  = [n \in Nodes |-> NoTask]
      /\ local' = [g \in Groups |-> NoLocal]
      /\ token' = [s \in Groups \cup {Run} |-> FALSE]
  BY DEF Crash, stored
<1>2. TypeOK /\ EndsAccounted /\ \A n \in Nodes : KindInv(n)
  BY Zenon DEF IInv
<1>3. TypeOK'
  <2>1. local' \in [Groups -> [next : Nat, halted : BOOLEAN,
                              failed : {"none"} \cup Errors, suspended : BOOLEAN]]
    BY <1>1 DEF NoLocal
  <2>2. task' \in [Nodes -> [pc : Pcs, result : Results]]
    BY <1>1 DEF NoTask, Pcs, Results
  <2>3. token' \in [Groups \cup {Run} -> BOOLEAN]
    BY <1>1
  <2> QED
    BY <1>1, <1>2, <2>1, <2>2, <2>3 DEF TypeOK
<1>4. \A n \in Nodes : task'[n].pc = "none"
  BY <1>1 DEF NoTask
<1>5. TreeInv(Root)' /\ Root \in Nodes
  BY <1>4, AboveAre DEF TreeInv, At
<1>6. \A n \in Nodes : KindInv(n)'
  BY <1>1, <1>2, <1>4 DEF KindInv, At
<1>7. EndsAccounted'
  BY <1>1, <1>2 DEF EndsAccounted, IsTerminal, Unresolved
<1> QED
  BY <1>1, <1>3, <1>4, <1>5, <1>6, <1>7, IdleKeeps

LEMMA BootKeeps ==
    ASSUME IInv, Boot
    PROVE  IInv'
<1>1. /\ UNCHANGED <<head, rec, frame, wait, cancelling, task, local, token>>
      /\ phase = "down" /\ phase' = "boot" /\ available' \in BOOLEAN
  BY DEF Boot, stored, live
<1>2. TypeOK /\ EndsAccounted /\ Root \in Nodes /\ \A n \in Nodes : At(n, "none") /\ KindInv(n)
  BY <1>1, IdleFacts
<1>3. TypeOK'
  BY <1>1, <1>2 DEF TypeOK
<1>4. \A n \in Nodes : task'[n].pc = "none"
  BY <1>1, <1>2 DEF At
<1>5. TreeInv(Root)'
  BY <1>2, <1>4 DEF TreeInv, At
<1>6. \A n \in Nodes : KindInv(n)'
  BY <1>1, <1>2, <1>4 DEF KindInv, At
<1>7. EndsAccounted'
  BY <1>1, <1>2 DEF EndsAccounted, IsTerminal, Unresolved
<1> QED
  BY <1>1, <1>2, <1>3, <1>4, <1>5, <1>6, <1>7, IdleKeeps

LEMMA BootClassifyKeeps ==
    ASSUME IInv, NEW n \in Calls, BootClassify(n)
    PROVE  IInv'
<1>1. phase = "boot" /\ rec[n].state = "Running" /\ n \in Nodes
  BY DEF BootClassify, Nodes
<1>2. TypeOK /\ EndsAccounted /\ Root \in Nodes /\ \A m \in Nodes : At(m, "none") /\ KindInv(m)
  BY <1>1, IdleFacts
<1>3. UNCHANGED <<head, frame, wait, phase, available, cancelling, task, local, token>>
  BY DEF BootClassify, process, live
<1>4. n \notin Groups /\ n \notin Signals /\ n \in Errors /\ n # "none"
  BY <1>1, GroupsAssumption DEF Errors, Reserved
<1>5. PICK suspect \in BOOLEAN, s \in {"Unknown", "Cancelled", "Failed", "Pending"} :
         rec' = [rec EXCEPT ![n] =
            [state |-> s, suspect |-> suspect,
             error |-> IF s = "Cancelled" THEN "cancelled" ELSE IF s = "Failed" THEN n ELSE "none"]]
  <2>1. rec[n].suspect \in BOOLEAN
    BY <1>1, <1>2 DEF TypeOK, Records
  <2>2. PICK known \in BOOLEAN :
           LET suspect == rec[n].suspect \/ ~known
               state   == CASE suspect -> {"Unknown"}
                            [] head.cancelRequested -> {"Cancelled"}
                            [] OTHER -> {"Failed"}
           IN  \E s \in state \cup IF head.cancelRequested THEN {} ELSE {"Pending"} :
                  rec' = [rec EXCEPT ![n] =
                     [state |-> s, suspect |-> suspect,
                      error |-> CASE s = "Cancelled" -> "cancelled"
                                  [] s = "Failed" -> n
                                  [] OTHER -> "none"]]
    BY DEF BootClassify
  <2> DEFINE doubt == rec[n].suspect \/ ~known
  <2>3. doubt \in BOOLEAN
    OBVIOUS
  <2>4. \E s \in {"Unknown", "Cancelled", "Failed", "Pending"} :
           rec' = [rec EXCEPT ![n] =
              [state |-> s, suspect |-> doubt,
               error |-> CASE s = "Cancelled" -> "cancelled"
                           [] s = "Failed" -> n
                           [] OTHER -> "none"]]
    BY <2>2
  <2> HIDE DEF doubt
  <2> QED
    BY <2>3, <2>4
<1>6. /\ rec'[n] = [state |-> s, suspect |-> suspect,
            error |-> IF s = "Cancelled" THEN "cancelled" ELSE IF s = "Failed" THEN n ELSE "none"]
      /\ \A m \in Nodes : m # n => rec'[m] = rec[m]
  BY <1>1, <1>2, <1>5 DEF TypeOK
<1>7. rec'[n] \in Records
  BY <1>4, <1>5, <1>6 DEF Records, Errors
<1>8. TypeOK'
  <2>1. rec' \in [Nodes -> Records]
    BY <1>2, <1>5, <1>6, <1>7 DEF TypeOK
  <2> QED
    BY <1>2, <1>3, <2>1 DEF TypeOK
<1>9. \A m \in Nodes : task'[m].pc = "none"
  BY <1>2, <1>3 DEF At
<1>10. TreeInv(Root)'
  BY <1>2, <1>9 DEF TreeInv, At
<1>11. KindInv(n)'
  BY <1>1, <1>3, <1>4, <1>6, <1>9 DEF KindInv, At
<1>12. \A m \in Nodes : m # n => KindInv(m)'
  BY <1>2, <1>3, <1>6 DEF KindInv, At
<1>13. EndsAccounted'
  BY <1>1, <1>2, <1>3 DEF EndsAccounted, IsTerminal
<1> QED
  BY <1>1, <1>2, <1>3, <1>4, <1>6, <1>8, <1>9, <1>10, <1>11, <1>12, <1>13, IdleKeeps

LEMMA BootReadyKeeps ==
    ASSUME IInv, BootReady
    PROVE  IInv'
<1>1. /\ phase = "boot" /\ phase' = "ready" /\ (available => \A n \in Calls : rec[n].state # "Running")
      /\ UNCHANGED <<rec, frame, wait, available, cancelling, task, local, token>>
  BY DEF BootReady, live
<1>2. TypeOK /\ EndsAccounted /\ Root \in Nodes /\ \A m \in Nodes : At(m, "none") /\ KindInv(m)
  BY <1>1, IdleFacts
<1>3. \/ head' = head
      \/ ~IsTerminal /\ \E state \in {"Blocked", "Cancelling", "Running"}, error \in {"unavailable", "none"} :
            head' = [head EXCEPT !.state = state, !.error = error]
  <2>1. CASE IsTerminal
    BY <2>1 DEF BootReady
  <2>2. CASE ~IsTerminal /\ ~available
    BY <2>2 DEF BootReady
  <2>3. CASE ~IsTerminal /\ available /\ head.state = "Blocked" /\ head.error = "unavailable"
    <3>1. head' = [head EXCEPT !.error = "none",
                     !.state = IF head.cancelRequested THEN "Cancelling" ELSE "Running"]
      BY <2>3 DEF BootReady
    <3> QED
      BY <1>2, <2>3, <3>1 DEF TypeOK
  <2>4. CASE ~IsTerminal /\ available /\ ~(head.state = "Blocked" /\ head.error = "unavailable")
    BY <2>4 DEF BootReady
  <2> QED
    BY <2>1, <2>2, <2>3, <2>4
<1>4. TypeOK'
  BY <1>1, <1>2, <1>3 DEF TypeOK
<1>5. \A m \in Nodes : task'[m].pc = "none"
  BY <1>1, <1>2 DEF At
<1>6. TreeInv(Root)'
  BY <1>2, <1>5 DEF TreeInv, At
<1>7. \A m \in Nodes : KindInv(m)'
  BY <1>1, <1>2, <1>5 DEF KindInv, At
<1>8. EndsAccounted'
  <2>1. CASE head' = head
    BY <1>1, <1>2, <2>1 DEF EndsAccounted, IsTerminal, Unresolved
  <2>2. CASE head' # head
    <3>1. head'.state \in {"Blocked", "Cancelling", "Running"}
      BY <1>2, <1>3, <2>2 DEF TypeOK
    <3> QED
      BY <3>1 DEF EndsAccounted, IsTerminal
  <2> QED
    BY <2>1, <2>2
<1> QED
  BY <1>1, <1>2, <1>4, <1>5, <1>6, <1>7, <1>8, IdleKeeps

-----------------------------------------------------------------------------
LEMMA Initially ==
    ASSUME Init
    PROVE  IInv
<1>1. /\ \A n \in Nodes : rec[n] = NoRecord /\ task[n] = NoTask
      /\ \A g \in Groups : frame[g] = NoFrame /\ local[g] = NoLocal
      /\ \A n \in Signals : wait[n] = "None"
  BY DEF Init, Idle
<1>2. TypeOK
  <2>1. NoRecord \in Records /\ NoTask \in [pc : Pcs, result : Results]
    BY DEF NoRecord, Records, NoTask, Pcs, Results
  <2>2. NoFrame \in [next : Nat, stopped : BOOLEAN, error : {"none"} \cup Errors]
    BY DEF NoFrame
  <2>3. NoLocal \in [next : Nat, halted : BOOLEAN, failed : {"none"} \cup Errors, suspended : BOOLEAN]
    BY DEF NoLocal
  <2> QED
    BY <2>1, <2>2, <2>3 DEF Init, Idle, TypeOK, Waits
<1>3. Groups \subseteq Nodes /\ \A g \in Groups : Below[g] \subseteq Nodes
  BY BelowClosed DEF Nodes
<1>4. \A n \in Nodes : TreeInv(n) /\ KindInv(n) /\ DoneInv(n)
  BY <1>1 DEF TreeInv, KindInv, DoneInv, At, NoRecord, NoTask
<1>5. ASSUME NEW g \in Groups
      PROVE  FrameInv(g) /\ BusyInv(g) /\ EndInv(g) /\ SettledInv(g)
  <2>1. FrameInv(g)
    BY <1>1, KidsAre DEF FrameInv, NoFrame
  <2>2. task[g].pc = "none" /\ rec[g].state = "Absent"
    BY <1>1, <1>3 DEF NoTask, NoRecord
  <2> QED
    BY <2>1, <2>2 DEF BusyInv, Busy, EndInv, SettledInv, Settled, At
<1>6. CursorIsAhead
  BY <1>1, <1>3 DEF CursorIsAhead, At, NoRecord, NoTask
<1>7. StopClosesWaits
  BY <1>1 DEF StopClosesWaits, NoFrame
<1>8. EndsAccounted
  BY DEF Init, EndsAccounted, IsTerminal
<1> QED
  BY <1>2, <1>4, <1>5, <1>6, <1>7, <1>8 DEF IInv

LEMMA NextKeeps ==
    ASSUME IInv, [Next]_vars
    PROVE  IInv'
<1>1. ASSUME NEW n \in Nodes, NodeStep(n)
      PROVE  IInv'
  BY <1>1, ViewKeeps, DispatchKeeps, OutcomeKeeps, ReserveKeeps, ConsumeKeeps DEF NodeStep
<1>2. ASSUME NEW g \in Groups, GroupStep(g)
      PROVE  IInv'
  BY <1>2, EnterKeeps, AdmitKeeps, AdmitExhaustedKeeps, AdmittedKeeps, StopKeeps, ChildDoneKeeps,
     EndKeeps, SaveKeeps, FailKeeps DEF GroupStep
<1>3. CASE Spawn \/ Finish
  BY <1>3, SpawnKeeps, FinishKeeps
<1>4. CASE Command
  BY <1>4, CommandsKeep, ReconcileKeeps, StopTrackingKeeps DEF Command
<1>5. CASE Crash \/ Boot \/ BootStep
  BY <1>5, CrashKeeps, BootKeeps, BootClassifyKeeps, BootReadyKeeps DEF BootStep
<1>6. CASE UNCHANGED vars
  BY <1>6, CommandsKeep
<1> QED
  BY <1>1, <1>2, <1>3, <1>4, <1>5, <1>6 DEF Next, RunStep

LEMMA Invariance == Spec => []IInv
<1>1. Init => IInv
  BY Initially
<1>2. IInv /\ [Next]_vars => IInv'
  BY NextKeeps
<1> QED
  BY <1>1, <1>2, PTL DEF Spec

(* What the run checks on its instances, for every tree of groups: the      *)
(* saved cursor is ahead of every child, a saved stop leaves no reservation *)
(* open below it and keeps its error, and a group settles, or joins, only   *)
(* over children that are accounted for (groups.rs, planner.rs).            *)
THEOREM GroupsStayInAgreement == Spec => []GroupsAgree
<1>1. ASSUME IInv
      PROVE  GroupsAgree
  <2>1. CursorIsAhead /\ StopClosesWaits /\ EndsAccounted /\ \A g \in Groups : SettledInv(g)
    BY <1>1, Zenon DEF IInv
  <2>2. UnknownIsNotCollected
    BY <2>1 DEF SettledInv, UnknownIsNotCollected, Resolved
  <2>3. JoinsAll
    BY <2>1 DEF SettledInv, JoinsAll, AllJoined, Joined
  <2>4. FailureIsKept
    BY <2>1 DEF SettledInv, FailureIsKept
  <2> QED
    BY <2>1, <2>2, <2>3, <2>4 DEF GroupsAgree
<1> QED
  BY <1>1, Invariance, PTL

(* Every variable keeps its type. *)
THEOREM TypesHold == Spec => []TypeOK
<1>1. IInv => TypeOK
  BY Zenon DEF IInv
<1> QED
  BY <1>1, Invariance, PTL

-----------------------------------------------------------------------------
(* No step starts anything below a saved stop. *)
StopHolds(g) == frame[g].stopped => frame'[g] = frame[g]
StartsNothing(n) ==
    (\E g \in Above[n] \ {Run} : frame[g].stopped) =>
        /\ rec'[n].state = "Running" => rec[n].state = "Running"
        /\ n \in Signals => (wait[n] = "None" => wait'[n] = "None")
NoStart == /\ \A g \in Groups : StopHolds(g)
           /\ \A n \in Calls \cup Signals : StartsNothing(n)

(* The saved stop of a group is saved again as it is. *)
LEMMA SaveStopHolds ==
    ASSUME IInv, NEW g \in Groups, task[g].pc \in Busy, NEW error \in Errors, SaveStop(g, error)
    PROVE  /\ \A h \in Groups : StopHolds(h)
           /\ \A m \in Signals : wait[m] = "None" => wait'[m] = "None"
<1>1. ~At(g, "none")
  BY DEF At, Busy
<1>2. /\ TypeOK /\ FrameInv(g) /\ CursorInv(g)
      /\ DOMAIN frame = Groups
      /\ frame[g] \in [next : Nat, stopped : BOOLEAN, error : {"none"} \cup Errors]
      /\ local[g] \in [next : Nat, halted : BOOLEAN, failed : {"none"} \cup Errors, suspended : BOOLEAN]
  BY <1>1, GroupFacts DEF BusyInv
<1>3. Advanced(g, local[g].next) = frame[g].next
  BY <1>2 DEF CursorInv, Advanced
<1>4. frame' = [frame EXCEPT ![g] =
           [next    |-> frame[g].next, stopped |-> TRUE,
            error   |-> IF frame[g].error = "none" THEN error ELSE frame[g].error]]
  BY <1>2, <1>3 DEF SaveStop
<1>5. frame[g].stopped => frame'[g] = frame[g]
  <2>1. SUFFICES ASSUME frame[g].stopped PROVE frame'[g] = frame[g]
    OBVIOUS
  <2>2. frame[g].error # "none" /\ frame[g].stopped = TRUE
    BY <1>2, <2>1 DEF FrameInv
  <2>3. frame'[g] = [next |-> frame[g].next, stopped |-> TRUE, error |-> frame[g].error]
    BY <1>2, <1>4, <2>2
  <2>4. frame[g] = [next |-> frame[g].next, stopped |-> TRUE, error |-> frame[g].error]
    BY <1>2, <2>2
  <2> QED
    BY <2>3, <2>4
<1>6. \A h \in Groups : StopHolds(h)
  BY <1>2, <1>4, <1>5 DEF StopHolds
<1>7. \A m \in Signals : wait[m] = "None" => wait'[m] = "None"
  BY DEF SaveStop, Close, Open
<1> QED
  BY <1>6, <1>7

LEMMA GroupStartsNothing ==
    ASSUME IInv, NEW g \in Groups, GroupStep(g)
    PROVE  NoStart
<1>1. \A n \in Calls \cup Signals : n \in Nodes /\ n # g
  BY GroupsAssumption DEF Nodes
<1>2. TypeOK /\ g \in Nodes /\ DOMAIN rec = Nodes /\ DOMAIN frame = Groups
  BY Zenon DEF IInv, Nodes, TypeOK
<1>3. ASSUME frame' = frame, wait' = wait, \A n \in Nodes : n # g => rec'[n] = rec[n]
      PROVE  NoStart
  BY <1>1, <1>3 DEF NoStart, StopHolds, StartsNothing
<1>4. ASSUME task[g].pc \in Busy, NEW error \in Errors, SaveStop(g, error), rec' = rec
      PROVE  NoStart
  BY <1>4, SaveStopHolds DEF NoStart, StartsNothing
<1>5. CASE Enter(g)
  BY <1>2, <1>3, <1>5 DEF Enter
<1>6. CASE Admit(g)
  <2>1. frame' = [frame EXCEPT ![g].next = Advanced(g, local[g].next + 1)] /\ rec' = rec /\ wait' = wait
        /\ At(g, "admit") /\ local[g].next < Total(g)
    BY <1>6 DEF Admit, MayAdmit
  <2>2. ~At(g, "none") /\ task[g].pc \in Busy
    BY <2>1 DEF At, Busy
  <2>3. /\ CursorInv(g)
        /\ frame[g] \in [next : Nat, stopped : BOOLEAN, error : {"none"} \cup Errors]
        /\ local[g] \in [next : Nat, halted : BOOLEAN, failed : {"none"} \cup Errors, suspended : BOOLEAN]
    BY <2>2, GroupFacts DEF BusyInv
  <2>4. frame[g].stopped => Advanced(g, local[g].next + 1) = frame[g].next
    BY <2>1, <2>3 DEF Advanced, Total
  <2>5. frame[g].stopped => frame'[g] = frame[g]
    BY <1>2, <2>1, <2>3, <2>4
  <2>6. \A h \in Groups : StopHolds(h)
    BY <1>2, <2>1, <2>5 DEF StopHolds
  <2> QED
    BY <2>1, <2>6 DEF NoStart, StartsNothing
<1>7. CASE AdmitExhausted(g)
  <2>1. task[g].pc \in Busy /\ SaveStop(g, "limit") /\ rec' = rec /\ "limit" \in Errors
    BY <1>7 DEF AdmitExhausted, MayAdmit, At, Busy, Errors
  <2> QED
    BY <1>4, <2>1
<1>8. CASE Stop(g)
  <2>1. At(g, "stop") /\ ~At(g, "none") /\ task[g].pc \in Busy
    BY <1>8 DEF Stop, At, Busy
  <2>2. StoppedInv(g)
    BY <2>1, GroupFacts DEF BusyInv
  <2>3. task[g].result \in Errors
    BY <2>1, <2>2 DEF StoppedInv, At
  <2>4. SaveStop(g, task[g].result) /\ rec' = rec
    BY <1>8 DEF Stop
  <2> QED
    BY <1>4, <2>1, <2>3, <2>4
<1>9. CASE Admitted(g) \/ End(g) \/ \E child \in Kids(g) : ChildDone(g, child)
  <2>1. frame' = frame /\ wait' = wait /\ rec' = rec
    BY <1>9 DEF Admitted, End, ChildDone, stored
  <2> QED
    BY <1>3, <2>1
<1>10. CASE Save(g) \/ Fail(g)
  <2>1. frame' = frame /\ wait' = wait
    BY <1>10 DEF Save, Fail
  <2>2. \A n \in Nodes : n # g => rec'[n] = rec[n]
    BY <1>2, <1>10 DEF Save, Fail
  <2> QED
    BY <1>3, <2>1, <2>2
<1> QED
  BY <1>5, <1>6, <1>7, <1>8, <1>9, <1>10 DEF GroupStep

LEMMA NodeStartsNothing ==
    ASSUME IInv, NEW n \in Nodes, NodeStep(n)
    PROVE  NoStart
<1>1. frame' = frame
  BY DEF NodeStep, View, Dispatch, Outcome, Reserve, Consume, stored
<1>2. TypeOK /\ DOMAIN rec = Nodes /\ DOMAIN wait = Signals
  BY Zenon DEF IInv, TypeOK
<1>3. Calls \cup Signals \subseteq Nodes /\ \A m \in Calls : m \notin Signals
  BY GroupsAssumption DEF Nodes
<1>4. SUFFICES ASSUME NEW m \in Calls \cup Signals, NEW g \in Above[m] \ {Run}, frame[g].stopped
               PROVE  /\ rec'[m].state = "Running" => rec[m].state = "Running"
                      /\ m \in Signals => (wait[m] = "None" => wait'[m] = "None")
  BY <1>1 DEF NoStart, StopHolds, StartsNothing
<1>5. ~At(m, "none") => CancelSeen(m)
  BY <1>3, <1>4, StoppedAbove DEF Around
<1>6. CASE View(n)
  BY <1>6 DEF View, stored
<1>7. CASE Dispatch(n)
  <2>1. CASE m = n
    <3>1. rec' = rec /\ wait' = wait
      BY <1>5, <1>7, <2>1 DEF Dispatch, At
    <3> QED
      BY <3>1
  <2>2. CASE m # n
    BY <1>2, <1>3, <1>7, <2>2 DEF Dispatch
  <2> QED
    BY <2>1, <2>2
<1>8. CASE Outcome(n)
  <2>1. wait' = wait
    BY <1>8 DEF Outcome
  <2>2. \E state \in {"Succeeded", "Unknown", "Cancelled", "Failed"} : \E suspect, error :
           rec' = [rec EXCEPT ![n] = [state |-> state, suspect |-> suspect, error |-> error]]
    BY <1>8 DEF Outcome
  <2>3. rec'[m].state = "Running" => rec[m].state = "Running"
    BY <1>2, <1>3, <2>2
  <2> QED
    BY <2>1, <2>3
<1>9. CASE Reserve(n)
  <2>1. CASE m = n
    <3>1. rec' = rec /\ wait' = wait
      BY <1>5, <1>9, <2>1 DEF Reserve, At
    <3> QED
      BY <3>1
  <2>2. CASE m # n
    <3>1. rec'[m] = rec[m] /\ (m \in Signals => wait'[m] = wait[m])
      BY <1>2, <1>3, <1>9, <2>2 DEF Reserve
    <3> QED
      BY <3>1
  <2> QED
    BY <2>1, <2>2
<1>10. CASE Consume(n)
  <2>1. n \in Signals /\ At(n, "consume")
    BY <1>10 DEF Consume
  <2>2. wait[n] # "None"
    <3>1. KindInv(n)
      BY Zenon DEF IInv
    <3> QED
      BY <2>1, <3>1 DEF KindInv
  <2>3. rec[n] \in Records
    BY <1>2 DEF TypeOK
  <2>4. CASE m = n
    <3>1. rec'[n].state \in {"Cancelled", "Succeeded", rec[n].state}
      BY <1>2, <1>10, <2>3 DEF Consume, Records
    <3> QED
      BY <2>2, <2>4, <3>1
  <2>5. CASE m # n
    <3>1. rec'[m] = rec[m] /\ (m \in Signals => wait'[m] = wait[m])
      BY <1>2, <1>3, <1>10, <2>5 DEF Consume
    <3> QED
      BY <3>1
  <2> QED
    BY <2>4, <2>5
<1> QED
  BY <1>6, <1>7, <1>8, <1>9, <1>10 DEF NodeStep

LEMMA OuterStartsNothing ==
    ASSUME IInv, [Spawn \/ Finish \/ Command \/ Crash \/ Boot \/ BootStep]_vars
    PROVE  NoStart
<1>1. TypeOK /\ DOMAIN rec = Nodes /\ DOMAIN wait = Signals /\ Calls \cup Signals \subseteq Nodes
  BY Zenon DEF IInv, TypeOK, Nodes
<1>2. frame' = frame
  BY DEF Spawn, Finish, Command, Cancel, CancelToken, Deliver, Reconcile, StopTracking, Crash, Boot,
     BootStep, BootReady, BootClassify, stored, vars
<1>3. \A m \in Signals : wait[m] = "None" => wait'[m] = "None"
  BY <1>1 DEF Spawn, Finish, Ends, Close, Open, Command, Cancel, CancelToken, Deliver, Reconcile,
     StopTracking, Crash, Boot, BootStep, BootReady, BootClassify, stored, vars
<1>4. \A m \in Nodes : rec'[m].state = "Running" => rec[m].state = "Running"
  <2>1. CASE Finish
    <3>1. rec' = rec \/ rec' = [n \in Nodes |-> IF Unresolved(n) THEN [rec[n] EXCEPT !.state = "Unknown"]
                                                                ELSE rec[n]]
      BY <2>1 DEF Finish
    <3>2. \A m \in Nodes : [rec[m] EXCEPT !.state = "Unknown"].state = "Unknown"
      BY <1>1 DEF TypeOK, Records
    <3> QED
      BY <3>1, <3>2
  <2>2. ASSUME NEW n \in Calls, Reconcile(n) \/ BootClassify(n)
        PROVE  \A m \in Nodes : rec'[m].state = "Running" => rec[m].state = "Running"
    <3>1. \E state \in {"Succeeded", "Failed", "Pending", "Unknown", "Cancelled"} : \E suspect, error :
             rec' = [rec EXCEPT ![n] = [state |-> state, suspect |-> suspect, error |-> error]]
      BY <2>2 DEF Reconcile, BootClassify
    <3> QED
      BY <1>1, <3>1
  <2>3. CASE \/ Spawn \/ Cancel \/ CancelToken \/ Crash \/ Boot \/ BootReady \/ UNCHANGED vars
             \/ (\E n \in Signals : Deliver(n)) \/ (\E n \in Calls : StopTracking(n))
    BY <2>3 DEF Spawn, Cancel, CancelToken, Deliver, StopTracking, Crash, Boot, BootReady, stored, vars
  <2> QED
    BY <2>1, <2>2, <2>3 DEF Command, BootStep
<1> QED
  BY <1>1, <1>2, <1>3, <1>4 DEF NoStart, StopHolds, StartsNothing

(* Below a group whose stop is saved nothing is dispatched or reserved any  *)
(* more, in this process or in a later one, and the stop itself stays as it *)
(* was saved (groups.rs: save_progress before the token; control.rs and     *)
(* waits.rs look at the token, or at the stop a resumed group brings).      *)
THEOREM StopIsFinal == Spec => NothingStartsAfterStop
<1>1. ASSUME IInv, [Next]_vars
      PROVE  NoStart
  BY <1>1, GroupStartsNothing, NodeStartsNothing, OuterStartsNothing DEF Next, RunStep
<1>2. NoStart => /\ \A g \in Groups : frame[g].stopped => frame'[g] = frame[g]
                 /\ \A n \in Calls \cup Signals :
                       (\E g \in Above[n] \ {Run} : frame[g].stopped) =>
                           /\ rec'[n].state = "Running" => rec[n].state = "Running"
                           /\ n \in Signals => (wait[n] = "None" => wait'[n] = "None")
  BY DEF NoStart, StopHolds, StartsNothing
<1> HIDE DEF NoStart
<1>3. IInv /\ [Next]_vars =>
         [/\ \A g \in Groups : frame[g].stopped => frame'[g] = frame[g]
          /\ \A n \in Calls \cup Signals :
                (\E g \in Above[n] \ {Run} : frame[g].stopped) =>
                    /\ rec'[n].state = "Running" => rec[n].state = "Running"
                    /\ n \in Signals => (wait[n] = "None" => wait'[n] = "None")]_vars
  BY <1>1, <1>2
<1> QED
  BY <1>3, Invariance, PTL DEF Spec, NothingStartsAfterStop
=============================================================================
