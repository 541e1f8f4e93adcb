--------------------------- MODULE LifecycleProofs ---------------------------
(***************************************************************************)
(* Proofs about Lifecycle, for any callers, limits, boots and suspensions: *)
(* a run has one executor whose commits the store accepts and the limits   *)
(* hold, aborted jobs that nobody joins included; nothing is accepted once *)
(* admission is closed, the report of a shutdown is complete, and a drain  *)
(* that was not forced has finished every owned call.                      *)
(*                                                                         *)
(* The argument: jobs exist only under a live supervisor, and what they    *)
(* leave behind when it goes are the only ghosts of that boot; a ghost of  *)
(* an earlier boot is refused by the owner of the store.  Whoever creates  *)
(* a run of this boot holds the admission lock, which closing admission    *)
(* takes; an owned call stays in calls until its run is settled, and the   *)
(* supervisor leaves a drain only when calls is empty.                     *)
(***************************************************************************)
EXTENDS Lifecycle, FiniteSetTheorems, TLAPS

Live       == sup \in {"read", "spawn", "select"}
Executable == {"accepted", "running", "cancelling", "due"}
Resting    == {"none", "ended", "blocked"}
Closed     == shut \in {"join", "grace", "calls", "report", "release", "done"}
Mine(c)    == by[c] = epoch

TypeInv ==
    /\ store \in [Callers -> Executable \cup Resting \cup {"waiting"}]
    /\ task \in [Callers -> {"none", "start", "create", "insert", "watch", "settle", "queued",
                             "ended"}]
    /\ job \in [Callers -> {"none", "spawned", "run", "done", "error"}]
    /\ heads \in [Callers -> {"none", "parked", "due", "busy"}]
    /\ epoch \in Nat /\ by \in [Callers -> Nat] /\ calls \subseteq Owned

(* The supervisor, the owner of the store and the steps of a shutdown. *)
PhaseInv ==
    /\ phase \in {"off", "boot"} => sup = "off" /\ shut = "none"
    /\ phase \in {"boot", "ready", "draining"} => claimed
    /\ phase = "ready" => shut \in {"none", "close"}
    /\ phase = "draining" => Closed
    /\ phase = "stopped" => shut \in {"done", "dropped"}
    /\ Live => phase \in {"ready", "draining"} \/ shut = "dropped"
    /\ shut \in {"calls", "report", "release", "done"} => ~Live
    /\ shut = "done" => phase = "stopped" /\ ~claimed
    /\ shut = "dropped" => phase \in {"stopped", "failed"} /\ stop
    /\ shut = "grace" => forced
    /\ stop => forced \/ sup = "failed" \/ shut = "dropped"

(* What is executed was seen to be executable, and nobody else settles it. *)
SuperInv ==
    /\ ~Live => active = {}
    /\ sup # "spawn" => \A r \in Callers : heads[r] = "none"
    /\ IsFiniteSet(active) /\ Cardinality(active) <= ActiveRuns
    /\ \A r \in Callers :
          /\ job[r] # "none" => r \in active
          /\ heads[r] \in {"busy", "due"} /\ r \notin active => store[r] \in Executable
          /\ job[r] \in {"spawned", "run"} => store[r] \in Executable

(* The aborted jobs of this boot that go on: their supervisor is gone, and   *)
(* what it executed is as it was.  Those of earlier boots are refused.       *)
Haunts == {g \in ghosts : g.boot = epoch}

GhostInv ==
    /\ ghosts \subseteq [run : Callers, boot : Nat, at : {"spawned", "run"}]
    /\ \A g \in ghosts : g.boot <= epoch
    /\ \A g \in Haunts : Gone /\ store[g.run] \in Executable
    /\ \A g, h \in Haunts : g.run = h.run => g = h
    /\ IsFiniteSet({g.run : g \in Haunts}) /\ Cardinality({g.run : g \in Haunts}) <= ActiveRuns

(* Who creates a run of this boot holds the lock of admission. *)
AdmitInv ==
    /\ \A c \in Callers : by[c] <= epoch
    /\ phase = "boot" => \A c \in Callers : ~Mine(c)
    /\ \A c \in Callers : task[c] \in {"create", "insert"} /\ Mine(c) =>
          lock = c /\ ~Closed

(* The owned calls of this boot that go on are among calls. *)
CallsInv ==
    /\ IsFiniteSet(calls) /\ Cardinality(calls) <= CallLimit
    /\ \A c \in Owned : Open(c) /\ Mine(c) => c \in calls
    /\ \A c \in Callers : task[c] \in {"watch", "settle"} => c \in Owned
    /\ shut \in {"report", "release", "done"} => calls = {}
    /\ \A c \in Owned : task[c] = "queued" /\ Mine(c) =>
          shut \in {"report", "release", "done", "dropped"}

(* An owned call that ended left no run to execute, unless it was told to. *)
FateInv ==
    /\ \A c \in Callers : task[c] \in {"none", "start", "create", "queued"} => store[c] = "none"
    /\ \A r \in Callers : r \in todo => store[r] # "none"
    /\ Live /\ ~stop => \A c \in Owned : task[c] = "ended" /\ Mine(c) => store[c] \in Resting
    /\ sup = "exited" /\ ~forced /\ shut # "dropped" =>
          /\ phase # "ready"
          /\ \A c \in Owned : Mine(c) /\ task[c] # "none" => task[c] = "ended" /\ store[c] \in Resting

(* From the report on nothing of this boot is accepted or left. *)
ReportInv ==
    shut \in {"release", "done"} =>
        /\ Unfinished(store) \subseteq report
        /\ \A c \in Callers : task[c] = "queued" => ~Current(c)

IInv == TypeInv /\ PhaseInv /\ SuperInv /\ GhostInv /\ AdmitInv /\ CallsInv /\ FateInv /\ ReportInv

-----------------------------------------------------------------------------
(* A step that leaves the variables of a part alone keeps that part. *)

LEMMA TypeRests ==
    ASSUME TypeInv, UNCHANGED <<store, task, job, heads, epoch, by, calls>>
    PROVE  TypeInv'
  BY DEF TypeInv, Executable, Resting

LEMMA PhaseRests ==
    ASSUME PhaseInv, UNCHANGED <<phase, claimed, sup, shut, forced, stop>>
    PROVE  PhaseInv'
  BY DEF PhaseInv, Live, Closed

LEMMA SuperRests ==
    ASSUME SuperInv, UNCHANGED <<sup, active, job, heads, store>>
    PROVE  SuperInv'
  BY DEF SuperInv, Live, Executable

LEMMA GhostRests ==
    ASSUME GhostInv, UNCHANGED <<ghosts, epoch, sup>>,
           \A g \in Haunts : store'[g.run] \in Executable
    PROVE  GhostInv'
<1>1. Haunts' = Haunts
  BY DEF Haunts
<1>2. /\ \A g \in Haunts : Gone' /\ store'[g.run] \in Executable
      /\ \A g, h \in Haunts : g.run = h.run => g = h
  BY DEF GhostInv, Gone
<1>3. /\ ghosts' \subseteq [run : Callers, boot : Nat, at : {"spawned", "run"}]
      /\ \A g \in ghosts' : g.boot <= epoch'
  BY DEF GhostInv
<1>4. IsFiniteSet({g.run : g \in Haunts}) /\ Cardinality({g.run : g \in Haunts}) <= ActiveRuns
  BY DEF GhostInv
<1> QED
  BY <1>1, <1>2, <1>3, <1>4, Zenon DEF GhostInv, Executable

(* Nothing of the store that a ghost could commit to is touched. *)
LEMMA GhostStands ==
    ASSUME GhostInv, UNCHANGED <<ghosts, epoch, sup, store>>
    PROVE  GhostInv'
  BY GhostRests DEF GhostInv

(* Before its supervisor ends a boot has no ghosts. *)
LEMMA NoHaunts ==
    ASSUME GhostInv, ~Gone
    PROVE  \A g \in ghosts : g.boot # epoch
  BY DEF GhostInv, Haunts

LEMMA NoneHaunts ==
    ASSUME ghosts' \subseteq [run : Callers, boot : Nat, at : {"spawned", "run"}],
           \A g \in ghosts' : g.boot <= epoch' /\ g.boot # epoch'
    PROVE  GhostInv'
<1>1. Haunts' = {}
  BY DEF Haunts
<1>2. {g.run : g \in Haunts'} = {}
  BY <1>1
<1>3. IsFiniteSet({}) /\ Cardinality({}) <= ActiveRuns
  BY FS_EmptySet, LifecycleAssumption
<1>4. /\ \A g \in Haunts' : Gone' /\ store'[g.run] \in Executable
      /\ \A g, h \in Haunts' : g.run = h.run => g = h
  BY <1>1
<1>5. IsFiniteSet({g.run : g \in Haunts'}) /\ Cardinality({g.run : g \in Haunts'}) <= ActiveRuns
  BY <1>2, <1>3
<1> QED
  BY <1>4, <1>5, Zenon DEF GhostInv, Executable

LEMMA GhostFree ==
    ASSUME GhostInv, UNCHANGED <<ghosts, epoch>>, \A g \in ghosts : g.boot # epoch
    PROVE  GhostInv'
<1>1. /\ ghosts' \subseteq [run : Callers, boot : Nat, at : {"spawned", "run"}]
      /\ \A g \in ghosts' : g.boot <= epoch' /\ g.boot # epoch'
  BY DEF GhostInv
<1> QED
  BY <1>1, NoneHaunts

LEMMA GhostsGone == ghosts' = {} => GhostInv'
  BY NoneHaunts

LEMMA AdmitRests ==
    ASSUME AdmitInv, UNCHANGED <<by, epoch, phase, task, lock, shut>>
    PROVE  AdmitInv'
  BY DEF AdmitInv, Mine, Closed

LEMMA CallsRests ==
    ASSUME CallsInv, UNCHANGED <<calls, by, epoch, task, shut>>
    PROVE  CallsInv'
  BY DEF CallsInv, Mine, Open

LEMMA FateRests ==
    ASSUME FateInv, UNCHANGED <<task, store, todo, by, epoch, sup, stop, forced, shut, phase>>
    PROVE  FateInv'
  BY DEF FateInv, Live, Mine, Resting

LEMMA ReportRests ==
    ASSUME ReportInv, UNCHANGED <<shut, store, report, task, by, epoch, claimed>>
    PROVE  ReportInv'
  BY DEF ReportInv, Unfinished, Current, Owns

-----------------------------------------------------------------------------
(* Callers, and how many jobs and calls there are *)

LEMMA OwnedAreCallers == \A c \in Owned : c \in Callers /\ c \notin Starters
  BY LifecycleAssumption DEF Callers

LEMMA NoneActive ==
    /\ IsFiniteSet({}) /\ Cardinality({}) = 0 /\ 0 <= ActiveRuns /\ 0 <= CallLimit
  BY FS_EmptySet, LifecycleAssumption

LEMMA SmallerCounts ==
    ASSUME NEW S, IsFiniteSet(S), NEW limit \in Nat, Cardinality(S) <= limit, NEW T \in SUBSET S
    PROVE  IsFiniteSet(T) /\ Cardinality(T) <= limit
<1>1. /\ IsFiniteSet(T) /\ Cardinality(T) <= Cardinality(S)
      /\ Cardinality(S) \in Nat /\ Cardinality(T) \in Nat
  BY FS_Subset, FS_CardinalityType
<1> QED
  BY <1>1

LEMMA ActiveLess ==
    ASSUME SuperInv, NEW r
    PROVE  IsFiniteSet(active \ {r}) /\ Cardinality(active \ {r}) <= ActiveRuns
<1>1. /\ IsFiniteSet(active \ {r}) /\ Cardinality(active \ {r}) <= Cardinality(active)
      /\ Cardinality(active) \in Nat /\ Cardinality(active \ {r}) \in Nat
  BY FS_Subset, FS_CardinalityType DEF SuperInv
<1> QED
  BY <1>1, LifecycleAssumption DEF SuperInv

LEMMA ActiveMore ==
    ASSUME SuperInv, NEW r, Room
    PROVE  IsFiniteSet(active \cup {r}) /\ Cardinality(active \cup {r}) <= ActiveRuns
<1>1. IsFiniteSet(active) /\ Cardinality(active) \in Nat /\ Cardinality(active) < ActiveRuns
  BY FS_CardinalityType DEF SuperInv, Room
<1>2. /\ IsFiniteSet(active \cup {r})
      /\ Cardinality(active \cup {r}) = IF r \in active THEN Cardinality(active)
                                        ELSE Cardinality(active) + 1
  BY <1>1, FS_AddElement, Zenon
<1> QED
  BY <1>1, <1>2, LifecycleAssumption

(* Reaping forgets the calls whose task has ended, and only those. *)
LEMMA ReapedCounted ==
    ASSUME CallsInv
    PROVE  /\ IsFiniteSet(Reaped) /\ Cardinality(Reaped) \in Nat /\ Cardinality(Reaped) <= CallLimit
           /\ Reaped \subseteq calls
<1>1. /\ Reaped \subseteq calls /\ IsFiniteSet(calls) /\ Cardinality(calls) <= CallLimit
  BY DEF CallsInv, Reaped
<1>2. /\ IsFiniteSet(Reaped) /\ Cardinality(Reaped) <= Cardinality(calls)
      /\ Cardinality(calls) \in Nat /\ Cardinality(Reaped) \in Nat
  BY <1>1, FS_Subset, FS_CardinalityType
<1> QED
  BY <1>1, <1>2, LifecycleAssumption

LEMMA ReapedMore ==
    ASSUME CallsInv, NEW c, Cardinality(Reaped) < CallLimit
    PROVE  IsFiniteSet(Reaped \cup {c}) /\ Cardinality(Reaped \cup {c}) <= CallLimit
<1>1. IsFiniteSet(Reaped) /\ Cardinality(Reaped) \in Nat
  BY ReapedCounted
<1>2. /\ IsFiniteSet(Reaped \cup {c})
      /\ Cardinality(Reaped \cup {c}) = IF c \in Reaped THEN Cardinality(Reaped)
                                        ELSE Cardinality(Reaped) + 1
  BY <1>1, FS_AddElement, Zenon
<1> QED
  BY <1>1, <1>2, LifecycleAssumption

LEMMA SeenBusy ==
    ASSUME NEW s \in Executable \cup Resting \cup {"waiting"}
    PROVE  /\ Seen(s) \in {"none", "parked", "due", "busy"}
           /\ Seen(s) \in {"busy", "due"} => s \in Executable
  BY DEF Executable, Resting, Seen

(* The supervisor ends with its JoinSet: its jobs become the ghosts of the   *)
(* boot, which had none, and they are among what was active.                *)
LEMMA AbandonKeeps ==
    ASSUME IInv, ~Gone, NEW end \in {"exited", "failed"}, Abandon(end),
           UNCHANGED <<store, epoch>>
    PROVE  GhostInv'
<1> DEFINE New == {[run |-> r, boot |-> epoch, at |-> job[r]] : r \in Going}
<1>1. /\ ghosts' = ghosts \cup New /\ Gone' /\ epoch' = epoch /\ store' = store
  BY DEF Abandon, Gone
<1>2. \A g \in ghosts : g.boot # epoch
  BY NoHaunts DEF IInv
<1>3. /\ New \subseteq [run : Callers, boot : Nat, at : {"spawned", "run"}]
      /\ \A g \in New : g.boot = epoch
  BY DEF Going, IInv, TypeInv
<1>4. Haunts' = New
  BY <1>1, <1>2, <1>3 DEF Haunts
<1>5. /\ ghosts' \subseteq [run : Callers, boot : Nat, at : {"spawned", "run"}]
      /\ \A g \in ghosts' : g.boot <= epoch'
  BY <1>1, <1>3 DEF IInv, TypeInv, GhostInv
<1>6. \A g \in New : store[g.run] \in Executable
  BY DEF Going, IInv, SuperInv
<1>7. \A g, h \in New : g.run = h.run => g = h
  OBVIOUS
<1>8. {g.run : g \in New} \subseteq active
  BY DEF Going, IInv, SuperInv
<1>9. IsFiniteSet({g.run : g \in New}) /\ Cardinality({g.run : g \in New}) <= ActiveRuns
  <2>1. IsFiniteSet(active) /\ Cardinality(active) <= ActiveRuns /\ ActiveRuns \in Nat
    BY LifecycleAssumption DEF IInv, SuperInv
  <2> HIDE DEF New
  <2> QED
    BY <1>8, <2>1, SmallerCounts
<1> HIDE DEF New
<1>10. /\ \A g \in Haunts' : Gone' /\ store'[g.run] \in Executable
       /\ \A g, h \in Haunts' : g.run = h.run => g = h
       /\ IsFiniteSet({g.run : g \in Haunts'}) /\ Cardinality({g.run : g \in Haunts'}) <= ActiveRuns
  BY <1>1, <1>4, <1>6, <1>7, <1>9
<1> QED
  BY <1>5, <1>10, Zenon DEF GhostInv, Executable

-----------------------------------------------------------------------------
(* The steps of callers, and of the tasks of owned calls *)

LEMMA CallStartKeeps ==
    ASSUME IInv, NEW c \in Callers, CallStart(c)
    PROVE  IInv'
<1>1. TypeInv'
  BY DEF CallStart, super, disk, boots, IInv, TypeInv, Executable, Resting
<1>2. AdmitInv'
  BY DEF CallStart, exit, boots, IInv, TypeInv, AdmitInv, Mine, Closed
<1>3. CallsInv'
  BY OwnedAreCallers DEF CallStart, exit, boots, IInv, TypeInv, CallsInv, Mine, Open
<1>4. FateInv'
  BY OwnedAreCallers DEF CallStart, super, disk, exit, boots, IInv, TypeInv, FateInv,
     Live, Mine, Resting
<1>5. ReportInv'
  BY DEF CallStart, disk, exit, boots, IInv, TypeInv, ReportInv, Unfinished, Current, Owns
<1>6. PhaseInv' /\ SuperInv'
  BY PhaseRests, SuperRests DEF CallStart, super, disk, exit, boots, IInv
<1>7. GhostInv'
  BY GhostStands DEF CallStart, super, disk, boots, IInv
<1> QED
  BY <1>1, <1>2, <1>3, <1>4, <1>5, <1>6, <1>7 DEF IInv

LEMMA CallExecuteKeeps ==
    ASSUME IInv, NEW c \in Callers, CallExecute(c)
    PROVE  IInv'
<1>1. TypeInv'
  BY DEF CallExecute, Reaped, super, disk, boots, IInv, TypeInv, Executable, Resting
<1>2. AdmitInv'
  BY DEF CallExecute, exit, boots, IInv, TypeInv, AdmitInv, Mine, Closed
<1>3. CallsInv'
  <2>1. /\ c \in Owned /\ task[c] = "none" /\ Reaped \subseteq calls /\ UNCHANGED shut
        /\ \A d \in Callers \ {c} : task'[d] = task[d] /\ by'[d] = by[d]
        /\ \A d \in Owned : Open(d) /\ d \in calls => d \in Reaped
    BY ReapedCounted, OwnedAreCallers DEF CallExecute, exit, IInv, TypeInv, Open, Reaped
  <2>2. \/ calls' = Reaped \cup {c} /\ Cardinality(Reaped) < CallLimit /\ task'[c] = "start"
           /\ phase = "ready"
        \/ calls' \in {calls, Reaped} /\ task'[c] = "ended"
    BY <2>1, OwnedAreCallers DEF CallExecute, IInv, TypeInv
  <2>3. IsFiniteSet(calls') /\ Cardinality(calls') <= CallLimit
    <3>1. CASE calls' = Reaped \cup {c} /\ Cardinality(Reaped) < CallLimit
      BY <3>1, ReapedMore DEF IInv
    <3>2. CASE calls' \in {calls, Reaped}
      BY <3>2, ReapedCounted DEF IInv, CallsInv
    <3> QED
      BY <2>2, <3>1, <3>2
  <2>4. calls' \subseteq calls \cup {c} /\ Reaped \subseteq calls'
    BY <2>1, <2>2
  <2>5. ASSUME NEW d \in Owned, Open(d)', Mine(d)' PROVE d \in calls'
    <3>1. d \in Callers
      BY OwnedAreCallers
    <3>2. CASE d = c
      BY <2>2, <2>5, <3>2 DEF Open
    <3>3. CASE d # c
      <4>1. Open(d) /\ Mine(d)
        BY <2>1, <2>5, <3>1, <3>3 DEF Open, Mine, CallExecute, boots
      <4> QED
        BY <2>1, <2>4, <4>1 DEF IInv, CallsInv
    <3> QED
      BY <3>2, <3>3
  <2>6. \A d \in Callers : task'[d] \in {"watch", "settle"} => d \in Owned
    BY <2>1 DEF IInv, CallsInv
  <2>7. shut' \in {"report", "release", "done"} => calls' = {}
    <3>1. shut \in {"report", "release", "done"} => calls = {} /\ phase # "ready"
      BY DEF IInv, CallsInv, PhaseInv
    <3> QED
      BY <2>1, <2>2, <3>1
  <2>8. ASSUME NEW d \in Owned, task'[d] = "queued", Mine(d)'
        PROVE  shut' \in {"report", "release", "done", "dropped"}
    <3>1. d \in Callers /\ d # c
      BY <2>2, <2>8, OwnedAreCallers
    <3>2. task[d] = "queued" /\ Mine(d)
      BY <2>1, <2>8, <3>1 DEF Mine, CallExecute, boots
    <3> QED
      BY <2>1, <3>2 DEF IInv, CallsInv
  <2> QED
    BY <2>3, <2>5, <2>6, <2>7, <2>8 DEF CallsInv
<1>4. FateInv'
  BY OwnedAreCallers DEF CallExecute, super, disk, exit, boots, IInv, TypeInv, FateInv,
     Live, Mine, Resting
<1>5. ReportInv'
  BY DEF CallExecute, disk, exit, boots, IInv, TypeInv, ReportInv, Unfinished, Current, Owns
<1>6. PhaseInv' /\ SuperInv'
  BY PhaseRests, SuperRests DEF CallExecute, super, disk, exit, boots, IInv
<1>7. GhostInv'
  BY GhostStands DEF CallExecute, super, disk, boots, IInv
<1> QED
  BY <1>1, <1>2, <1>3, <1>4, <1>5, <1>6, <1>7 DEF IInv

LEMMA AdmitKeeps ==
    ASSUME IInv, NEW c \in Callers, Admit(c)
    PROVE  IInv'
<1>1. TypeInv'
  BY DEF Admit, Ends, super, disk, boots, IInv, TypeInv, Executable, Resting
<1>2. AdmitInv'
  BY LifecycleAssumption DEF Admit, Ends, super, exit, boots, IInv, TypeInv, AdmitInv,
     Mine, Closed, PhaseInv
<1>3. CallsInv'
  BY OwnedAreCallers DEF Admit, Ends, exit, boots, IInv, TypeInv, CallsInv, Mine, Open
<1>4. FateInv'
  BY OwnedAreCallers DEF Admit, Ends, super, disk, exit, boots, IInv, TypeInv, FateInv,
     Live, Mine, Resting
<1>5. ReportInv'
  BY DEF Admit, Ends, disk, exit, boots, IInv, TypeInv, ReportInv, Unfinished, Current, Owns
<1>6. PhaseInv' /\ SuperInv'
  BY PhaseRests, SuperRests DEF Admit, super, disk, exit, boots, IInv
<1>7. GhostInv'
  BY GhostStands DEF Admit, super, disk, boots, IInv
<1> QED
  BY <1>1, <1>2, <1>3, <1>4, <1>5, <1>6, <1>7 DEF IInv

LEMMA CreateKeeps ==
    ASSUME IInv, NEW c \in Callers, Create(c)
    PROVE  IInv'
<1>1. TypeInv'
  BY DEF Create, Ends, Accepts, Current, Owns, super, boots, IInv, TypeInv, Executable, Resting
<1>2. SuperInv'
  BY DEF Create, Ends, Accepts, Current, Owns, super, boots, IInv, TypeInv, SuperInv, Live,
     Executable
<1>3. AdmitInv'
  BY DEF Create, Ends, Unlock, Current, Owns, exit, boots, IInv, TypeInv, AdmitInv, Mine, Closed
<1>4. CallsInv'
  BY OwnedAreCallers DEF Create, Ends, Current, Owns, exit, boots, IInv, TypeInv, CallsInv,
     Mine, Open
<1>5. FateInv'
  BY OwnedAreCallers DEF Create, Ends, Accepts, Current, Owns, super, exit, boots, IInv,
     TypeInv, FateInv, Live, Mine, Resting
<1>6. ReportInv'
  BY DEF Create, Ends, Unlock, Accepts, Current, Owns, exit, boots, IInv, TypeInv, ReportInv,
     Unfinished, AdmitInv, Mine, Closed
<1>7. PhaseInv'
  BY PhaseRests DEF Create, super, exit, boots, IInv
<1>8. GhostInv'
  BY GhostRests DEF Create, Ends, Accepts, Current, Owns, super, boots, IInv, TypeInv, GhostInv, Haunts, Executable
<1> QED
  BY <1>1, <1>2, <1>3, <1>4, <1>5, <1>6, <1>7, <1>8 DEF IInv

LEMMA InsertKeeps ==
    ASSUME IInv, NEW c \in Callers, Insert(c)
    PROVE  IInv'
<1>1. TypeInv'
  BY DEF Insert, super, disk, boots, IInv, TypeInv, Executable, Resting
<1>2. AdmitInv'
  BY DEF Insert, Unlock, exit, boots, IInv, TypeInv, AdmitInv, Mine, Closed
<1>3. CallsInv'
  BY OwnedAreCallers DEF Insert, exit, boots, IInv, TypeInv, CallsInv, Mine, Open
<1>4. FateInv'
  BY OwnedAreCallers DEF Insert, super, disk, exit, boots, IInv, TypeInv, FateInv, Live,
     Mine, Resting
<1>5. ReportInv'
  BY DEF Insert, disk, exit, boots, IInv, TypeInv, ReportInv, Unfinished, Current, Owns
<1>6. PhaseInv' /\ SuperInv'
  BY PhaseRests, SuperRests DEF Insert, super, disk, exit, boots, IInv
<1>7. GhostInv'
  BY GhostStands DEF Insert, super, disk, boots, IInv
<1> QED
  BY <1>1, <1>2, <1>3, <1>4, <1>5, <1>6, <1>7 DEF IInv

LEMMA CancelRunKeeps ==
    ASSUME IInv, NEW c \in Callers, CancelRun(c)
    PROVE  IInv'
<1>1. TypeInv'
  BY DEF CancelRun, Ends, Current, Owns, super, boots, IInv, TypeInv, Executable, Resting
<1>2. SuperInv'
  BY DEF CancelRun, Ends, Current, Owns, super, boots, IInv, TypeInv, SuperInv, Live, Executable
<1>3. AdmitInv'
  BY DEF CancelRun, Ends, Current, Owns, exit, boots, IInv, TypeInv, AdmitInv, Mine, Closed
<1>4. CallsInv'
  BY OwnedAreCallers DEF CancelRun, Ends, Current, Owns, exit, boots, IInv, TypeInv, CallsInv,
     Mine, Open
<1>5. FateInv'
  BY OwnedAreCallers DEF CancelRun, Ends, Current, Owns, super, exit, boots, IInv, TypeInv,
     FateInv, Live, Mine, Resting, PhaseInv, CallsInv
<1>6. ReportInv'
  BY OwnedAreCallers DEF CancelRun, Ends, Current, Owns, exit, boots, IInv, TypeInv, ReportInv,
     Unfinished, CallsInv, Mine, Open
<1>7. PhaseInv'
  BY PhaseRests DEF CancelRun, super, exit, boots, IInv
<1>8. GhostInv'
  BY GhostRests DEF CancelRun, Ends, super, boots, IInv, TypeInv, GhostInv, Haunts, Executable
<1> QED
  BY <1>1, <1>2, <1>3, <1>4, <1>5, <1>6, <1>7, <1>8 DEF IInv

LEMMA WatchKeeps ==
    ASSUME IInv, NEW c \in Callers, Watch(c)
    PROVE  IInv'
<1>1. TypeInv'
  BY DEF Watch, Ends, Settled, super, disk, boots, IInv, TypeInv, Executable, Resting
<1>2. AdmitInv'
  BY DEF Watch, Ends, Settled, exit, boots, IInv, TypeInv, AdmitInv, Mine, Closed
<1>3. CallsInv'
  BY OwnedAreCallers DEF Watch, Ends, Settled, exit, boots, IInv, TypeInv, CallsInv, Mine,
     Open
<1>4. FateInv'
  BY OwnedAreCallers DEF Watch, Ends, Settled, super, disk, exit, boots, IInv, TypeInv,
     FateInv, Live, Mine, Resting, PhaseInv
<1>5. ReportInv'
  BY DEF Watch, Ends, Settled, disk, exit, boots, IInv, TypeInv, ReportInv, Unfinished,
     Current, Owns
<1>6. PhaseInv' /\ SuperInv'
  BY PhaseRests, SuperRests DEF Watch, super, disk, exit, boots, IInv
<1>7. GhostInv'
  BY GhostStands DEF Watch, super, disk, boots, IInv
<1> QED
  BY <1>1, <1>2, <1>3, <1>4, <1>5, <1>6, <1>7 DEF IInv

LEMMA RunQueuedKeeps ==
    ASSUME IInv, NEW c \in Callers, RunQueued(c)
    PROVE  IInv'
<1>1. TypeInv'
  BY DEF RunQueued, Ends, Current, Owns, Accepts, super, boots, IInv, TypeInv, Executable,
     Resting
<1>2. SuperInv'
  BY DEF RunQueued, Ends, Current, Owns, Accepts, super, boots, IInv, TypeInv, SuperInv, Live,
     Executable
<1>3. AdmitInv'
  BY DEF RunQueued, Ends, Current, Owns, exit, boots, IInv, TypeInv, AdmitInv, Mine, Closed
<1>4. CallsInv'
  BY OwnedAreCallers DEF RunQueued, Ends, Current, Owns, exit, boots, IInv, TypeInv, CallsInv,
     Mine, Open
<1>5. FateInv'
  BY OwnedAreCallers DEF RunQueued, Ends, Current, Owns, Accepts, super, exit, boots, IInv,
     TypeInv, FateInv, Live, Mine, Resting, PhaseInv, CallsInv
<1>6. ReportInv'
  BY DEF RunQueued, Ends, Current, Owns, Accepts, exit, boots, IInv, TypeInv, ReportInv,
     Unfinished
<1>7. PhaseInv'
  BY PhaseRests DEF RunQueued, super, exit, boots, IInv
<1>8. GhostInv'
  BY GhostRests DEF RunQueued, Ends, Accepts, super, boots, IInv, TypeInv, GhostInv, Haunts, Executable
<1> QED
  BY <1>1, <1>2, <1>3, <1>4, <1>5, <1>6, <1>7, <1>8 DEF IInv

LEMMA DropCallerKeeps ==
    ASSUME IInv, NEW c \in Callers, DropCaller(c)
    PROVE  IInv'
<1>1. TypeInv'
  BY DEF DropCaller, AbortTasks, Open, super, disk, boots, IInv, TypeInv, Executable,
     Resting
<1>2. AdmitInv'
  BY DEF DropCaller, AbortTasks, Open, exit, boots, IInv, TypeInv, AdmitInv, Mine, Closed
<1>3. CallsInv'
  BY OwnedAreCallers DEF DropCaller, AbortTasks, Open, exit, boots, IInv, TypeInv,
     CallsInv, Mine, Callers
<1>4. FateInv'
  BY OwnedAreCallers DEF DropCaller, AbortTasks, Open, super, disk, exit, boots, IInv,
     TypeInv, FateInv, Live, Mine, Resting, Callers
<1>5. ReportInv'
  BY DEF DropCaller, AbortTasks, Open, disk, exit, boots, IInv, TypeInv, ReportInv,
     Unfinished, Current, Owns, AdmitInv, Mine, Closed
<1>6. PhaseInv' /\ SuperInv'
  BY PhaseRests, SuperRests DEF DropCaller, super, disk, exit, boots, IInv
<1>7. GhostInv'
  BY GhostStands DEF DropCaller, super, disk, boots, IInv
<1> QED
  BY <1>1, <1>2, <1>3, <1>4, <1>5, <1>6, <1>7 DEF IInv

-----------------------------------------------------------------------------
(* The supervisor and its jobs *)

LEMMA ReadHeadsKeeps ==
    ASSUME IInv, ReadHeads
    PROVE  IInv'
<1>1. TypeInv'
  BY DEF ReadHeads, Reaped, Seen, disk, boots, IInv, TypeInv, Executable, Resting
<1>2. PhaseInv'
  BY DEF ReadHeads, exit, boots, IInv, TypeInv, PhaseInv, Live, Closed
<1>3. SuperInv'
  BY SeenBusy DEF ReadHeads, disk, IInv, TypeInv, SuperInv, Live, Executable
<1>4. CallsInv'
  BY OwnedAreCallers, ReapedCounted DEF ReadHeads, Reaped, exit, boots, IInv, TypeInv,
     CallsInv, Mine, Open
<1>5. FateInv'
  BY DEF ReadHeads, disk, exit, boots, IInv, TypeInv, FateInv, Live, Mine, Resting
<1>6. AdmitInv' /\ ReportInv'
  BY AdmitRests, ReportRests DEF ReadHeads, disk, exit, boots, IInv
<1>7. GhostInv'
  BY NoHaunts, GhostFree DEF ReadHeads, Gone, boots, IInv
<1> QED
  BY <1>1, <1>2, <1>3, <1>4, <1>5, <1>6, <1>7 DEF IInv

LEMMA SpawnKeeps ==
    ASSUME IInv, NEW r \in Callers, Spawn(r)
    PROVE  IInv'
<1>1. TypeInv'
  BY DEF Spawn, Room, Candidates, host, boots, IInv, TypeInv, Executable, Resting
<1>2. SuperInv'
  <2>1. /\ sup = "spawn" /\ sup' = "spawn" /\ r \notin active /\ Room
        /\ heads[r] \in {"busy", "due"} /\ store[r] \in Executable
    BY DEF Spawn, Candidates, IInv, SuperInv
  <2>2. CASE active' = active \cup {r}
    <3>1. /\ job' = [job EXCEPT ![r] = "spawned"] /\ UNCHANGED <<heads, store>>
      BY <2>1, <2>2 DEF Spawn
    <3>2. IsFiniteSet(active') /\ Cardinality(active') <= ActiveRuns
      BY <2>1, <2>2, ActiveMore DEF IInv
    <3> QED
      BY <2>1, <2>2, <3>1, <3>2 DEF IInv, TypeInv, SuperInv, Live
  <2>3. CASE UNCHANGED <<active, job>>
    <3>1. /\ heads' = [heads EXCEPT ![r] = "none"]
          /\ store' = [store EXCEPT ![r] = IF @ = "ended" THEN @ ELSE "blocked"]
          /\ job[r] = "none"
      BY <2>1, <2>3 DEF Spawn, IInv, TypeInv, SuperInv
    <3> QED
      BY <2>1, <2>3, <3>1 DEF IInv, TypeInv, SuperInv, Live
  <2> QED
    BY <2>2, <2>3 DEF Spawn
<1>3. FateInv'
  BY OwnedAreCallers DEF Spawn, Room, Candidates, host, exit, boots, IInv, TypeInv,
     FateInv, Live, Mine, Resting, SuperInv, Executable
<1>4. ReportInv'
  BY DEF Spawn, Room, Candidates, host, exit, boots, IInv, TypeInv, ReportInv, Unfinished,
     Current, Owns, PhaseInv, Live
<1>5. PhaseInv' /\ AdmitInv' /\ CallsInv'
  BY PhaseRests, AdmitRests, CallsRests DEF Spawn, host, exit, boots, IInv
<1>6. GhostInv'
  BY NoHaunts, GhostFree DEF Spawn, Gone, boots, IInv
<1> QED
  BY <1>1, <1>2, <1>3, <1>4, <1>5, <1>6 DEF IInv

LEMMA CheckExitKeeps ==
    ASSUME IInv, CheckExit
    PROVE  IInv'
<1>1. TypeInv'
  BY DEF CheckExit, NoHeads, host, disk, boots, IInv, TypeInv, Executable, Resting
<1>2. PhaseInv'
  BY DEF CheckExit, Drained, exit, boots, IInv, TypeInv, PhaseInv, Live, Closed
<1>3. SuperInv'
  BY DEF CheckExit, Drained, NoHeads, disk, IInv, TypeInv, SuperInv, Live, Executable
<1>4. FateInv'
  BY OwnedAreCallers DEF CheckExit, Drained, host, disk, exit, boots, IInv, TypeInv,
     FateInv, Live, Mine, Resting, PhaseInv, CallsInv, Open
<1>5. AdmitInv' /\ CallsInv' /\ ReportInv'
  BY AdmitRests, CallsRests, ReportRests DEF CheckExit, host, disk, exit, boots, IInv
<1>6. GhostInv'
  BY NoHaunts, GhostFree DEF CheckExit, Gone, boots, IInv
<1> QED
  BY <1>1, <1>2, <1>3, <1>4, <1>5, <1>6 DEF IInv

LEMMA JoinedKeeps ==
    ASSUME IInv, NEW r \in Callers, Joined(r)
    PROVE  IInv'
<1>1. TypeInv'
  BY DEF Joined, Fails, Abandon, NoHeads, host, disk, boots, IInv, TypeInv, Executable,
     Resting
<1>2. PhaseInv'
  BY DEF Joined, Fails, Abandon, exit, boots, IInv, TypeInv, PhaseInv, Live, Closed
<1>3. SuperInv'
  <2>1. \A q \in Callers : heads[q] = "none"
    BY DEF Joined, IInv, SuperInv
  <2>2. CASE job[r] = "error"
    <3>1. /\ sup' = "failed" /\ active' = {} /\ UNCHANGED store
          /\ job' = [q \in Callers |-> "none"] /\ heads' = [q \in Callers |-> "none"]
      BY <2>2 DEF Joined, Fails, Abandon, NoHeads, disk
    <3> QED
      BY <3>1, NoneActive DEF SuperInv, Live
  <2>3. CASE job[r] # "error"
    <3>1. /\ sup' = "read" /\ active' = active \ {r} /\ UNCHANGED <<heads, store>>
          /\ job' = [job EXCEPT ![r] = "none"]
      BY <2>3 DEF Joined, disk
    <3>2. IsFiniteSet(active') /\ Cardinality(active') <= ActiveRuns
      BY <3>1, ActiveLess DEF IInv
    <3> QED
      BY <2>1, <3>1, <3>2 DEF IInv, TypeInv, SuperInv, Live
  <2> QED
    BY <2>2, <2>3
<1>4. AdmitInv'
  BY DEF Joined, Fails, host, exit, boots, IInv, TypeInv, AdmitInv, Mine, Closed
<1>5. FateInv'
  BY DEF Joined, Fails, Abandon, host, disk, exit, boots, IInv, TypeInv, FateInv, Live,
     Mine, Resting, PhaseInv
<1>6. CallsInv' /\ ReportInv'
  BY CallsRests, ReportRests DEF Joined, Fails, Abandon, host, disk, exit, boots, IInv
<1>7. GhostInv'
  <2>1. CASE job[r] = "error"
    BY <2>1, AbandonKeeps DEF Joined, Fails, disk, boots, Gone
  <2>2. CASE job[r] # "error"
    BY <2>2, NoHaunts, GhostFree DEF Joined, Gone, boots, IInv
  <2> QED
    BY <2>1, <2>2
<1> QED
  BY <1>1, <1>2, <1>3, <1>4, <1>5, <1>6, <1>7 DEF IInv

LEMMA WakesKeeps ==
    ASSUME IInv, Wakes
    PROVE  IInv'
<1>1. PhaseInv'
  BY DEF Wakes, exit, boots, IInv, TypeInv, PhaseInv, Live, Closed
<1>2. SuperInv'
  BY DEF Wakes, disk, IInv, TypeInv, SuperInv, Live, Executable
<1>3. FateInv'
  BY DEF Wakes, host, disk, exit, boots, IInv, TypeInv, FateInv, Live, Mine, Resting
<1>4. TypeInv' /\ AdmitInv' /\ CallsInv' /\ ReportInv'
  BY TypeRests, AdmitRests, CallsRests, ReportRests DEF Wakes, host, disk, exit, boots,
     IInv
<1>5. GhostInv'
  BY NoHaunts, GhostFree DEF Wakes, Gone, boots, IInv
<1> QED
  BY <1>1, <1>2, <1>3, <1>4, <1>5 DEF IInv

LEMMA StoreFailsKeeps ==
    ASSUME IInv, StoreFails
    PROVE  IInv'
<1>1. TypeInv'
  BY DEF StoreFails, Fails, Abandon, NoHeads, host, disk, boots, IInv, TypeInv,
     Executable, Resting
<1>2. PhaseInv'
  BY DEF StoreFails, Fails, Abandon, boots, IInv, TypeInv, PhaseInv, Live, Closed
<1>3. SuperInv'
  BY NoneActive DEF StoreFails, Fails, Abandon, NoHeads, disk, IInv, TypeInv, SuperInv,
     Live, Executable
<1>4. AdmitInv'
  BY DEF StoreFails, Fails, host, boots, IInv, TypeInv, AdmitInv, Mine, Closed
<1>5. FateInv'
  BY DEF StoreFails, Fails, Abandon, host, disk, boots, IInv, TypeInv, FateInv, Live,
     Mine, Resting
<1>6. CallsInv' /\ ReportInv'
  BY CallsRests, ReportRests DEF StoreFails, Fails, Abandon, host, disk, boots, IInv
<1>7. GhostInv'
  BY AbandonKeeps DEF StoreFails, Fails, disk, boots, Gone
<1> QED
  BY <1>1, <1>2, <1>3, <1>4, <1>5, <1>6, <1>7 DEF IInv

LEMMA StopsKeeps ==
    ASSUME IInv, Stops
    PROVE  IInv'
<1>1. TypeInv'
  BY DEF Stops, Fails, Abandon, NoHeads, host, disk, boots, IInv, TypeInv, Executable,
     Resting
<1>2. PhaseInv'
  BY DEF Stops, Fails, Abandon, exit, boots, IInv, TypeInv, PhaseInv, Live, Closed
<1>3. SuperInv'
  BY NoneActive DEF Stops, Fails, Abandon, NoHeads, disk, IInv, TypeInv, SuperInv, Live,
     Executable
<1>4. AdmitInv'
  BY DEF Stops, Fails, host, exit, boots, IInv, TypeInv, AdmitInv, Mine, Closed
<1>5. FateInv'
  BY DEF Stops, Fails, Abandon, host, disk, exit, boots, IInv, TypeInv, FateInv, Live,
     Mine, Resting, PhaseInv
<1>6. CallsInv' /\ ReportInv'
  BY CallsRests, ReportRests DEF Stops, Fails, Abandon, host, disk, exit, boots, IInv
<1>7. GhostInv'
  BY AbandonKeeps DEF Stops, Fails, disk, boots, Gone
<1> QED
  BY <1>1, <1>2, <1>3, <1>4, <1>5, <1>6, <1>7 DEF IInv

LEMMA JobBeginsKeeps ==
    ASSUME IInv, NEW r \in Callers, JobBegins(r)
    PROVE  IInv'
<1>1. TypeInv'
  BY DEF JobBegins, Begun, host, boots, IInv, TypeInv, Executable, Resting
<1>2. SuperInv'
  BY DEF JobBegins, Begun, IInv, TypeInv, SuperInv, Live, Executable
<1>3. FateInv'
  BY OwnedAreCallers DEF JobBegins, Begun, host, exit, boots, IInv, TypeInv, FateInv, Live, Mine,
     Resting, SuperInv, Executable
<1>4. ReportInv'
  BY DEF JobBegins, Begun, host, exit, boots, IInv, TypeInv, ReportInv, Unfinished, Current, Owns,
     PhaseInv, SuperInv, Live
<1>5. PhaseInv' /\ AdmitInv' /\ CallsInv'
  BY PhaseRests, AdmitRests, CallsRests DEF JobBegins, Begun, host, exit, boots, IInv
<1>6. GhostInv'
  BY NoHaunts, GhostFree DEF JobBegins, Begun, Gone, boots, IInv, SuperInv, Live
<1> QED
  BY <1>1, <1>2, <1>3, <1>4, <1>5, <1>6 DEF IInv

LEMMA JobEndsKeeps ==
    ASSUME IInv, NEW r \in Callers, JobEnds(r)
    PROVE  IInv'
<1>1. TypeInv'
  BY DEF JobEnds, Outcome, host, boots, IInv, TypeInv, Executable, Resting
<1>2. SuperInv'
  BY DEF JobEnds, Outcome, IInv, TypeInv, SuperInv, Live, Executable
<1>3. FateInv'
  BY OwnedAreCallers DEF JobEnds, Outcome, host, exit, boots, IInv, TypeInv, FateInv, Live, Mine,
     Resting, SuperInv, Executable
<1>4. ReportInv'
  BY DEF JobEnds, Outcome, host, exit, boots, IInv, TypeInv, ReportInv, Unfinished, Current, Owns,
     PhaseInv, SuperInv, Live
<1>5. PhaseInv' /\ AdmitInv' /\ CallsInv'
  BY PhaseRests, AdmitRests, CallsRests DEF JobEnds, Outcome, host, exit, boots, IInv
<1>6. GhostInv'
  BY NoHaunts, GhostFree DEF JobEnds, Outcome, Gone, boots, IInv, SuperInv, Live
<1> QED
  BY <1>1, <1>2, <1>3, <1>4, <1>5, <1>6 DEF IInv

(* What a job commits keeps its run among those that are left, or ends it. *)
LEMMA CommittedTypes ==
    ASSUME TypeInv, NEW r \in Callers, store[r] \in Executable, Begun(r) \/ Outcome(r)
    PROVE  /\ store' \in [Callers -> Executable \cup Resting \cup {"waiting"}]
           /\ store'[r] # "none" /\ \A q \in Callers \ {r} : store'[q] = store[q]
           /\ Begun(r) => store'[r] \in Executable
  BY DEF Begun, Outcome, TypeInv, Executable, Resting

(* A ghost whose commit is accepted is of this boot: there is no supervisor,*)
(* and it is the only one that executes its run.                            *)
LEMMA HauntsKeep ==
    ASSUME IInv, NEW g \in ghosts, Owns(g.boot), Begun(g.run) \/ Outcome(g.run),
           UNCHANGED <<phase, boots, lock, host, sup, heads, active, job, exit>>
    PROVE  /\ TypeInv' /\ PhaseInv' /\ SuperInv' /\ AdmitInv' /\ CallsInv'
           /\ FateInv' /\ ReportInv'
<1>1. /\ g \in Haunts /\ Gone /\ store[g.run] \in Executable /\ g.run \in Callers
  BY DEF Owns, Haunts, IInv, GhostInv
<1>2. PICK r \in Callers : r = g.run
  BY <1>1
<1>3. /\ store' \in [Callers -> Executable \cup Resting \cup {"waiting"}]
      /\ store'[r] # "none" /\ \A q \in Callers \ {r} : store'[q] = store[q]
  BY <1>1, <1>2, CommittedTypes DEF IInv
<1>4. ~Live /\ store[r] \in Executable
  BY <1>1, <1>2 DEF Gone, Live
<1>5. TypeInv'
  BY <1>3 DEF host, boots, IInv, TypeInv, Executable, Resting
<1>6. SuperInv'
  BY <1>4 DEF IInv, SuperInv, Live, Executable
<1>7. FateInv'
  BY <1>3, <1>4, OwnedAreCallers DEF host, exit, boots, IInv, TypeInv, FateInv, Live, Mine,
     Resting, Executable
<1>8. ReportInv'
  BY <1>3, <1>4 DEF host, exit, boots, IInv, TypeInv, ReportInv, Unfinished, Current, Owns,
     Executable
<1>9. PhaseInv' /\ AdmitInv' /\ CallsInv'
  BY PhaseRests, AdmitRests, CallsRests DEF host, exit, boots, IInv
<1> QED
  BY <1>5, <1>6, <1>7, <1>8, <1>9

LEMMA FewerGhosts ==
    ASSUME IInv, NEW g \in ghosts, ghosts' = ghosts \ {g}, UNCHANGED <<epoch, sup>>,
           \A h \in Haunts \ {g} : store'[h.run] \in Executable
    PROVE  GhostInv'
<1>1. Haunts' = Haunts \ {g}
  BY DEF Haunts
<1>2. /\ ghosts' \subseteq [run : Callers, boot : Nat, at : {"spawned", "run"}]
      /\ \A h \in ghosts' : h.boot <= epoch'
  BY DEF IInv, GhostInv
<1>3. /\ \A h \in Haunts' : Gone' /\ store'[h.run] \in Executable
      /\ \A h, k \in Haunts' : h.run = k.run => h = k
  BY <1>1 DEF IInv, GhostInv, Gone
<1>4. /\ IsFiniteSet({h.run : h \in Haunts'}) /\ Cardinality({h.run : h \in Haunts'}) <= ActiveRuns
  <2>1. {h.run : h \in Haunts'} \subseteq {h.run : h \in Haunts}
    BY <1>1
  <2>2. /\ IsFiniteSet({h.run : h \in Haunts}) /\ Cardinality({h.run : h \in Haunts}) <= ActiveRuns
        /\ ActiveRuns \in Nat
    BY LifecycleAssumption DEF IInv, GhostInv
  <2> QED
    BY <2>1, <2>2, SmallerCounts
<1> QED
  BY <1>2, <1>3, <1>4, Zenon DEF GhostInv, Executable

LEMMA GhostEndsKeeps ==
    ASSUME IInv, NEW g \in ghosts, GhostEnds(g)
    PROVE  IInv'
<1>1. ghosts' = ghosts \ {g} /\ UNCHANGED <<epoch, sup>>
  BY DEF GhostEnds, boots
<1>2. CASE UNCHANGED store
  <2>1. \A h \in Haunts \ {g} : store'[h.run] \in Executable
    BY <1>2 DEF IInv, GhostInv
  <2>2. GhostInv'
    BY <1>1, <2>1, FewerGhosts
  <2>3. /\ TypeInv' /\ PhaseInv' /\ SuperInv'
    BY <1>2, TypeRests, PhaseRests, SuperRests DEF GhostEnds, host, exit, boots, IInv
  <2>4. /\ AdmitInv' /\ CallsInv' /\ FateInv' /\ ReportInv'
    BY <1>2, AdmitRests, CallsRests, FateRests, ReportRests DEF GhostEnds, host, exit, boots, IInv
  <2> QED
    BY <2>2, <2>3, <2>4 DEF IInv
<1>3. CASE ~UNCHANGED store
  <2>1. Owns(g.boot) /\ Outcome(g.run)
    BY <1>3 DEF GhostEnds
  <2>2. g \in Haunts /\ g.run \in Callers /\ store[g.run] \in Executable
    BY <2>1 DEF Owns, Haunts, IInv, GhostInv
  <2>3. \A q \in Callers \ {g.run} : store'[q] = store[q]
    BY <2>1, <2>2, CommittedTypes DEF IInv
  <2>4. \A h \in Haunts \ {g} : h.run \in Callers \ {g.run} /\ store[h.run] \in Executable
    BY <2>2 DEF Haunts, IInv, GhostInv
  <2>5. GhostInv'
    BY <1>1, <2>3, <2>4, FewerGhosts
  <2>6. /\ TypeInv' /\ PhaseInv' /\ SuperInv' /\ AdmitInv' /\ CallsInv'
        /\ FateInv' /\ ReportInv'
    BY <2>1, HauntsKeep DEF GhostEnds
  <2> QED
    BY <2>5, <2>6 DEF IInv
<1> QED
  BY <1>2, <1>3

LEMMA GhostBeginsKeeps ==
    ASSUME IInv, NEW g \in ghosts, GhostBegins(g)
    PROVE  IInv'
<1> DEFINE new == [run |-> g.run, boot |-> g.boot, at |-> "run"]
<1>1. /\ g \in Haunts /\ g.run \in Callers /\ g.boot = epoch /\ store[g.run] \in Executable
      /\ Gone /\ Owns(g.boot) /\ Begun(g.run)
  BY DEF GhostBegins, Owns, Haunts, IInv, GhostInv
<1>2. /\ new \in [run : Callers, boot : Nat, at : {"spawned", "run"}]
      /\ new.run = g.run /\ new.boot = epoch
  BY <1>1 DEF IInv, TypeInv
<1>3. ghosts' = (ghosts \ {g}) \cup {new} /\ UNCHANGED <<epoch, sup>>
  BY DEF GhostBegins, boots
<1> HIDE DEF new
<1>4. Haunts' = (Haunts \ {g}) \cup {new}
  BY <1>2, <1>3 DEF Haunts
<1>5. {h.run : h \in Haunts'} = {h.run : h \in Haunts}
  <2>1. \A x : x \in {h.run : h \in Haunts'} <=> \E h \in Haunts' : h.run = x
    OBVIOUS
  <2>2. \A x : x \in {h.run : h \in Haunts} <=> \E h \in Haunts : h.run = x
    OBVIOUS
  <2>3. \A x : (\E h \in Haunts' : h.run = x) <=> \E h \in Haunts : h.run = x
    BY <1>1, <1>2, <1>4
  <2> QED
    BY <2>1, <2>2, <2>3
<1>6. \A q \in Callers \ {g.run} : store'[q] = store[q]
  BY <1>1, CommittedTypes DEF IInv
<1>7. store'[g.run] \in Executable
  BY <1>1, CommittedTypes DEF IInv
<1>8. \A h \in Haunts \ {g} : h.run \in Callers \ {g.run} /\ store[h.run] \in Executable
  BY <1>1 DEF Haunts, IInv, GhostInv
<1>9. \A h \in Haunts' : Gone' /\ store'[h.run] \in Executable
  BY <1>1, <1>2, <1>3, <1>4, <1>6, <1>7, <1>8 DEF Gone
<1>10. \A h, k \in Haunts' : h.run = k.run => h = k
  BY <1>2, <1>4, <1>8 DEF IInv, GhostInv
<1>11. IsFiniteSet({h.run : h \in Haunts'}) /\ Cardinality({h.run : h \in Haunts'}) <= ActiveRuns
  BY <1>5 DEF IInv, GhostInv
<1>12. /\ ghosts' \subseteq [run : Callers, boot : Nat, at : {"spawned", "run"}]
       /\ \A h \in ghosts' : h.boot <= epoch'
  BY <1>2, <1>3 DEF IInv, TypeInv, GhostInv
<1>13. GhostInv'
  BY <1>9, <1>10, <1>11, <1>12, Zenon DEF GhostInv, Executable
<1>14. /\ TypeInv' /\ PhaseInv' /\ SuperInv' /\ AdmitInv' /\ CallsInv'
       /\ FateInv' /\ ReportInv'
  BY <1>1, HauntsKeep DEF GhostBegins
<1> QED
  BY <1>13, <1>14 DEF IInv

LEMMA DueKeeps ==
    ASSUME IInv, NEW r \in Callers, Due(r)
    PROVE  IInv'
<1>1. TypeInv'
  BY DEF Due, host, super, boots, IInv, TypeInv, Executable, Resting
<1>2. SuperInv'
  BY DEF Due, super, IInv, TypeInv, SuperInv, Live, Executable
<1>3. FateInv'
  BY DEF Due, host, super, exit, boots, IInv, TypeInv, FateInv, Live, Mine, Resting
<1>4. ReportInv'
  BY DEF Due, host, exit, boots, IInv, TypeInv, ReportInv, Unfinished, Current, Owns
<1>5. PhaseInv' /\ AdmitInv' /\ CallsInv'
  BY PhaseRests, AdmitRests, CallsRests DEF Due, host, super, exit, boots, IInv
<1>6. GhostInv'
  BY GhostRests DEF Due, super, boots, IInv, TypeInv, GhostInv, Haunts, Executable
<1> QED
  BY <1>1, <1>2, <1>3, <1>4, <1>5, <1>6 DEF IInv

-----------------------------------------------------------------------------
(* Shutdown, dropped runtimes and crashes *)

LEMMA ShutdownKeeps ==
    ASSUME IInv, Shutdown
    PROVE  IInv'
<1>1. PhaseInv'
  BY DEF Shutdown, super, boots, IInv, TypeInv, PhaseInv, Live, Closed
<1>2. AdmitInv'
  BY DEF Shutdown, host, boots, IInv, TypeInv, AdmitInv, Mine, Closed
<1>3. CallsInv'
  BY DEF Shutdown, host, boots, IInv, TypeInv, CallsInv, Mine, Open
<1>4. FateInv'
  BY DEF Shutdown, host, super, disk, boots, IInv, TypeInv, FateInv, Live, Mine, Resting
<1>5. ReportInv'
  BY DEF Shutdown, host, disk, boots, IInv, TypeInv, ReportInv, Unfinished, Current, Owns
<1>6. TypeInv' /\ SuperInv'
  BY TypeRests, SuperRests DEF Shutdown, host, super, disk, boots, IInv
<1>7. GhostInv'
  BY GhostStands DEF Shutdown, super, disk, boots, IInv
<1> QED
  BY <1>1, <1>2, <1>3, <1>4, <1>5, <1>6, <1>7 DEF IInv

LEMMA CloseAdmissionKeeps ==
    ASSUME IInv, CloseAdmission
    PROVE  IInv'
<1>1. PhaseInv'
  BY DEF CloseAdmission, super, boots, IInv, TypeInv, PhaseInv, Live, Closed
<1>2. AdmitInv'
  BY LifecycleAssumption DEF CloseAdmission, host, boots, IInv, TypeInv, AdmitInv, Mine,
     Closed
<1>3. CallsInv'
  BY DEF CloseAdmission, host, boots, IInv, TypeInv, CallsInv, Mine, Open
<1>4. FateInv'
  BY DEF CloseAdmission, host, super, disk, boots, IInv, TypeInv, FateInv, Live, Mine,
     Resting
<1>5. ReportInv'
  BY DEF CloseAdmission, host, disk, boots, IInv, TypeInv, ReportInv, Unfinished, Current, Owns
<1>6. TypeInv' /\ SuperInv'
  BY TypeRests, SuperRests DEF CloseAdmission, host, super, disk, boots, IInv
<1>7. GhostInv'
  BY GhostStands DEF CloseAdmission, super, disk, boots, IInv
<1> QED
  BY <1>1, <1>2, <1>3, <1>4, <1>5, <1>6, <1>7 DEF IInv

LEMMA JoinSupervisorKeeps ==
    ASSUME IInv, JoinSupervisor
    PROVE  IInv'
<1>1. PhaseInv'
  BY DEF JoinSupervisor, Gone, super, boots, IInv, TypeInv, PhaseInv, Live, Closed
<1>2. AdmitInv'
  BY DEF JoinSupervisor, Gone, host, boots, IInv, TypeInv, AdmitInv, Mine, Closed
<1>3. CallsInv'
  BY DEF JoinSupervisor, Gone, host, boots, IInv, TypeInv, CallsInv, Mine, Open
<1>4. FateInv'
  BY DEF JoinSupervisor, Gone, host, super, disk, boots, IInv, TypeInv, FateInv, Live,
     Mine, Resting
<1>5. ReportInv'
  BY DEF JoinSupervisor, Gone, host, disk, boots, IInv, TypeInv, ReportInv, Unfinished,
     Current, Owns
<1>6. TypeInv' /\ SuperInv'
  BY TypeRests, SuperRests DEF JoinSupervisor, host, super, disk, boots, IInv
<1>7. GhostInv'
  BY GhostStands DEF JoinSupervisor, super, disk, boots, IInv
<1> QED
  BY <1>1, <1>2, <1>3, <1>4, <1>5, <1>6, <1>7 DEF IInv

LEMMA DrainTimeoutKeeps ==
    ASSUME IInv, DrainTimeout
    PROVE  IInv'
<1>1. PhaseInv'
  BY DEF DrainTimeout, Gone, super, boots, IInv, TypeInv, PhaseInv, Live, Closed
<1>2. AdmitInv'
  BY DEF DrainTimeout, Gone, host, boots, IInv, TypeInv, AdmitInv, Mine, Closed
<1>3. CallsInv'
  BY DEF DrainTimeout, Gone, host, boots, IInv, TypeInv, CallsInv, Mine, Open
<1>4. FateInv'
  BY DEF DrainTimeout, Gone, host, super, disk, boots, IInv, TypeInv, FateInv, Live, Mine,
     Resting
<1>5. ReportInv'
  BY DEF DrainTimeout, Gone, host, disk, boots, IInv, TypeInv, ReportInv, Unfinished,
     Current, Owns
<1>6. TypeInv' /\ SuperInv'
  BY TypeRests, SuperRests DEF DrainTimeout, host, super, disk, boots, IInv
<1>7. GhostInv'
  BY GhostStands DEF DrainTimeout, super, disk, boots, IInv
<1> QED
  BY <1>1, <1>2, <1>3, <1>4, <1>5, <1>6, <1>7 DEF IInv

LEMMA GraceTimeoutKeeps ==
    ASSUME IInv, GraceTimeout
    PROVE  IInv'
<1>1. TypeInv'
  BY DEF GraceTimeout, Gone, Abandon, NoHeads, host, disk, boots, IInv, TypeInv,
     Executable, Resting
<1>2. PhaseInv'
  BY DEF GraceTimeout, Gone, Abandon, boots, IInv, TypeInv, PhaseInv, Live, Closed
<1>3. SuperInv'
  BY NoneActive DEF GraceTimeout, Gone, Abandon, NoHeads, disk, IInv, TypeInv, SuperInv,
     Live, Executable
<1>4. AdmitInv'
  BY DEF GraceTimeout, Gone, host, boots, IInv, TypeInv, AdmitInv, Mine, Closed
<1>5. CallsInv'
  BY DEF GraceTimeout, Gone, host, boots, IInv, TypeInv, CallsInv, Mine, Open
<1>6. FateInv'
  BY DEF GraceTimeout, Gone, Abandon, host, disk, boots, IInv, TypeInv, FateInv, Live,
     Mine, Resting, PhaseInv
<1>7. ReportInv'
  BY DEF GraceTimeout, Gone, host, disk, boots, IInv, TypeInv, ReportInv, Unfinished,
     Current, Owns
<1>8. GhostInv'
  BY AbandonKeeps DEF GraceTimeout, disk, boots
<1> QED
  BY <1>1, <1>2, <1>3, <1>4, <1>5, <1>6, <1>7, <1>8 DEF IInv

LEMMA AbortCallsKeeps ==
    ASSUME IInv, AbortCalls
    PROVE  IInv'
<1>1. TypeInv'
  BY DEF AbortCalls, AbortTasks, super, disk, boots, IInv, TypeInv, Executable, Resting
<1>2. PhaseInv'
  BY DEF AbortCalls, AbortTasks, super, boots, IInv, TypeInv, PhaseInv, Live, Closed
<1>3. AdmitInv'
  BY DEF AbortCalls, AbortTasks, boots, IInv, TypeInv, AdmitInv, Mine, Closed
<1>4. CallsInv'
  BY OwnedAreCallers, NoneActive DEF AbortCalls, AbortTasks, boots, IInv, TypeInv,
     CallsInv, Mine, Open
<1>5. FateInv'
  BY OwnedAreCallers DEF AbortCalls, AbortTasks, super, disk, boots, IInv, TypeInv,
     FateInv, Live, Mine, Resting, PhaseInv
<1>6. ReportInv'
  BY DEF AbortCalls, AbortTasks, disk, boots, IInv, TypeInv, ReportInv, Unfinished,
     Current, Owns
<1>7. SuperInv'
  BY SuperRests DEF AbortCalls, super, disk, boots, IInv
<1>8. GhostInv'
  BY GhostStands DEF AbortCalls, super, disk, boots, IInv
<1> QED
  BY <1>1, <1>2, <1>3, <1>4, <1>5, <1>6, <1>7, <1>8 DEF IInv

LEMMA ReportKeeps ==
    ASSUME IInv, Report
    PROVE  IInv'
<1>1. PhaseInv'
  BY DEF Report, super, boots, IInv, TypeInv, PhaseInv, Live, Closed
<1>2. AdmitInv'
  BY DEF Report, host, boots, IInv, TypeInv, AdmitInv, Mine, Closed
<1>3. CallsInv'
  BY DEF Report, host, boots, IInv, TypeInv, CallsInv, Mine, Open
<1>4. FateInv'
  BY DEF Report, host, super, disk, boots, IInv, TypeInv, FateInv, Live, Mine, Resting
<1>5. ReportInv'
  BY DEF Report, Queue, host, disk, boots, IInv, TypeInv, ReportInv, Unfinished, Current, Owns
<1>6. TypeInv' /\ SuperInv'
  BY TypeRests, SuperRests DEF Report, host, super, disk, boots, IInv
<1>7. GhostInv'
  BY GhostStands DEF Report, super, disk, boots, IInv
<1> QED
  BY <1>1, <1>2, <1>3, <1>4, <1>5, <1>6, <1>7 DEF IInv

LEMMA ReleaseKeeps ==
    ASSUME IInv, Release
    PROVE  IInv'
<1>1. PhaseInv'
  BY DEF Release, super, IInv, TypeInv, PhaseInv, Live, Closed
<1>2. AdmitInv'
  BY DEF Release, host, IInv, TypeInv, AdmitInv, Mine, Closed
<1>3. CallsInv'
  BY DEF Release, host, IInv, TypeInv, CallsInv, Mine, Open
<1>4. FateInv'
  BY DEF Release, host, super, disk, IInv, TypeInv, FateInv, Live, Mine, Resting
<1>5. ReportInv'
  BY DEF Release, host, disk, IInv, TypeInv, ReportInv, Unfinished, Current, Owns
<1>6. TypeInv' /\ SuperInv'
  BY TypeRests, SuperRests DEF Release, host, super, disk, IInv
<1>7. GhostInv'
  BY GhostStands DEF Release, super, disk, IInv
<1> QED
  BY <1>1, <1>2, <1>3, <1>4, <1>5, <1>6, <1>7 DEF IInv

LEMMA DropRuntimeKeeps ==
    ASSUME IInv, DropRuntime
    PROVE  IInv'
<1>1. PhaseInv'
  BY DEF DropRuntime, Dropped, super, boots, IInv, TypeInv, PhaseInv, Live, Closed
<1>2. AdmitInv'
  BY DEF DropRuntime, Dropped, host, boots, IInv, TypeInv, AdmitInv, Mine, Closed
<1>3. CallsInv'
  BY DEF DropRuntime, Dropped, host, boots, IInv, TypeInv, CallsInv, Mine, Open
<1>4. FateInv'
  BY DEF DropRuntime, Dropped, host, super, disk, boots, IInv, TypeInv, FateInv, Live, Mine,
     Resting
<1>5. ReportInv'
  BY DEF DropRuntime, Dropped, ReportInv
<1>6. TypeInv' /\ SuperInv' /\ GhostInv'
  BY TypeRests, SuperRests, GhostStands DEF DropRuntime, host, super, disk, boots, IInv
<1> QED
  BY <1>1, <1>2, <1>3, <1>4, <1>5, <1>6 DEF IInv

LEMMA ReleaseFailsKeeps ==
    ASSUME IInv, ReleaseFails
    PROVE  IInv'
<1>1. PhaseInv'
  BY DEF ReleaseFails, Dropped, super, boots, IInv, TypeInv, PhaseInv, Live, Closed
<1>2. AdmitInv'
  BY DEF ReleaseFails, Dropped, host, boots, IInv, TypeInv, AdmitInv, Mine, Closed
<1>3. CallsInv'
  BY DEF ReleaseFails, Dropped, host, boots, IInv, TypeInv, CallsInv, Mine, Open
<1>4. FateInv'
  BY DEF ReleaseFails, Dropped, host, super, disk, boots, IInv, TypeInv, FateInv, Live, Mine,
     Resting
<1>5. ReportInv'
  BY DEF ReleaseFails, Dropped, ReportInv
<1>6. TypeInv' /\ SuperInv' /\ GhostInv'
  BY TypeRests, SuperRests, GhostStands DEF ReleaseFails, host, super, disk, boots, IInv
<1> QED
  BY <1>1, <1>2, <1>3, <1>4, <1>5, <1>6 DEF IInv

LEMMA SupervisorDroppedKeeps ==
    ASSUME IInv, SupervisorDropped
    PROVE  IInv'
<1>1. TypeInv'
  BY DEF SupervisorDropped, Abandon, NoHeads, host, disk, boots, IInv, TypeInv, Executable,
     Resting
<1>2. PhaseInv'
  BY DEF SupervisorDropped, Abandon, exit, boots, IInv, TypeInv, PhaseInv, Live, Closed
<1>3. SuperInv'
  BY NoneActive DEF SupervisorDropped, Abandon, NoHeads, disk, IInv, TypeInv, SuperInv, Live,
     Executable
<1>4. FateInv'
  BY DEF SupervisorDropped, Abandon, host, disk, exit, boots, IInv, TypeInv, FateInv, Live,
     Mine, Resting
<1>5. GhostInv'
  BY AbandonKeeps DEF SupervisorDropped, disk, boots, Gone
<1>6. AdmitInv' /\ CallsInv' /\ ReportInv'
  BY AdmitRests, CallsRests, ReportRests DEF SupervisorDropped, host, disk, exit, boots, IInv
<1> QED
  BY <1>1, <1>2, <1>3, <1>4, <1>5, <1>6 DEF IInv

LEMMA TaskDroppedKeeps ==
    ASSUME IInv, NEW c \in Callers, TaskDropped(c)
    PROVE  IInv'
<1>1. TypeInv'
  BY DEF TaskDropped, AbortTasks, Open, super, disk, boots, IInv, TypeInv, Executable,
     Resting
<1>2. AdmitInv'
  BY DEF TaskDropped, AbortTasks, Open, exit, boots, IInv, TypeInv, AdmitInv, Mine, Closed
<1>3. CallsInv'
  BY OwnedAreCallers DEF TaskDropped, AbortTasks, Open, exit, boots, IInv, TypeInv,
     CallsInv, Mine, Callers
<1>4. FateInv'
  BY OwnedAreCallers DEF TaskDropped, AbortTasks, Open, super, disk, exit, boots, IInv,
     TypeInv, FateInv, Live, Mine, Resting, Callers, PhaseInv
<1>5. ReportInv'
  BY DEF TaskDropped, AbortTasks, Open, disk, exit, boots, IInv, TypeInv, ReportInv,
     Unfinished, Current, Owns, AdmitInv, Mine, Closed
<1>6. PhaseInv' /\ SuperInv' /\ GhostInv'
  BY PhaseRests, SuperRests, GhostStands DEF TaskDropped, super, disk, exit, boots, IInv
<1> QED
  BY <1>1, <1>2, <1>3, <1>4, <1>5, <1>6 DEF IInv

LEMMA ReleaseDetachedKeeps ==
    ASSUME IInv, ReleaseDetached
    PROVE  IInv'
<1>1. PhaseInv'
  BY DEF ReleaseDetached, super, exit, IInv, TypeInv, PhaseInv, Live, Closed
<1>2. ReportInv'
  BY DEF ReleaseDetached, host, disk, exit, IInv, TypeInv, ReportInv, Unfinished, Current, Owns
<1>3. TypeInv' /\ SuperInv' /\ AdmitInv' /\ CallsInv' /\ FateInv'
  BY TypeRests, SuperRests, AdmitRests, CallsRests, FateRests DEF ReleaseDetached, host,
     super, disk, exit, IInv
<1>4. GhostInv'
  BY GhostStands DEF ReleaseDetached, super, disk, IInv
<1> QED
  BY <1>1, <1>2, <1>3, <1>4 DEF IInv

LEMMA CrashKeeps ==
    ASSUME IInv, Crash
    PROVE  IInv'
<1>1. TypeInv'
  BY DEF Crash, Abandon, NoHeads, disk, IInv, TypeInv, Executable, Resting
<1>2. PhaseInv'
  BY DEF Crash, Abandon, IInv, TypeInv, PhaseInv, Live, Closed
<1>3. SuperInv'
  BY NoneActive DEF Crash, Abandon, NoHeads, disk, IInv, TypeInv, SuperInv, Live,
     Executable
<1>4. AdmitInv'
  BY DEF Crash, IInv, TypeInv, AdmitInv, Mine, Closed
<1>5. CallsInv'
  BY OwnedAreCallers, NoneActive DEF Crash, IInv, TypeInv, CallsInv, Mine, Open
<1>6. FateInv'
  BY OwnedAreCallers DEF Crash, Abandon, disk, IInv, TypeInv, FateInv, Live, Mine, Resting
<1>7. ReportInv'
  BY DEF Crash, disk, IInv, TypeInv, ReportInv, Unfinished, Current, Owns
<1>8. GhostInv'
  BY GhostsGone DEF Crash
<1> QED
  BY <1>1, <1>2, <1>3, <1>4, <1>5, <1>6, <1>7, <1>8 DEF IInv

-----------------------------------------------------------------------------
(* Boot *)

LEMMA BootKeeps ==
    ASSUME IInv, Boot
    PROVE  IInv'
<1>1. TypeInv'
  BY DEF Boot, Abandon, NoHeads, disk, IInv, TypeInv, Executable, Resting
<1>2. PhaseInv'
  BY DEF Boot, Abandon, IInv, TypeInv, PhaseInv, Live, Closed
<1>3. SuperInv'
  BY NoneActive DEF Boot, Abandon, NoHeads, disk, IInv, TypeInv, SuperInv, Live,
     Executable
<1>4. AdmitInv'
  BY DEF Boot, IInv, TypeInv, AdmitInv, Mine, Closed
<1>5. CallsInv'
  BY OwnedAreCallers, NoneActive DEF Boot, IInv, TypeInv, CallsInv, Mine, Open, AdmitInv
<1>6. FateInv'
  BY OwnedAreCallers DEF Boot, Abandon, Unfinished, disk, IInv, TypeInv, FateInv, Live,
     Mine, Resting, AdmitInv
<1>7. ReportInv'
  BY DEF Boot, Unfinished, disk, IInv, TypeInv, ReportInv, Current, Owns
<1>8. GhostInv'
  <2>1. /\ ghosts' \subseteq [run : Callers, boot : Nat, at : {"spawned", "run"}]
        /\ \A g \in ghosts' : g.boot <= epoch
    BY DEF Boot, Abandon, Going, IInv, TypeInv, GhostInv
  <2>2. epoch' = epoch + 1 /\ epoch \in Nat
    BY DEF Boot, IInv, TypeInv
  <2>3. \A g \in ghosts' : g.boot <= epoch' /\ g.boot # epoch'
    BY <2>1, <2>2
  <2> QED
    BY <2>1, <2>3, NoneHaunts
<1> QED
  BY <1>1, <1>2, <1>3, <1>4, <1>5, <1>6, <1>7, <1>8 DEF IInv

LEMMA BootFailsKeeps ==
    ASSUME IInv, BootFails
    PROVE  IInv'
<1>1. PhaseInv'
  BY DEF BootFails, super, exit, IInv, TypeInv, PhaseInv, Live, Closed
<1>2. AdmitInv'
  BY DEF BootFails, host, exit, IInv, TypeInv, AdmitInv, Mine, Closed
<1>3. FateInv'
  BY DEF BootFails, host, super, disk, exit, IInv, TypeInv, FateInv, Live, Mine, Resting
<1>4. ReportInv'
  BY DEF BootFails, host, disk, exit, IInv, TypeInv, ReportInv, Unfinished, Current, Owns
<1>5. TypeInv' /\ SuperInv' /\ CallsInv'
  BY TypeRests, SuperRests, CallsRests DEF BootFails, host, super, disk, exit, IInv
<1>6. GhostInv'
  BY GhostStands DEF BootFails, super, disk, IInv
<1> QED
  BY <1>1, <1>2, <1>3, <1>4, <1>5, <1>6 DEF IInv

LEMMA BootRunKeeps ==
    ASSUME IInv, NEW r \in Callers, BootRun(r)
    PROVE  IInv'
<1>1. TypeInv'
  BY DEF BootRun, host, super, IInv, TypeInv, Executable, Resting
<1>2. SuperInv'
  BY DEF BootRun, super, exit, IInv, TypeInv, SuperInv, Live, Executable, PhaseInv
<1>3. FateInv'
  BY OwnedAreCallers DEF BootRun, host, super, exit, IInv, TypeInv, FateInv, Live, Mine,
     Resting, PhaseInv, AdmitInv
<1>4. ReportInv'
  BY DEF BootRun, host, super, exit, IInv, TypeInv, ReportInv, Unfinished, Current, Owns,
     PhaseInv
<1>5. PhaseInv' /\ AdmitInv' /\ CallsInv'
  BY PhaseRests, AdmitRests, CallsRests DEF BootRun, host, super, exit, IInv
<1>6. GhostInv'
  BY NoHaunts, GhostFree DEF BootRun, super, boots, Gone, IInv, PhaseInv
<1> QED
  BY <1>1, <1>2, <1>3, <1>4, <1>5, <1>6 DEF IInv

LEMMA BootReadyKeeps ==
    ASSUME IInv, BootReady
    PROVE  IInv'
<1>1. PhaseInv'
  BY DEF BootReady, exit, boots, IInv, TypeInv, PhaseInv, Live, Closed
<1>2. SuperInv'
  BY DEF BootReady, disk, exit, boots, IInv, TypeInv, SuperInv, Live, Executable, PhaseInv
<1>3. AdmitInv'
  BY DEF BootReady, host, exit, boots, IInv, TypeInv, AdmitInv, Mine, Closed
<1>4. FateInv'
  BY OwnedAreCallers DEF BootReady, host, disk, exit, boots, IInv, TypeInv, FateInv, Live,
     Mine, Resting, PhaseInv, AdmitInv
<1>5. TypeInv' /\ CallsInv' /\ ReportInv'
  BY TypeRests, CallsRests, ReportRests DEF BootReady, host, disk, exit, boots, IInv
<1>6. GhostInv'
  BY NoHaunts, GhostFree DEF BootReady, super, boots, Gone, IInv, PhaseInv
<1> QED
  BY <1>1, <1>2, <1>3, <1>4, <1>5, <1>6 DEF IInv

-----------------------------------------------------------------------------
(* The invariant of every reachable state *)

LEMMA StutterKeeps ==
    ASSUME IInv, UNCHANGED vars
    PROVE  IInv'
<1>1. TypeInv' /\ PhaseInv' /\ SuperInv' /\ GhostInv'
  BY TypeRests, PhaseRests, SuperRests, GhostStands DEF vars, boots, disk, host, super, exit, IInv
<1>2. AdmitInv' /\ CallsInv' /\ FateInv' /\ ReportInv'
  BY AdmitRests, CallsRests, FateRests, ReportRests DEF vars, boots, disk, host, super, exit, IInv
<1> QED
  BY <1>1, <1>2 DEF IInv

LEMMA Initially == Init => IInv
<1> SUFFICES ASSUME Init PROVE IInv
  OBVIOUS
<1>1. TypeInv
  BY LifecycleAssumption DEF Init, TypeInv, Left, Executable, Resting
<1>2. PhaseInv
  BY DEF Init, PhaseInv, Live, Closed
<1>3. SuperInv
  BY NoneActive DEF Init, SuperInv, Live
<1>4. AdmitInv
  BY DEF Init, AdmitInv, Mine
<1>5. CallsInv
  BY NoneActive, OwnedAreCallers DEF Init, CallsInv, Open
<1>6. FateInv
  BY DEF Init, FateInv, Live
<1>7. ReportInv
  BY DEF Init, ReportInv
<1>8. GhostInv
  <2>1. Haunts = {} /\ {g.run : g \in Haunts} = {}
    BY DEF Init, Haunts
  <2> QED
    BY <2>1, NoneActive DEF Init, GhostInv
<1> QED
  BY <1>1, <1>2, <1>3, <1>4, <1>5, <1>6, <1>7, <1>8 DEF IInv

LEMMA CallerKeeps ==
    ASSUME IInv, NEW c \in Callers,
           \/ CallStart(c) \/ CallExecute(c) \/ TaskStep(c) \/ DropCaller(c)
           \/ TaskDropped(c) \/ Due(c) \/ BootRun(c)
    PROVE  IInv'
<1>1. CASE TaskStep(c)
  BY <1>1, AdmitKeeps, CreateKeeps, InsertKeeps, CancelRunKeeps, WatchKeeps, RunQueuedKeeps
     DEF TaskStep
<1> QED
  BY <1>1, CallStartKeeps, CallExecuteKeeps, DropCallerKeeps, TaskDroppedKeeps, DueKeeps,
     BootRunKeeps

LEMMA SuperStepKeeps ==
    ASSUME IInv, SuperStep
    PROVE  IInv'
<1>1. ASSUME NEW r \in Callers, Spawn(r) \/ Joined(r) \/ JobBegins(r) \/ JobEnds(r)
      PROVE  IInv'
  BY <1>1, SpawnKeeps, JoinedKeeps, JobBeginsKeeps, JobEndsKeeps
<1> QED
  BY <1>1, ReadHeadsKeeps, CheckExitKeeps, StopsKeeps DEF SuperStep

LEMMA ShutdownStepKeeps ==
    ASSUME IInv, ShutdownStep
    PROVE  IInv'
  BY CloseAdmissionKeeps, JoinSupervisorKeeps, DrainTimeoutKeeps, GraceTimeoutKeeps,
     AbortCallsKeeps, ReportKeeps, ReleaseKeeps DEF ShutdownStep

LEMMA Inductive == IInv /\ [Next]_vars => IInv'
<1> SUFFICES ASSUME IInv, [Next]_vars PROVE IInv'
  OBVIOUS
<1>1. ASSUME NEW c \in Callers,
             \/ CallStart(c) \/ CallExecute(c) \/ TaskStep(c) \/ DropCaller(c)
             \/ TaskDropped(c) \/ Due(c) \/ BootRun(c)
      PROVE  IInv'
  BY <1>1, CallerKeeps
<1>2. CASE \/ Wakes \/ StoreFails \/ Shutdown \/ ReleaseFails
           \/ DropRuntime \/ SupervisorDropped \/ ReleaseDetached \/ Crash
  BY <1>2, WakesKeeps, StoreFailsKeeps, ShutdownKeeps, ReleaseFailsKeeps, DropRuntimeKeeps,
     SupervisorDroppedKeeps, ReleaseDetachedKeeps, CrashKeeps
<1>3. CASE Boot \/ BootFails \/ BootReady
  BY <1>3, BootKeeps, BootFailsKeeps, BootReadyKeeps
<1>4. ASSUME NEW g \in ghosts, GhostBegins(g) \/ GhostEnds(g) PROVE IInv'
  BY <1>4, GhostBeginsKeeps, GhostEndsKeeps
<1> QED
  BY <1>1, <1>2, <1>3, <1>4, SuperStepKeeps, ShutdownStepKeeps, StutterKeeps DEF Next

LEMMA Invariant == Spec => []IInv
  BY Initially, Inductive, PTL DEF Spec

-----------------------------------------------------------------------------
(* Heads that were read earlier, aborts that nobody joins and boots never   *)
(* give a run two executors whose commits the store accepts; a job that is  *)
(* not aborted outlives the claim of the store only with a dropped runtime; *)
(* executed runs and owned calls stay within their limits (coordinator.rs:38,*)
(* coordinator.rs:41, execute.rs:39, lifecycle.rs:184, lifecycle.rs:234).   *)
THEOREM ExecutorsAreUnique == Spec => []OneExecutor
<1> DEFINE accepted == {g \in ghosts : Owns(g.boot)}
           jobs     == {r \in Callers : job[r] # "none"}
           executed == jobs \cup {g.run : g \in accepted}
<1>1. IInv => OneExecutor
  <2> SUFFICES ASSUME IInv PROVE OneExecutor
    OBVIOUS
  <2>1. \A r \in jobs : r \in active /\ Live /\ (claimed \/ shut = "dropped")
    BY DEF IInv, SuperInv, PhaseInv
  <2>2. accepted \subseteq Haunts
    BY DEF Owns, Haunts
  <2>3. accepted # {} => jobs = {}
    <3>1. Haunts # {} => ~Live
      BY DEF IInv, GhostInv, Gone, Live
    <3> QED
      BY <2>1, <2>2, <3>1
  <2>4. /\ \A g \in accepted : g.run \notin jobs
        /\ \A g, h \in accepted : g.run = h.run => g = h
    BY <2>2, <2>3 DEF IInv, GhostInv
  <2>5. Cardinality(executed) <= ActiveRuns
    <3>1. CASE jobs = {}
      <4>1. executed \subseteq {g.run : g \in Haunts}
        BY <2>2, <3>1
      <4>2. /\ IsFiniteSet({g.run : g \in Haunts})
            /\ Cardinality({g.run : g \in Haunts}) <= ActiveRuns
        BY DEF IInv, GhostInv
      <4> HIDE DEF executed
      <4> QED
        BY <4>1, <4>2, SmallerCounts, LifecycleAssumption
    <3>2. CASE jobs # {}
      <4>1. executed \subseteq active
        BY <2>1, <2>3, <3>2
      <4>2. IsFiniteSet(active) /\ Cardinality(active) <= ActiveRuns
        BY DEF IInv, SuperInv
      <4> HIDE DEF executed
      <4> QED
        BY <4>1, <4>2, SmallerCounts, LifecycleAssumption
    <3> QED
      BY <3>1, <3>2
  <2>6. Cardinality({c \in Owned : by[c] = epoch /\ Open(c)}) <= CallLimit
    <3>1. {c \in Owned : by[c] = epoch /\ Open(c)} \subseteq calls
      BY DEF IInv, CallsInv, Mine
    <3>2. IsFiniteSet(calls) /\ Cardinality(calls) <= CallLimit
      BY DEF IInv, CallsInv
    <3> QED
      BY <3>1, <3>2, SmallerCounts, LifecycleAssumption
  <2> QED
    BY <2>1, <2>4, <2>5, <2>6, Zenon DEF OneExecutor
<1> QED
  BY <1>1, Invariant, PTL

(* The only steps that accept a run are the create of a start that is still *)
(* waiting for it, which holds the lock, and one that was left on the queue.*)
LEMMA AcceptingSteps ==
    ASSUME IInv, [Next]_vars, NEW c \in Callers, store[c] = "none", store'[c] = "accepted"
    PROVE  phase # "draining" \/ task[c] = "queued"
<1>1. UNCHANGED store => FALSE
  OBVIOUS
<1>2. ASSUME NEW d \in Callers, TaskStep(d) PROVE phase # "draining" \/ task[c] = "queued"
  <2>1. CASE Create(d)
    <3>1. c = d /\ task[c] = "create" /\ Mine(c)
      BY <2>1 DEF Create, Accepts, Current, Owns, Mine, IInv, TypeInv
    <3>2. lock = c /\ ~Closed
      BY <3>1 DEF IInv, AdmitInv
    <3> QED
      BY <3>2 DEF IInv, PhaseInv, Closed
  <2>2. CASE RunQueued(d)
    BY <2>2 DEF RunQueued, Accepts, IInv, TypeInv
  <2>3. CASE CancelRun(d)
    BY <2>3 DEF CancelRun, IInv, TypeInv
  <2>4. CASE Admit(d) \/ Insert(d) \/ Watch(d)
    BY <1>1, <2>4 DEF Admit, Insert, Watch, disk
  <2> QED
    BY <1>2, <2>1, <2>2, <2>3, <2>4 DEF TaskStep
<1>3. ASSUME NEW d \in Callers, CallStart(d) \/ CallExecute(d) \/ DropCaller(d) \/ TaskDropped(d)
      PROVE  FALSE
  BY <1>1, <1>3 DEF CallStart, CallExecute, DropCaller, TaskDropped, disk
<1>4. ASSUME NEW d \in Callers, Due(d) \/ BootRun(d) PROVE FALSE
  BY <1>4 DEF Due, BootRun, IInv, TypeInv
<1>5. ASSUME NEW r \in Callers, Spawn(r) \/ JobBegins(r) PROVE FALSE
  BY <1>5 DEF Spawn, JobBegins, Begun, IInv, TypeInv
<1>6. ASSUME NEW r \in Callers, JobEnds(r) PROVE FALSE
  BY <1>6 DEF JobEnds, Outcome, IInv, TypeInv
<1>7. ASSUME SuperStep PROVE FALSE
  <2>1. ASSUME NEW r \in Callers, Joined(r) PROVE FALSE
    BY <1>1, <2>1 DEF Joined, disk
  <2> QED
    BY <1>1, <1>5, <1>6, <1>7, <2>1 DEF SuperStep, ReadHeads, CheckExit, Stops, disk
<1>8. ASSUME ShutdownStep PROVE FALSE
  BY <1>1, <1>8 DEF ShutdownStep, CloseAdmission, JoinSupervisor, DrainTimeout, GraceTimeout,
     AbortCalls, Report, Release, disk
<1>9. ASSUME \/ Wakes \/ StoreFails \/ Shutdown \/ ReleaseFails
             \/ DropRuntime \/ SupervisorDropped \/ ReleaseDetached \/ Crash
      PROVE  FALSE
  BY <1>1, <1>9 DEF Wakes, StoreFails, Shutdown, ReleaseFails, DropRuntime, SupervisorDropped,
     ReleaseDetached, Crash, disk
<1>10. ASSUME Boot \/ BootFails \/ BootReady \/ UNCHANGED vars PROVE FALSE
  BY <1>1, <1>10 DEF Boot, BootFails, BootReady, vars, disk
<1>11. ASSUME NEW g \in ghosts, GhostBegins(g) \/ GhostEnds(g) PROVE FALSE
  <2>1. g.run \in Callers
    BY DEF IInv, GhostInv
  <2>2. \/ Begun(g.run) \/ Outcome(g.run) \/ UNCHANGED store
    BY <1>11 DEF GhostBegins, GhostEnds
  <2> QED
    BY <1>1, <2>1, <2>2 DEF Begun, Outcome, IInv, TypeInv
<1> QED
  BY <1>2, <1>3, <1>4, <1>7, <1>8, <1>9, <1>10, <1>11 DEF Next

(* shutdown closes admission behind the start that holds its lock, reports  *)
(* every run that is left, and has let owned calls finish unless it was     *)
(* forced (application.rs:27, coordinator.rs:75, lifecycle.rs:161).         *)
THEOREM ShutdownKeepsItsWord == Spec => ShutdownIsHonest
<1>1. IInv /\ [Next]_vars =>
        [\A c \in Callers : store[c] = "none" /\ store'[c] = "accepted" =>
            phase # "draining" \/ task[c] = "queued"]_vars
  BY AcceptingSteps
<1>2. IInv => ReportIsComplete /\ DrainFinishesCalls
  <2> SUFFICES ASSUME IInv PROVE ReportIsComplete /\ DrainFinishesCalls
    OBVIOUS
  <2>1. ReportIsComplete
    BY DEF IInv, ReportInv, ReportIsComplete
  <2>2. DrainFinishesCalls
    <3> SUFFICES ASSUME shut = "done", ~forced, sup = "exited", NEW c \in Owned, by[c] = epoch
                 PROVE  store[c] \in {"none", "ended", "blocked"}
      BY DEF DrainFinishesCalls
    <3>1. CASE task[c] = "none"
      BY <3>1, OwnedAreCallers DEF IInv, FateInv
    <3>2. CASE task[c] # "none"
      BY <3>2 DEF IInv, FateInv, Mine, Resting
    <3> QED
      BY <3>1, <3>2
  <2> QED
    BY <2>1, <2>2
<1> QED
  BY <1>1, <1>2, Invariant, PTL DEF Spec, ShutdownIsHonest, NothingAcceptedAfterClose
=============================================================================
