------------------------------- MODULE Groups -------------------------------
(***************************************************************************)
(* One run whose body is a tree of groups (parallel and foreach nodes)     *)
(* over operation and signal nodes: admission under the concurrency of a   *)
(* group and the budget of scopes of the process, the durable cursor and   *)
(* stop of a group, and how success, failure, unknown effects, suspension  *)
(* and cancellation of its children combine, across crashes and boots.     *)
(*                                                                         *)
(* Every body is one node.  An attempt of an operation is one step from    *)
(* its intent to its outcome (module Operations has the rest), and the     *)
(* deadline of the run is one more reason for a node to fail.              *)
(***************************************************************************)
EXTENDS Naturals, FiniteSets, Sequences, Functions

CONSTANTS
    Groups, Calls, Signals,   \* the nodes, by what they are
    Root,                     \* the group that is the run's body
    Children,                 \* of each group, in their order of admission
    Concurrency,              \* of each group
    FailFast,                 \* the groups with that policy; others collect
    Slots,                    \* Limits::active_scopes
    Shared                    \* other runs of the process take scopes too

Nodes  == Groups \cup Calls \cup Signals
Run    == "run"               \* the scope of the body
Kids(g) == Range(Children[g])
(* The nodes in the scope of a group: its children, and those of the groups *)
(* among them.                                                              *)
Below ==
    [g \in Groups |-> {n \in Nodes : \A S \in SUBSET Nodes :
         Kids(g) \subseteq S /\ (\A h \in Groups \cap S : Kids(h) \subseteq S) => n \in S}]
Above == [n \in Nodes |-> {Run} \cup {g \in Groups : n \in Below[g]}]

Reserved == {Run, "none", "ok", "suspended", "unknown", "cancelled", "limit"}

ASSUME GroupsAssumption ==
    /\ Root \in Groups
    /\ Groups \cap Calls = {} /\ Groups \cap Signals = {} /\ Calls \cap Signals = {}
    /\ Nodes \cap Reserved = {}
    /\ Children \in [Groups -> Seq(Nodes \ {Root})]
    /\ \A g, h \in Groups : \A i \in DOMAIN Children[g], j \in DOMAIN Children[h] :
          Children[g][i] = Children[h][j] => g = h /\ i = j
    /\ Below[Root] = Nodes \ {Root}
    /\ Concurrency \in [Groups -> Nat \ {0}]
    /\ FailFast \subseteq Groups
    /\ Slots \in Nat \ {0}
    /\ Shared \in BOOLEAN

VARIABLES
    head,     \* persisted: the run
    rec,      \* persisted: the invocation record of every node
    frame,    \* persisted: the control frame in the record of every group
    wait,     \* persisted: the reservation of every signal node
    phase,    \* the process: "down", "boot" or "ready"
    available,  \* this process can recover the run's plan
    cancelling, \* a cancel command committed and has not reached the token
    task,     \* volatile: the future of every node
    local,    \* volatile: the variables of groups::execute
    token     \* volatile: the cancellation tokens of the run and its groups

stored  == <<head, rec, frame, wait>>
process == <<phase, available, cancelling>>
live    == <<task, local, token>>
vars    == <<stored, process, live>>

Errors  == {"unknown", "cancelled", "limit"} \cup Nodes    \* a node: its own
Results == {"ok", "suspended"} \cup Errors
Records == [state : {"Absent", "Pending", "Running", "Succeeded", "Failed",
                     "Cancelled", "Unknown"},
            suspect : BOOLEAN,    \* its certainty is not NotApplied
            error : {"none"} \cup Errors]
Waits   == {"None", "Open", "Delivered", "Consumed", "Closed"}
Pcs     == {"none", "view", "enter", "call", "consume", "admit", "poll", "stop",
            "end", "save", "fail", "done"}

NoRecord == [state |-> "Absent", suspect |-> FALSE, error |-> "none"]
NoFrame  == [next |-> 0, stopped |-> FALSE, error |-> "none"]
NoTask   == [pc |-> "none", result |-> "ok"]
NoLocal  == [next |-> 0, halted |-> FALSE, failed |-> "none", suspended |-> FALSE]

Idle == /\ task  = [n \in Nodes |-> NoTask]
        /\ local = [g \in Groups |-> NoLocal]
        /\ token = [s \in Groups \cup {Run} |-> FALSE]

Init ==
    /\ head = [state |-> "Accepted", cancelRequested |-> FALSE,
               error |-> "none", unresolved |-> {}]
    /\ rec = [n \in Nodes |-> NoRecord]
    /\ frame = [g \in Groups |-> NoFrame]
    /\ wait = [n \in Signals |-> "None"]
    /\ phase = "ready" /\ available = TRUE /\ cancelling = FALSE
    /\ Idle

-----------------------------------------------------------------------------
IsTerminal    == head.state \in {"Succeeded", "Failed", "Cancelled"}
Settled(r)    == r.state \in {"Succeeded", "Failed", "Cancelled"}
Unresolved(n) == \/ rec[n].state = "Unknown"
                 \/ rec[n].suspect /\ rec[n].state \notin {"Absent", "Succeeded"}
Open(n)       == wait[n] \in {"Open", "Delivered"}
Close(below)  == [n \in Signals |-> IF n \in below /\ Open(n) THEN "Closed" ELSE wait[n]]

At(n, pc)         == task[n].pc = pc
Goto(n, pc)       == task' = [task EXCEPT ![n].pc = pc]
Return(n, result) == task' = [task EXCEPT ![n] = [pc |-> "done", result |-> result]]
Live(g)           == {n \in Kids(g) : ~At(n, "none")}
(* A permit is held from the admission of a child to the end of its body. *)
Held              == {n \in Nodes \ {Root} : task[n].pc \notin {"none", "done"}}
CancelledAbove(n) == \E s \in Above[n] : token[s]
CancelSeen(n)     == head.cancelRequested \/ CancelledAbove(n)

(* The futures of a run are polled by one task: a group that is saving its  *)
(* own progress does not poll its children.                                *)
Polled(n) == \A g \in Above[n] \ {Run} : At(g, "poll")

-----------------------------------------------------------------------------
(* execute_body and planner::node: what a view of the node decides. *)
View(n) ==
    LET r == rec[n] IN
    /\ At(n, "view") /\ Polled(n)
    /\ IF r.state = "Succeeded" THEN Return(n, "ok")
       ELSE IF r.state = "Unknown" THEN Return(n, "unknown")
       ELSE IF Settled(r) THEN Return(n, r.error)
       ELSE IF CancelSeen(n) THEN Return(n, "cancelled")
       ELSE \/ Goto(n, "enter")
            \/ r.state = "Absent" /\ Return(n, n)    \* its input mapping fails
    /\ UNCHANGED <<stored, process, local, token>>

(* An operation, abstracted to the commit of its intent and of its outcome. *)
Dispatch(n) ==
    /\ n \in Calls /\ At(n, "enter") /\ Polled(n)
    /\ IF CancelSeen(n) THEN UNCHANGED rec /\ Return(n, "cancelled")
       ELSE rec' = [rec EXCEPT ![n].state = "Running"] /\ Goto(n, "call")
    /\ UNCHANGED <<head, frame, wait, process, local, token>>

Outcome(n) ==
    /\ n \in Calls /\ At(n, "call") /\ Polled(n)
    /\ \E result \in {"ok", "unknown", n} \cup
                     IF CancelSeen(n) THEN {"cancelled"} ELSE {} :
          /\ result = "ok" \/ result = "unknown" \/ ~rec[n].suspect
          /\ rec' = [rec EXCEPT ![n] =
                [state   |-> CASE result = "ok" -> "Succeeded"
                               [] result = "unknown" -> "Unknown"
                               [] result = "cancelled" -> "Cancelled"
                               [] OTHER -> "Failed",
                 suspect |-> result = "unknown",
                 error   |-> IF result = "ok" THEN "none" ELSE result]]
          /\ Return(n, result)
    /\ UNCHANGED <<head, frame, wait, process, local, token>>

(* A signal: reserve, then one commit that takes it or leaves it open. *)
Reserve(n) ==
    /\ n \in Signals /\ At(n, "enter") /\ Polled(n)
    /\ IF wait[n] # "None" THEN UNCHANGED <<rec, wait>> /\ Goto(n, "consume")
       ELSE IF CancelSeen(n) THEN UNCHANGED <<rec, wait>> /\ Return(n, "cancelled")
       ELSE \/ /\ wait' = [wait EXCEPT ![n] = "Open"]
               /\ rec' = [rec EXCEPT ![n].state = "Pending"]
               /\ Goto(n, "consume")
            \/ UNCHANGED <<rec, wait>> /\ Return(n, "limit")
    /\ UNCHANGED <<head, frame, process, local, token>>

Consume(n) ==
    /\ n \in Signals /\ At(n, "consume") /\ Polled(n)
    /\ IF CancelSeen(n) \/ wait[n] = "Closed"
       THEN /\ wait' = [wait EXCEPT ![n] = "Closed"]
            /\ rec' = [rec EXCEPT ![n].state = "Cancelled", ![n].error = "cancelled"]
            /\ Return(n, "cancelled")
       ELSE IF wait[n] = "Delivered"
       THEN /\ wait' = [wait EXCEPT ![n] = "Consumed"]
            /\ rec' = [rec EXCEPT ![n].state = "Succeeded"]
            /\ Return(n, "ok")
       ELSE UNCHANGED <<rec, wait>> /\ Return(n, "suspended")
    /\ UNCHANGED <<head, frame, process, local, token>>

-----------------------------------------------------------------------------
(* A group: execute_control around groups::execute. *)

(* A saved stop leaves the children that were admitted before it. *)
Total(g) == IF frame[g].stopped THEN frame[g].next ELSE Len(Children[g])

(* Mutant: a stopped group resumes with a fresh token. *)
Enter_TokenFresh(g) ==
    /\ g \in Groups /\ At(g, "enter") /\ Polled(g)
    /\ rec' = IF rec[g].state = "Absent"
              THEN [rec EXCEPT ![g].state = "Running"] ELSE rec
    /\ local' = [local EXCEPT ![g] = [NoLocal EXCEPT !.failed = frame[g].error]]
    /\ Goto(g, "admit")
    /\ UNCHANGED <<head, frame, wait, process, token>>

(* The activation is saved first; a stopped group resumes cancelled.  The   *)
(* loop starts over: children that are settled are only looked at.          *)
Enter(g) ==
    /\ g \in Groups /\ At(g, "enter") /\ Polled(g)
    /\ \/ /\ rec' = IF rec[g].state = "Absent"
                    THEN [rec EXCEPT ![g].state = "Running"] ELSE rec
          /\ local' = [local EXCEPT ![g] = [NoLocal EXCEPT !.failed = frame[g].error]]
          /\ token' = [token EXCEPT ![g] = frame[g].stopped]
          /\ Goto(g, "admit")
       \/ /\ rec[g].state = "Absent"
          /\ Return(g, "limit")
          /\ UNCHANGED <<rec, local, token>>
    /\ UNCHANGED <<head, frame, wait, process>>

(* progress and save_progress: the stop keeps its first error, and closes   *)
(* the reservations below the group in the same commit.                     *)
Advanced(g, next) == IF next > frame[g].next THEN next ELSE frame[g].next
SaveStop(g, error) ==
    /\ frame' = [frame EXCEPT ![g] =
           [next    |-> Advanced(g, local[g].next), stopped |-> TRUE,
            error   |-> IF @.error = "none" THEN error ELSE @.error]]
    /\ wait' = Close(Below[g])

(* ready_range *)
MayAdmit(g) == /\ At(g, "admit") /\ Polled(g)
               /\ ~local[g].halted
               /\ local[g].next < Total(g)
               /\ Cardinality(Live(g)) < Concurrency[g]

(* Mutant: the cursor is not saved with the admission. *)
Admit_CursorLate(g) ==
    LET child == Children[g][local[g].next + 1] IN
    /\ MayAdmit(g)
    /\ Cardinality(Held) < Slots
    /\ local' = [local EXCEPT ![g].next = @ + 1]
    /\ Goto(child, "view")
    /\ UNCHANGED <<stored, process, token>>

(* The cursor is durable before the child's future exists. *)
Admit(g) ==
    LET child == Children[g][local[g].next + 1] IN
    /\ MayAdmit(g)
    /\ Cardinality(Held) < Slots
    /\ frame' = [frame EXCEPT ![g].next = Advanced(g, local[g].next + 1)]
    /\ local' = [local EXCEPT ![g].next = @ + 1]
    /\ Goto(child, "view")
    /\ UNCHANGED <<head, rec, wait, process, token>>

(* No scope is free, in this run or because of others: never wait for one. *)
AdmitExhausted(g) ==
    /\ MayAdmit(g)
    /\ Cardinality(Held) = Slots \/ Shared
    /\ SaveStop(g, "limit")
    /\ local' = [local EXCEPT ![g].failed = "limit", ![g].halted = TRUE]
    /\ token' = [token EXCEPT ![g] = TRUE]
    /\ Goto(g, "poll")
    /\ UNCHANGED <<head, rec, process>>

Admitted(g) ==
    /\ At(g, "admit") /\ Polled(g) /\ ~MayAdmit(g)
    /\ Goto(g, "poll")
    /\ UNCHANGED <<stored, process, local, token>>

(* The result of a child.  One that fails a fail_fast group, or fails in a  *)
(* cancelled scope, or whose value does not fit the result, stops it.       *)
ChildDone(g, child) ==
    LET result == task[child].result
        stops  == /\ result \in Errors \ {"unknown"}
                  /\ g \in FailFast \/ CancelledAbove(g)
        goto(pc, res) == task' = [task EXCEPT ![child] = NoTask,
                                        ![g] = [pc |-> pc, result |-> res]]
    IN  /\ At(g, "poll") /\ Polled(g) /\ At(child, "done")
        /\ local' = CASE result = "suspended" -> [local EXCEPT ![g].suspended = TRUE]
                      [] result = "unknown" ->
                            [local EXCEPT ![g].failed = "unknown",
                                          ![g].halted = @ \/ g \in FailFast]
                      [] OTHER -> local
        /\ IF stops THEN goto("stop", result)
           ELSE \/ goto("admit", "ok")
                \/ result # "suspended" /\ goto("stop", "limit")
        /\ UNCHANGED <<stored, process, token>>

(* First the durable stop, then the token of the siblings. *)
Stop(g) ==
    LET error == task[g].result IN
    /\ At(g, "stop") /\ Polled(g)
    /\ SaveStop(g, error)
    /\ local' = [local EXCEPT ![g].halted = TRUE,
                              ![g].failed = IF @ = "none" THEN error ELSE @]
    /\ token' = [token EXCEPT ![g] = TRUE]
    /\ Goto(g, "admit")
    /\ UNCHANGED <<head, rec, process>>

(* Mutant: a suspended child is looked at before a failed one. *)
End_SuspendedFirst(g) ==
    LET cancelled == head.cancelRequested \/ CancelledAbove(g)
        fail(error) == task' = [task EXCEPT ![g] = [pc |-> "fail", result |-> error]]
    IN  /\ At(g, "poll") /\ Polled(g) /\ Live(g) = {}
        /\ IF \E n \in Below[g] : Unresolved(n) THEN fail("unknown")
           ELSE IF cancelled THEN fail("cancelled")
           ELSE IF local[g].suspended THEN Return(g, "suspended")
           ELSE IF local[g].failed # "none" THEN fail(local[g].failed)
           ELSE Goto(g, "save")
        /\ UNCHANGED <<stored, process, local, token>>

(* No child is live: the group's own view decides. *)
End(g) ==
    LET cancelled == head.cancelRequested \/ CancelledAbove(g)
        fail(error) == task' = [task EXCEPT ![g] = [pc |-> "fail", result |-> error]]
    IN  /\ At(g, "poll") /\ Polled(g) /\ Live(g) = {}
        /\ IF \E n \in Below[g] : Unresolved(n) THEN fail("unknown")
           ELSE IF local[g].failed # "none" THEN fail(local[g].failed)
           ELSE IF cancelled THEN fail("cancelled")
           ELSE IF local[g].suspended THEN Return(g, "suspended")
           ELSE Goto(g, "save")
        /\ UNCHANGED <<stored, process, local, token>>

Save(g) ==
    /\ At(g, "save") /\ Polled(g)
    /\ \/ /\ rec' = [rec EXCEPT ![g].state = "Succeeded", ![g].error = "none"]
          /\ Return(g, "ok")
       \/ /\ UNCHANGED rec
          /\ task' = [task EXCEPT ![g] = [pc |-> "fail", result |-> "limit"]]
    /\ UNCHANGED <<head, frame, wait, process, local, token>>

Fail(g) ==
    LET error == task[g].result IN
    /\ At(g, "fail") /\ Polled(g)
    /\ rec' = [rec EXCEPT ![g].error = error,
                          ![g].state = IF error = "unknown" THEN "Pending"
                                       ELSE IF error = "cancelled" THEN "Cancelled"
                                       ELSE "Failed"]
    /\ Return(g, error)
    /\ UNCHANGED <<head, frame, wait, process, local, token>>

NodeStep(n) == View(n) \/ Dispatch(n) \/ Outcome(n) \/ Reserve(n) \/ Consume(n)
GroupStep(g) ==
    \/ Enter(g) \/ Admit(g) \/ AdmitExhausted(g) \/ Admitted(g) \/ Stop(g)
    \/ (\E child \in Kids(g) : ChildDone(g, child)) \/ End(g) \/ Save(g) \/ Fail(g)

-----------------------------------------------------------------------------
(* The coordinator task around the body (module Coordinator has its steps). *)
Due == \E n \in Signals : wait[n] = "Delivered"

Spawn ==
    /\ phase = "ready" /\ At(Root, "none")
    /\ \/ head.state \in {"Accepted", "Running", "Cancelling"}
       \/ head.state = "Waiting" /\ Due
    /\ IF available
       THEN /\ head' = IF head.cancelRequested THEN head
                       ELSE [head EXCEPT !.state = "Running"]
            /\ Goto(Root, "view")
            /\ local' = [g \in Groups |-> NoLocal]
            /\ token' = [s \in Groups \cup {Run} |-> FALSE]
       ELSE /\ head' = [head EXCEPT !.state = "Blocked", !.error = "unavailable"]
            /\ UNCHANGED live
    /\ UNCHANGED <<rec, frame, wait, process>>

Ends(state, error) ==
    /\ head' = [head EXCEPT !.state = state, !.error = error]
    /\ wait' = Close(Nodes)

Finish ==
    LET result == task[Root].result IN
    /\ At(Root, "done")
    /\ Goto(Root, "none")
    /\ IF IsTerminal THEN UNCHANGED <<head, rec, wait>>
       ELSE IF result = "suspended"
       THEN /\ head' = IF head.cancelRequested THEN head
                       ELSE [head EXCEPT !.state = "Waiting"]
            /\ UNCHANGED <<rec, wait>>
       ELSE /\ rec' = [n \in Nodes |-> IF Unresolved(n)
                                       THEN [rec[n] EXCEPT !.state = "Unknown"]
                                       ELSE rec[n]]
            /\ IF \E n \in Nodes : Unresolved(n)
               THEN /\ head' = [head EXCEPT !.state = "Blocked", !.error = "unknown"]
                    /\ UNCHANGED wait
               ELSE IF result = "cancelled" \/ (result = "ok" /\ CancelSeen(Root))
               THEN Ends("Cancelled", "other")
               ELSE \/ result = "ok" /\ Ends("Succeeded", "none")
                    \/ Ends("Failed", "other")    \* or its output is refused
    /\ UNCHANGED <<frame, process, local, token>>

-----------------------------------------------------------------------------
(* Commands. *)
Cancel ==
    /\ phase = "ready" /\ ~IsTerminal /\ ~head.cancelRequested
    /\ head' = [head EXCEPT !.cancelRequested = TRUE, !.state = "Cancelling"]
    /\ wait' = Close(Nodes)
    /\ cancelling' = TRUE
    /\ UNCHANGED <<rec, frame, phase, available, live>>

CancelToken ==
    /\ cancelling
    /\ cancelling' = FALSE
    /\ token' = [token EXCEPT ![Run] = ~At(Root, "none")]
    /\ UNCHANGED <<stored, phase, available, task, local>>

Deliver(n) ==
    /\ phase = "ready" /\ wait[n] = "Open"
    /\ wait' = [wait EXCEPT ![n] = "Delivered"]
    /\ UNCHANGED <<head, rec, frame, process, live>>

Resolvable(n) == phase = "ready" /\ head.state = "Blocked" /\ rec[n].state = "Unknown"

Reconcile(n) ==
    /\ Resolvable(n)
    /\ \E state \in {"Succeeded", "Failed"} \cup
                    IF head.cancelRequested THEN {} ELSE {"Pending"} :
          /\ state = "Succeeded" => available
          /\ rec' = [rec EXCEPT ![n] =
                [state |-> state, suspect |-> FALSE,
                 error |-> IF state = "Failed" THEN n ELSE "none"]]
    /\ head' = IF \E m \in Nodes : rec'[m].state = "Unknown" THEN head
               ELSE [head EXCEPT !.error = "none",
                       !.state = IF head.cancelRequested THEN "Cancelling" ELSE "Accepted"]
    /\ UNCHANGED <<frame, wait, process, live>>

StopTracking(n) ==
    /\ Resolvable(n)
    /\ head' = [head EXCEPT
                  !.state = IF head.cancelRequested THEN "Cancelled" ELSE "Failed",
                  !.error = "unresolved",
                  !.unresolved = {m \in Nodes : rec[m].state = "Unknown"}]
    /\ wait' = Close(Nodes)
    /\ UNCHANGED <<rec, frame, process, live>>

-----------------------------------------------------------------------------
(* A crash, or a failed save of a group's progress, which fails the         *)
(* supervision of the process.                                             *)
Crash ==
    /\ phase # "down"
    /\ phase' = "down" /\ cancelling' = FALSE
    /\ task'  = [n \in Nodes |-> NoTask]
    /\ local' = [g \in Groups |-> NoLocal]
    /\ token' = [s \in Groups \cup {Run} |-> FALSE]
    /\ UNCHANGED <<stored, available>>

Boot ==
    /\ phase = "down"
    /\ phase' = "boot"
    /\ available' \in BOOLEAN
    /\ UNCHANGED <<stored, cancelling, live>>

(* An interrupted attempt may be repeated, or it is unknown. *)
BootClassify(n) ==
    /\ phase = "boot" /\ available
    /\ n \in Calls /\ rec[n].state = "Running"
    /\ \E known \in BOOLEAN :
          LET suspect == rec[n].suspect \/ ~known
              state   == CASE suspect -> {"Unknown"}
                           [] head.cancelRequested -> {"Cancelled"}
                           [] OTHER -> {"Failed"}
          IN  \E s \in state \cup IF head.cancelRequested THEN {} ELSE {"Pending"} :
                 rec' = [rec EXCEPT ![n] =
                    [state |-> s, suspect |-> suspect,
                     error |-> CASE s = "Cancelled" -> "cancelled"
                                 [] s = "Failed" -> n
                                 [] OTHER -> "none"]]
    /\ UNCHANGED <<head, frame, wait, process, live>>

BootReady ==
    /\ phase = "boot"
    /\ available => \A n \in Calls : rec[n].state # "Running"
    /\ head' = IF IsTerminal THEN head
               ELSE IF ~available
               THEN [head EXCEPT !.state = "Blocked", !.error = "unavailable"]
               ELSE IF head.state = "Blocked" /\ head.error = "unavailable"
               THEN [head EXCEPT !.error = "none",
                       !.state = IF head.cancelRequested THEN "Cancelling" ELSE "Running"]
               ELSE head
    /\ phase' = "ready"
    /\ UNCHANGED <<rec, frame, wait, available, cancelling, live>>

RunStep  == (\E n \in Nodes : NodeStep(n)) \/ (\E g \in Groups : GroupStep(g))
            \/ Spawn \/ Finish
BootStep == BootReady \/ \E n \in Calls : BootClassify(n)
Command  == \/ Cancel \/ CancelToken \/ \E n \in Signals : Deliver(n)
            \/ \E n \in Calls : Reconcile(n) \/ StopTracking(n)

Next == RunStep \/ Command \/ Crash \/ Boot \/ BootStep
Spec == Init /\ [][Next]_vars

(***************************************************************************)
(* Fairness: Tokio keeps polling the task of a run in a live process, the  *)
(* attempts of its operations are bounded by their timeout, and a boot     *)
(* goes on.  Nothing makes the host boot, signal, cancel or reconcile.     *)
(***************************************************************************)
FairSpec == Spec /\ WF_vars(RunStep) /\ WF_vars(BootStep)

-----------------------------------------------------------------------------
(* Properties. *)

TypeOK ==
    /\ head \in [state : {"Accepted", "Running", "Waiting", "Blocked", "Cancelling",
                          "Succeeded", "Failed", "Cancelled"},
                 cancelRequested : BOOLEAN,
                 error : {"none", "unknown", "unavailable", "unresolved", "other"},
                 unresolved : SUBSET Calls]
    /\ rec \in [Nodes -> Records]
    /\ frame \in [Groups -> [next : Nat, stopped : BOOLEAN, error : {"none"} \cup Errors]]
    /\ wait \in [Signals -> Waits]
    /\ phase \in {"down", "boot", "ready"}
    /\ available \in BOOLEAN /\ cancelling \in BOOLEAN
    /\ task \in [Nodes -> [pc : Pcs, result : Results]]
    /\ local \in [Groups -> [next : Nat, halted : BOOLEAN,
                             failed : {"none"} \cup Errors, suspended : BOOLEAN]]
    /\ token \in [Groups \cup {Run} -> BOOLEAN]

(* The durable cursor is ahead of every child: nothing below a child was    *)
(* recorded, reserved or started unless the group had saved its admission.  *)
CursorIsAhead ==
    \A g \in Groups : \A i \in frame[g].next + 1..Len(Children[g]) :
        \A n \in Below[g] :
            n = Children[g][i] \/ Children[g][i] \in Above[n] =>
                rec[n].state = "Absent" /\ At(n, "none")

(* A stopped group holds no reservation: the stop closes those below it in  *)
(* its own commit and nothing below it reserves again, in this process or   *)
(* in a later one.                                                          *)
StopClosesWaits ==
    \A g \in Groups : frame[g].stopped =>
        \A n \in Signals : g \in Above[n] => ~Open(n)

(* An unknown effect is never joined or collected away: a group is settled  *)
(* only when nothing below it is unresolved.                                *)
UnknownIsNotCollected ==
    \A g \in Groups : Settled(rec[g]) => \A n \in Below[g] : ~Unresolved(n)

(* A group succeeds only when it admitted every child and each of them      *)
(* came to an end of its own.                                               *)
JoinsAll ==
    \A g \in Groups : rec[g].state = "Succeeded" =>
        /\ frame[g].next = Len(Children[g])
        /\ \A n \in Kids(g) : rec[n].state \notin {"Pending", "Running", "Unknown"}

(* A run that ends by itself leaves no effect in doubt, and no attempt      *)
(* that nobody classified.                                                  *)
EndsAccounted ==
    IsTerminal /\ head.error # "unresolved" =>
        \A n \in Calls : rec[n].state # "Running" /\ ~Unresolved(n)

(* Whatever child failed later, and however often the group was resumed, a  *)
(* stopped group ends with the error it was stopped for, unless the scopes  *)
(* of the process were exhausted again.                                     *)
FailureIsKept ==
    \A g \in Groups : frame[g].stopped /\ Settled(rec[g]) =>
        rec[g].error \in {frame[g].error, "limit"}

(* What a group and the nodes below it say of one another, after any number *)
(* of resumptions of its task (groups.rs writes them in different commits). *)
GroupsAgree ==
    /\ CursorIsAhead
    /\ StopClosesWaits
    /\ UnknownIsNotCollected
    /\ JoinsAll
    /\ EndsAccounted
    /\ FailureIsKept

(* A stop is final: the cursor and the first error stay, and below a group  *)
(* whose stop is durable nothing is dispatched or reserved any more, by a   *)
(* sibling that was running, or by a later process.                         *)
NothingStartsAfterStop ==
    [][/\ \A g \in Groups : frame[g].stopped => frame'[g] = frame[g]
       /\ \A n \in Calls \cup Signals :
          (\E g \in Above[n] \ {Run} : frame[g].stopped) =>
              /\ rec'[n].state = "Running" => rec[n].state = "Running"
              /\ n \in Signals => (wait[n] = "None" => wait'[n] = "None")]_vars

(* Groups that share the scopes of the process never wait for one another,  *)
(* and a group does not sleep over children that its stop has closed: in a  *)
(* process that stays up the run ends, blocks, or waits for a signal that   *)
(* may still come (groups.rs:128, groups.rs:223).                           *)
AlwaysSettles ==
    <>[](phase = "ready") =>
        []<>(\/ IsTerminal \/ head.state = "Blocked"
             \/ head.state = "Waiting" /\ \E n \in Signals : wait[n] = "Open")

(* docs/CONTRACTS.md: StopTracking "preserves visible unresolved effects".  *)
StoppedTrackingIsVisible ==
    head.error = "unresolved" =>
        \A n \in Calls : rec[n].state = "Running" \/ Unresolved(n) =>
            n \in head.unresolved
=============================================================================
