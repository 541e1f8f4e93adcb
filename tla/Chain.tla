------------------------------- MODULE Chain -------------------------------
(***************************************************************************)
(* One run whose body is the sequence 1..N of operation nodes, from its    *)
(* acceptance to its settlement: the walk over the body, composed with the *)
(* coordinator task, the operation executors, the commands, the crashes    *)
(* and boots of the process, and the world.                                *)
(***************************************************************************)
EXTENDS Coordinator

vars == <<opVars, headVars, co>>

CoPcs == {"none", "begin", "node", "op", "output", "commit", "error"}

Init == OperationsInit /\ HeadInit /\ co = NoCo

-----------------------------------------------------------------------------
(* execute_body: view the next node, take its confirmed output, refuse it,  *)
(* or run its operation.                                                    *)
NextNode == co' = IF co.node < N THEN [co EXCEPT !.pc = "node", !.node = @ + 1]
                  ELSE [co EXCEPT !.pc = "output"]

NodeConfirmed ==
    /\ CoAt("node")
    /\ rec[co.node].state = "Succeeded"
    /\ NextNode
    /\ UNCHANGED <<opVars, headVars>>

NodeRefused ==
    LET r == rec[co.node]
        stopped == r.state \in {"Unknown", "Failed", "Cancelled"}
    IN  /\ CoAt("node")
        /\ r.state # "Succeeded"
        /\ \/ stopped \/ CancelSeen(co.node) \/ expired
           \/ r.state = "Absent"    \* its input mapping or schema may fail
        /\ Raise(IF r.state = "Unknown" THEN "unknown"
                 ELSE IF stopped THEN r.error
                 ELSE IF CancelSeen(co.node) THEN "cancelled" ELSE "other")
        /\ UNCHANGED <<opVars, headVars>>

NodeExecute ==
    /\ CoAt("node")
    /\ rec[co.node].state \notin {"Succeeded", "Unknown", "Failed", "Cancelled"}
    /\ ~CancelSeen(co.node) /\ ~expired
    /\ exec' = [exec EXCEPT ![co.node] = [Idle EXCEPT !.pc = "view"]]
    /\ co' = [co EXCEPT !.pc = "op"]
    /\ UNCHANGED <<run, rec, expired, token, late, world, headVars>>

NodeDone ==
    /\ CoAt("op")
    /\ exec[co.node].pc = "done"
    /\ IF exec[co.node].result = "none" THEN NextNode
       ELSE Raise(exec[co.node].result)
    /\ exec' = [exec EXCEPT ![co.node] = Idle]
    /\ UNCHANGED <<run, rec, expired, token, late, world, headVars>>

CoordinatorStep ==
    \/ Begin("node") \/ NodeConfirmed \/ NodeRefused \/ NodeExecute \/ NodeDone
    \/ CheckOutput \/ FinalCommit \/ FinishError

-----------------------------------------------------------------------------
Next ==
    \/ Spawn(FALSE) \/ SpawnUnavailable(FALSE) \/ CoordinatorStep
    \/ (\E n \in Nodes : ExecutorStep(n)) /\ UNCHANGED <<headVars, co>>
    \/ (\E call \in late : LateEnds(call)) /\ UNCHANGED <<headVars, co>>
    \/ WorldStep /\ UNCHANGED <<headVars, co>>
    \/ (CommandStep \/ CancelToken \/ ForceShutdown) /\ UNCHANGED co
    \/ Crash /\ co' = NoCo
    \/ (Boot \/ BootStep) /\ UNCHANGED co

Spec == Init /\ [][Next]_vars

(***************************************************************************)
(* Fairness: Tokio keeps polling the tasks of a live process, a call is    *)
(* bounded by its attempt timeout, a late one by its grace period, and a   *)
(* boot goes on.  Nothing makes the host boot, cancel or reconcile, and    *)
(* nothing makes an effect happen.                                         *)
(***************************************************************************)
Fairness ==
    /\ WF_vars(Spawn(FALSE) \/ SpawnUnavailable(FALSE))
    /\ WF_vars(CoordinatorStep)
    /\ \A n \in Nodes : WF_vars(ExecutorStep(n) /\ UNCHANGED <<headVars, co>>)
    /\ WF_vars((\E call \in late : LateEnds(call)) /\ UNCHANGED <<headVars, co>>)
    /\ WF_vars(BootStep /\ UNCHANGED co)

FairSpec == Spec /\ Fairness

-----------------------------------------------------------------------------
(* Properties. *)

TypeOK ==
    /\ run \in Runs
    /\ rec \in [Nodes -> Records]
    /\ expired \in BOOLEAN
    /\ exec \in [Nodes -> Execs]
    /\ token \in [Nodes -> BOOLEAN]
    /\ late \subseteq Nodes \X Nat
    /\ issued \in [Nodes -> Nat]
    /\ pending \in [Nodes -> SUBSET Nat]
    /\ landed \in [Nodes -> SUBSET Nat]
    /\ phase \in Phases
    /\ available \in BOOLEAN
    /\ cancelling \in BOOLEAN
    /\ co \in [pc : CoPcs, node : Nodes, error : Errors]

(* Success is earned: the run succeeds only over nodes that are all         *)
(* confirmed, and a confirmed write did happen, also when an operator       *)
(* confirmed it or a keyed destination recognized an earlier lost attempt.  *)
SuccessIsEarned ==
    run.state = "Succeeded" =>
        \A n \in Nodes : /\ rec[n].state = "Succeeded"
                         /\ IsWrite(n) => landed[n] # {}

(* The body is a sequence: nothing of a node exists in the store or in the  *)
(* world before every earlier node is confirmed.                            *)
InOrder ==
    \A n \in Nodes :
        rec[n].state # "Absent" \/ Possible(n) # {} =>
            \A m \in 1..n - 1 : rec[m].state = "Succeeded"

(* What the head of the run promises agrees with its records: success,      *)
(* order, a kept cancellation, a block someone can lift, a retry that can   *)
(* be paid for (coordinator.rs, control.rs and reconcile.rs write them in   *)
(* different commits).                                                      *)
HeadAgrees ==
    /\ SuccessIsEarned
    /\ InOrder
    /\ CancelIsKept
    /\ BlockedIsResolvable
    /\ RetriesAreAffordable

(* A terminal run and a confirmed record are frozen. *)
ResultsAreFinal ==
    [][/\ IsTerminal(run.state) => run' = run /\ rec' = rec
       /\ \A n \in Nodes : rec[n].state = "Succeeded" => rec'[n] = rec[n]]_vars

(* No attempt is authorized once the cancellation is durable or the         *)
(* deadline has passed, although both are checked on an older view.         *)
NothingNewAfterStop ==
    [][run.cancelRequested \/ expired => issued' = issued]_vars

(* In a process that stays up the run always settles: it ends or blocks     *)
(* until someone resolves it.                                               *)
AlwaysSettles == <>[](phase = "ready") => []<>Settled
=============================================================================
