------------------------------ MODULE RunHead ------------------------------
(***************************************************************************)
(* The commands and the lifecycle around the operation nodes of one run:   *)
(* cancellation, reconciliation of unknown effects, forced shutdown,       *)
(* crashes, and the boot that classifies what a crash left unfinished.     *)
(*                                                                         *)
(* The variables of Operations that a crash keeps are run, rec and the     *)
(* world; exec, token and late live in the process.                        *)
(***************************************************************************)
EXTENDS Operations

VARIABLES
    phase,      \* the life of the process that owns the store
    available,  \* the composition of this process can recover the run's plan
    cancelling  \* a cancel command committed and has not reached the token

headVars == <<phase, available, cancelling>>
Phases   == {"boot", "ready", "stopping", "down"}

HeadInit == phase = "ready" /\ available = TRUE /\ cancelling = FALSE

Unfinished == ~IsTerminal(run.state)
HasUnknown == \E n \in Nodes : rec[n].state = "Unknown"

-----------------------------------------------------------------------------
(* cancel: the durable request first, the in-memory token second. *)
Cancel ==
    /\ phase \in {"ready", "stopping"}
    /\ Unfinished
    /\ run' = [run EXCEPT !.cancelRequested = TRUE, !.state = "Cancelling"]
    /\ cancelling' = TRUE
    /\ UNCHANGED <<rec, expired, exec, token, late, world, phase, available>>

CancelToken ==
    /\ cancelling
    /\ cancelling' = FALSE
    /\ token' = [n \in Nodes |-> TRUE]
    /\ UNCHANGED <<run, rec, expired, exec, late, world, phase, available>>

-----------------------------------------------------------------------------
(* reconcile: read, decide and commit at the revision that was read.  The   *)
(* evidence is authoritative: it is about the logical effect, and NotApplied *)
(* asserts that no attempt can still complete.  Inconclusive, non-quiescent  *)
(* or contradicting evidence changes nothing but the audit.                  *)
Resolvable(n) ==
    /\ phase = "ready"
    /\ run.state = "Blocked"
    /\ rec[n].state = "Unknown"

(* Mutant: resolution forgets the cancellation. *)
Unblocked_CancelForgotten(newRec) ==
    IF \E n \in Nodes : newRec[n].state = "Unknown" THEN run
    ELSE [run EXCEPT !.state = "Accepted", !.error = "none"]

(* The run continues once no unknown effect is left. *)
Unblocked(newRec) ==
    IF \E n \in Nodes : newRec[n].state = "Unknown" THEN run
    ELSE [run EXCEPT !.state = IF run.cancelRequested THEN "Cancelling"
                               ELSE "Accepted",
                     !.error = "none"]

Resolve(n, r) ==
    /\ rec' = [rec EXCEPT ![n] = r]
    /\ run' = Unblocked(rec')
    /\ UNCHANGED <<expired, exec, token, late, world, headVars>>

ConfirmApplied(n) ==
    /\ Resolvable(n)
    /\ available
    /\ landed[n] # {}
    /\ \E validOutput \in BOOLEAN :
          Resolve(n, [rec[n] EXCEPT
              !.certainty = "Applied",
              !.state = IF validOutput THEN "Succeeded" ELSE "Unknown",
              !.error = IF validOutput THEN "none" ELSE "other"])

ConfirmNotApplied(n) ==
    /\ Resolvable(n)
    /\ landed[n] = {} /\ pending[n] = {}
    /\ rec[n].certainty # "Applied"
    /\ \E retry \in BOOLEAN :
         LET again == /\ retry
                      /\ rec[n].attempts < MaxAttempts[n]
                      /\ ~expired
                      /\ ~run.cancelRequested
         IN  Resolve(n, [rec[n] EXCEPT
                 !.certainty = "NotApplied",
                 !.state = IF again THEN "Pending" ELSE "Failed",
                 !.error = IF again THEN "none" ELSE "other"])

(* Gives the run up for good and lists the effects it leaves unresolved. *)
StopTracking(n) ==
    /\ Resolvable(n)
    /\ run' = [run EXCEPT
                 !.state = IF run.cancelRequested THEN "Cancelled" ELSE "Failed",
                 !.error = "unresolved",
                 !.unresolved = {m \in Nodes : rec[m].state = "Unknown"}]
    /\ UNCHANGED <<rec, expired, exec, token, late, world, headVars>>

-----------------------------------------------------------------------------
(* A shutdown that ran out of patience cancels every task of the process. *)
ForceShutdown ==
    /\ phase = "ready"
    /\ phase' = "stopping"
    /\ token' = [n \in Nodes |-> TRUE]
    /\ UNCHANGED <<run, rec, expired, exec, late, world, available, cancelling>>

(* A crash, or the end of a shutdown: only the store and the world survive. *)
Crash ==
    /\ phase # "down"
    /\ phase' = "down"
    /\ cancelling' = FALSE
    /\ exec' = [n \in Nodes |-> Idle]
    /\ token' = [n \in Nodes |-> FALSE]
    /\ late' = {}
    /\ UNCHANGED <<run, rec, expired, world, available>>

(* boot with RecoveryPolicy::Resume claims the store; whether the accepted  *)
(* plan can be recovered depends on what the host composed this time.       *)
Boot ==
    /\ phase = "down"
    /\ phase' = "boot"
    /\ available' \in BOOLEAN
    /\ UNCHANGED <<opVars, cancelling>>

BootUnblock ==
    /\ phase = "boot" /\ available
    /\ run.state = "Blocked" /\ run.error = "unavailable"
    /\ run' = [run EXCEPT !.state = IF run.cancelRequested THEN "Cancelling"
                                    ELSE "Running",
                          !.error = "none"]
    /\ UNCHANGED <<rec, expired, exec, token, late, world, headVars>>

(* An attempt that was neither confirmed nor failed may have happened. *)
BootClassify(n) ==
    /\ phase = "boot" /\ available
    /\ ~(run.state = "Blocked" /\ run.error = "unavailable")
    /\ Unfinished
    /\ rec[n].state = "Running"
    /\ RecordFailure(n, rec[n].attempt, "transient", LostCertainty(n),
                     FALSE, run.cancelRequested)
    /\ UNCHANGED <<run, expired, exec, token, late, world, headVars>>

MarkUnavailable ==
    run' = [run EXCEPT !.state = "Blocked", !.error = "unavailable"]

BootUnavailable ==
    /\ phase = "boot" /\ ~available
    /\ Unfinished
    /\ ~(run.state = "Blocked" /\ run.error = "unavailable")
    /\ MarkUnavailable
    /\ UNCHANGED <<rec, expired, exec, token, late, world, headVars>>

(* Mutant: commands are served before the unfinished attempts are classified. *)
BootReady_Early ==
    /\ phase = "boot"
    /\ phase' = "ready"
    /\ UNCHANGED <<opVars, available, cancelling>>

BootReady ==
    /\ phase = "boot"
    /\ Unfinished =>
          IF available
          THEN /\ ~(run.state = "Blocked" /\ run.error = "unavailable")
               /\ \A n \in Nodes : rec[n].state # "Running"
          ELSE run.state = "Blocked" /\ run.error = "unavailable"
    /\ phase' = "ready"
    /\ UNCHANGED <<opVars, available, cancelling>>

BootStep ==
    \/ BootUnblock \/ (\E n \in Nodes : BootClassify(n))
    \/ BootUnavailable \/ BootReady

CommandStep ==
    \/ Cancel
    \/ \E n \in Nodes : ConfirmApplied(n) \/ ConfirmNotApplied(n) \/ StopTracking(n)
=============================================================================
