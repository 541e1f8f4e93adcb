---------------------------- MODULE Coordinator ----------------------------
(***************************************************************************)
(* The coordinator task of one run, around whatever its body is: the       *)
(* supervisor that spawns it, its first transition, and the two ways it    *)
(* settles, the final commit and finish_error.  A module that models a     *)
(* body moves co from the pc that Begin is given to "output" or "error".   *)
(***************************************************************************)
EXTENDS RunHead

VARIABLE co   \* the coordinator task: [pc, node, error]

NoCo  == [pc |-> "none", node |-> 1, error |-> "none"]
CoAt(pc) == co.pc = pc
Raise(error) == co' = [co EXCEPT !.pc = "error", !.error = error]

-----------------------------------------------------------------------------
(* The supervisor runs one task per unfinished run that is not blocked, and *)
(* picks a waiting run up when its next wake-up is due.  The task's         *)
(* token is a child of the process token, which a forced shutdown cancels.  *)
(* Mutant: a run that is being cancelled is not picked up. *)
Runnable_NotCancelling(due) ==
    /\ phase \in {"ready", "stopping"}
    /\ CoAt("none")
    /\ run.state \in {"Accepted", "Running"} \/ (run.state = "Waiting" /\ due)

Runnable(due) ==
    /\ phase \in {"ready", "stopping"}
    /\ CoAt("none")
    /\ \/ run.state \in {"Accepted", "Running", "Cancelling"}
       \/ run.state = "Waiting" /\ due

Spawn(due) ==
    /\ Runnable(due) /\ available
    /\ co' = [NoCo EXCEPT !.pc = "begin"]
    /\ token' = [n \in Nodes |-> phase = "stopping"]
    /\ UNCHANGED <<run, rec, expired, exec, late, world, headVars>>

SpawnUnavailable(due) ==
    /\ Runnable(due) /\ ~available
    /\ MarkUnavailable
    /\ UNCHANGED <<rec, expired, exec, token, late, world, headVars, co>>

Begin(first) ==
    /\ CoAt("begin")
    /\ run' = IF IsTerminal(run.state) \/ run.cancelRequested THEN run
              ELSE [run EXCEPT !.state = "Running"]
    /\ co' = [co EXCEPT !.pc = first]
    /\ UNCHANGED <<rec, expired, exec, token, late, world, headVars>>

-----------------------------------------------------------------------------
(* The body is complete: its output mapping, which may fail, one more look  *)
(* at the head, the output's schema, then the final commit, which decides   *)
(* again on what it finds.                                                  *)
CheckOutput ==
    /\ CoAt("output")
    /\ \/ Raise("other")
       \/ IF CancelSeen(co.node) THEN Raise("cancelled")
          ELSE IF \E n \in Nodes : IsUnresolved(rec[n]) THEN Raise("unknown")
          ELSE co' = [co EXCEPT !.pc = "commit"]
    /\ UNCHANGED <<opVars, headVars>>

FinalCommit ==
    /\ CoAt("commit")
    /\ \E fits \in BOOLEAN :    \* the result fits run_bytes
          run' = IF IsTerminal(run.state) THEN run
                 ELSE IF CancelSeen(co.node)
                      THEN [run EXCEPT !.state = "Cancelled", !.error = "other"]
                 ELSE IF expired \/ ~fits
                      THEN [run EXCEPT !.state = "Failed", !.error = "other"]
                 ELSE [run EXCEPT !.state = "Succeeded", !.error = "none"]
    /\ co' = NoCo
    /\ UNCHANGED <<rec, expired, exec, token, late, world, headVars>>

(* Mutant: the suspicion of an effect is not turned into a block. *)
Suspected_Ignored(r) == r
(* Mutant: a confirmed write is suspected too. *)
Suspected_Confirmed(r) ==
    IF r.certainty # "NotApplied" THEN [r EXCEPT !.state = "Unknown"] ELSE r

(* finish_error: an effect that may have happened blocks the run.           *)
Suspected(r) == IF r.state # "Succeeded" /\ r.certainty # "NotApplied"
                THEN [r EXCEPT !.state = "Unknown"] ELSE r

FinishError ==
    /\ CoAt("error")
    /\ IF IsTerminal(run.state) THEN UNCHANGED <<run, rec>>
       ELSE /\ rec' = [n \in Nodes |-> Suspected(rec[n])]
            /\ run' = IF \E n \in Nodes : rec'[n].state = "Unknown"
                      THEN [run EXCEPT !.state = "Blocked", !.error = "unknown"]
                      ELSE [run EXCEPT
                              !.state = IF co.error = "cancelled"
                                        THEN "Cancelled" ELSE "Failed",
                              !.error = "other"]
    /\ co' = NoCo
    /\ UNCHANGED <<expired, exec, token, late, world, headVars>>

-----------------------------------------------------------------------------
(* Properties of any body.  Effects first. *)

Possible(n) == pending[n] \cup landed[n]

(* A write that may not be repeated is never attempted again while an       *)
(* earlier attempt has happened or may still happen: through retries,       *)
(* timeouts, crashes, boots and reconciliations its effect happens at most  *)
(* once.                                                                    *)
UnsafeAtMostOnce ==
    \A n \in Nodes : Repetition[n] = "Unsafe" =>
        \A a, b \in Possible(n) : a = b

(* What the store calls not applied did not happen and no longer can: a     *)
(* settled record with certainty NotApplied has no attempt left in the      *)
(* world, however many attempts and processes it took.                      *)
NotAppliedIsTrue ==
    \A n \in Nodes :
        /\ rec[n].certainty = "NotApplied"
        /\ rec[n].state \notin {"Running", "Succeeded"}
        => Possible(n) = {}

(* A run never ends over an effect it does not account for: when it is      *)
(* terminal, every node whose write happened or may still happen is either  *)
(* confirmed or listed in unresolved_effects by StopTracking.               *)
NoHiddenEffect ==
    IsTerminal(run.state) =>
        \A n \in Nodes : Possible(n) # {} =>
            rec[n].state = "Succeeded" \/ n \in run.unresolved

(* An accepted cancellation is never forgotten: no later begin, boot or     *)
(* reconciliation puts the run back to work, and it does not succeed.       *)
CancelIsKept ==
    run.cancelRequested =>
        run.state \in {"Cancelling", "Blocked", "Failed", "Cancelled"}

(* A run blocked on an unknown effect has a record reconcile accepts, so it *)
(* is never stuck without a command that moves it.                          *)
BlockedIsResolvable ==
    run.state = "Blocked" /\ run.error = "unknown" => HasUnknown

(* A record is left Running only by a process that died: in a live one an   *)
(* executor holds it, unless the plan could not be recovered.               *)
RunningIsOwned ==
    \A n \in Nodes : phase \in {"ready", "stopping"} /\ rec[n].state = "Running" =>
        \/ exec[n].pc \in {"dispatch", "call", "outcome"}
           /\ exec[n].attempt = rec[n].attempt
        \/ ~available

(* A retry the record promises is within the budget the next dispatch       *)
(* checks, whoever promised it: the classification, a boot or a             *)
(* reconciliation.                                                          *)
RetriesAreAffordable ==
    \A n \in Nodes :
        /\ rec[n].attempts <= MaxAttempts[n]
        /\ rec[n].state \in {"Pending", "RetryScheduled"} =>
               rec[n].attempts < MaxAttempts[n]

(* What a run comes to rest in: it ended, or it waits for a resolution. *)
Settled == IsTerminal(run.state) \/ run.state = "Blocked"
=============================================================================
