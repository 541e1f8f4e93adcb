----------------------------- MODULE Operations -----------------------------
(***************************************************************************)
(* The operation nodes of one run and the world they act on.               *)
(*                                                                         *)
(* execute_operation is a loop over three durable steps: commit an intent, *)
(* call the operation, then commit a confirmation or a classified failure. *)
(* Each commit is an atomic read-modify-write of the store (state.rs       *)
(* re-evaluates the edit on a fresh view until its compare-and-set wins),  *)
(* so each is one action here; everything between two commits interleaves  *)
(* with cancellation, the deadline, the world and crashes.                 *)
(*                                                                         *)
(* A sleep until a scheduled retry is due is the time an executor spends   *)
(* at pc "view" before its next step; the deadline is the monotone flag    *)
(* expired.                                                                *)
(***************************************************************************)
EXTENDS Effects, FiniteSets

CONSTANTS
    N,            \* the operation nodes are 1..N
    Effect,       \* Effect[n]: the effect kind its descriptor declares
    Repetition,   \* Repetition[n]: what its descriptor says of repeating it
    MaxAttempts,  \* MaxAttempts[n]: retry.max_attempts of node n
    Permits       \* limits.concurrent_attempts

Nodes == 1..N

ASSUME OperationsAssumption ==
    /\ N \in Nat \ {0}
    /\ Effect \in [Nodes -> EffectKinds]
    /\ Repetition \in [Nodes -> Repetitions]
    /\ MaxAttempts \in [Nodes -> Nat \ {0}]
    /\ Permits \in Nat \ {0}

VARIABLES
    run,      \* persisted: the head of the run
    rec,      \* persisted: rec[n], the invocation record of node n
    expired,  \* the run's absolute deadline has passed
    exec,     \* exec[n]: the task in execute_operation for node n
    token,    \* token[n]: the cancellation token of that task is cancelled
    late,     \* the calls <<n, a>> still watched by observe_late
    issued,   \* issued[n]: attempt identities handed out so far
    pending,  \* world: attempts whose effect may still happen
    landed    \* world: attempts whose effect happened

opVars == <<run, rec, expired, exec, token, late, issued, pending, landed>>
world  == <<issued, pending, landed>>

-----------------------------------------------------------------------------
RunStates == {"Accepted", "Running", "Waiting", "Cancelling", "Blocked",
              "Succeeded", "Failed", "Cancelled"}
RunErrors == {"none", "unknown", "unavailable", "unresolved", "other"}
RecordStates == {"Absent", "Pending", "Running", "RetryScheduled",
                 "Succeeded", "Unknown", "Failed", "Cancelled"}
(* "cancelled" is the engine's operation.cancelled, "declined" an error of  *)
(* class Cancelled that the operation itself returned, "limit" is           *)
(* resource.limit.                                                          *)
Errors   == {"none", "transient", "cancelled", "declined", "limit", "other",
             "unknown"}
Pcs      == {"idle", "view", "permit", "dispatch", "call", "outcome", "done"}
Outcomes == [kind : {"none", "ok", "invalid", "failed"},
             error : Errors, certainty : Certainties]
Records  == [state : RecordStates, attempt : Nat, attempts : Nat,
             certainty : Certainties, error : Errors]
Runs     == [state : RunStates, cancelRequested : BOOLEAN,
             error : RunErrors, unresolved : SUBSET Nodes]
Execs    == [pc : Pcs, previous : Records, attempt : Nat,
             out : Outcomes, result : Errors]

NoRecord  == [state |-> "Absent", attempt |-> 0, attempts |-> 0,
              certainty |-> "NotApplied", error |-> "none"]
NoOutcome == [kind |-> "none", error |-> "none", certainty |-> "NotApplied"]
Idle      == [pc |-> "idle", previous |-> NoRecord, attempt |-> 0,
              out |-> NoOutcome, result |-> "none"]

IsTerminal(state) == state \in {"Succeeded", "Failed", "Cancelled"}
IsWrite(n) == Effect[n] = "Write"
ErrorClass(error) ==
    CASE error = "transient"               -> "Transient"
      [] error \in {"cancelled", "declined"} -> "Cancelled"
      [] OTHER                             -> "Other"

(* InvocationRecord::is_unresolved *)
IsUnresolved(r) ==
    \/ r.state = "Unknown"
    \/ r.state \notin {"Absent", "Succeeded"} /\ r.certainty # "NotApplied"

(* What a lost or abandoned call is assumed to have done. *)
LostCertainty(n) == IF IsWrite(n) THEN "Unknown" ELSE "NotApplied"

CancelSeen(n) == run.cancelRequested \/ token[n]

OperationsInit ==
    /\ run = [state |-> "Accepted", cancelRequested |-> FALSE,
              error |-> "none", unresolved |-> {}]
    /\ rec = [n \in Nodes |-> NoRecord]
    /\ expired = FALSE
    /\ exec = [n \in Nodes |-> Idle]
    /\ token = [n \in Nodes |-> FALSE]
    /\ late = {}
    /\ issued = [n \in Nodes |-> 0]
    /\ pending = [n \in Nodes |-> {}]
    /\ landed = [n \in Nodes |-> {}]

-----------------------------------------------------------------------------
(* record_failure: decline a report about another attempt, else classify it *)
(* against the record and the budget found at commit time.                  *)
Classified(n, error, certainty, invalid, cancelled, fits) ==
    LET r        == rec[n]
        reported == [class |-> ErrorClass(error), certainty |-> certainty,
                     invalid |-> invalid]
        known    == KnownAfter(Effect[n], r.certainty, reported)
        budget   == [attemptsLeft   |-> r.attempts < MaxAttempts[n],
                     beforeDeadline |-> ~expired,
                     cancelled      |-> cancelled \/ run.cancelRequested]
        decision == ClassifyFailure(Effect[n], Repetition[n],
                        [reported EXCEPT !.certainty = known], budget)
    IN  [r EXCEPT !.state = StateOf(AfterBackoff(decision, known, fits)),
                  !.certainty = known, !.error = error]

RecordFailure(n, attempt, error, certainty, invalid, cancelled) ==
    IF /\ ~IsTerminal(run.state)
       /\ rec[n].attempt = attempt
       /\ rec[n].state \in {"Running", "RetryScheduled"}
    THEN \E fits \in BOOLEAN :
            rec' = [rec EXCEPT ![n] =
                       Classified(n, error, certainty, invalid, cancelled, fits)]
    ELSE UNCHANGED rec

-----------------------------------------------------------------------------
(* The executor of one node. *)

At(n, pc) == exec[n].pc = pc
Return(n) == exec' = [exec EXCEPT ![n] = [Idle EXCEPT !.pc = "view"]]
Finish(n, result) ==
    exec' = [exec EXCEPT ![n] = [Idle EXCEPT !.pc = "done", !.result = result]]

(* The loop finds a settled record: its output or its error is the result. *)
ViewSettled(n) ==
    /\ At(n, "view")
    /\ rec[n].state \in {"Succeeded", "Unknown", "Failed", "Cancelled"}
    /\ Finish(n, IF rec[n].state = "Succeeded" THEN "none"
                 ELSE IF rec[n].state = "Unknown" THEN "unknown"
                 ELSE rec[n].error)
    /\ UNCHANGED <<run, rec, expired, token, late, world>>

(* A scheduled retry is given up: its saved error is classified again, now  *)
(* without budget, and the loop looks at the record once more.              *)
ViewRetryAbandoned(n) ==
    /\ At(n, "view")
    /\ rec[n].state = "RetryScheduled"
    /\ CancelSeen(n) \/ expired
    /\ RecordFailure(n, rec[n].attempt, rec[n].error, rec[n].certainty,
                     FALSE, token[n])
    /\ UNCHANGED <<run, expired, exec, token, late, world>>

(* Nothing was dispatched and nothing will be. *)
ViewRefused(n) ==
    /\ At(n, "view")
    /\ rec[n].state \in {"Absent", "Pending"}
    /\ CancelSeen(n) \/ expired \/ rec[n].attempts >= MaxAttempts[n]
    /\ Finish(n, IF CancelSeen(n) THEN "cancelled" ELSE "other")
    /\ UNCHANGED <<run, rec, expired, token, late, world>>

(* The attempt is authorized on this view, which is used after the permit.  *)
ViewReady(n) ==
    /\ At(n, "view")
    /\ rec[n].state \in {"Absent", "Pending", "RetryScheduled"}
    /\ ~CancelSeen(n) /\ ~expired
    /\ rec[n].attempts < MaxAttempts[n]
    /\ exec' = [exec EXCEPT ![n] =
                   [Idle EXCEPT !.pc = "permit", !.previous = rec[n]]]
    /\ UNCHANGED <<run, rec, expired, token, late, world>>

(* Permits are held from the permit to the outcome, or by observe_late. *)
Holders == {n \in Nodes : exec[n].pc \in {"dispatch", "call"}}
PermitsInUse == Cardinality(Holders) + Cardinality(late)

(* While waiting for capacity only the token and the deadline are watched. *)
PermitRefused(n) ==
    /\ At(n, "permit")
    /\ token[n] \/ expired
    /\ Finish(n, IF token[n] THEN "cancelled" ELSE "other")
    /\ UNCHANGED <<run, rec, expired, token, late, world>>

(* The intent carries the attempts and certainty of the earlier view. *)
IntentRecord(n) ==
    LET p == exec[n].previous
    IN  [state |-> "Running", attempt |-> issued[n] + 1,
         attempts |-> p.attempts + 1, certainty |-> p.certainty,
         error |-> "none"]

(* Mutant: the intent trusts the checks made before the permit. *)
Intent_Unchecked(n) ==
    /\ At(n, "permit")
    /\ PermitsInUse < Permits
    /\ rec' = [rec EXCEPT ![n] = IntentRecord(n)]
    /\ issued' = [issued EXCEPT ![n] = @ + 1]
    /\ exec' = [exec EXCEPT ![n] = [Idle EXCEPT !.pc = "dispatch",
                                             !.attempt = issued[n] + 1]]
    /\ UNCHANGED <<run, expired, token, late, pending, landed>>

Intent(n) ==
    /\ At(n, "permit")
    /\ PermitsInUse < Permits
    /\ ~IsTerminal(run.state) /\ ~CancelSeen(n) /\ ~expired
    /\ rec' = [rec EXCEPT ![n] = IntentRecord(n)]
    /\ issued' = [issued EXCEPT ![n] = @ + 1]
    /\ exec' = [exec EXCEPT ![n] = [Idle EXCEPT !.pc = "dispatch",
                                             !.attempt = issued[n] + 1]]
    /\ UNCHANGED <<run, expired, token, late, pending, landed>>

(* The edit is declined, or the intent exceeds the run's budgets. *)
IntentRefused(n) ==
    /\ At(n, "permit")
    /\ PermitsInUse < Permits
    /\ Finish(n, IF IsTerminal(run.state) THEN "unknown"
                 ELSE IF CancelSeen(n) THEN "cancelled"
                 ELSE IF expired THEN "other" ELSE "limit")
    /\ UNCHANGED <<run, rec, expired, token, late, world>>

(* The call is spawned: from here a write may happen at any time, whatever  *)
(* becomes of the local task.                                               *)
Dispatch(n) ==
    /\ At(n, "dispatch")
    /\ exec' = [exec EXCEPT ![n].pc = "call"]
    /\ pending' = [pending EXCEPT ![n] =
                      IF IsWrite(n) THEN @ \cup {exec[n].attempt} ELSE @]
    /\ UNCHANGED <<run, rec, expired, token, late, issued, landed>>

CallEnds(n, out) ==
    exec' = [exec EXCEPT ![n].pc = "outcome", ![n].out = out]

(* Docs of the operation contract: a definite certainty is the truth.  An   *)
(* answer that claims the effect follows it (a keyed destination recognizes *)
(* the key of an earlier attempt); NotApplied promises it never comes.      *)
Honest(n, a, out) ==
    IF ~IsWrite(n) THEN out.certainty = "NotApplied"
    ELSE CASE out.certainty = "Applied" ->
                /\ a \notin pending[n]
                /\ a \in landed[n] \/ (Repetition[n] = "Keyed" /\ landed[n] # {})
           [] out.certainty = "NotApplied" ->
                out.kind = "failed" /\ a \notin landed[n]
           [] OTHER -> out.kind = "failed"

CallReturns(n) ==
    LET a == exec[n].attempt IN
    /\ At(n, "call")
    /\ ~token[n]
    /\ \E out \in Outcomes :
          /\ \/ out.kind \in {"ok", "invalid"} /\ out.error = "none"
             \/ out.kind = "failed" /\ out.error \in {"transient", "declined", "other"}
          /\ Honest(n, a, out)
          /\ CallEnds(n, out)
          /\ pending' = [pending EXCEPT ![n] =
                            IF out.certainty = "Unknown" THEN @ ELSE @ \ {a}]
    /\ UNCHANGED <<run, rec, expired, token, late, issued, landed>>

(* A cancelled or timed out call is handed, with its permit, to observe_late. *)
CallAbandoned(n) ==
    /\ At(n, "call")
    /\ CallEnds(n, [kind |-> "failed", certainty |-> LostCertainty(n),
                    error |-> IF token[n] THEN "cancelled" ELSE "transient"])
    /\ late' = late \cup {<<n, exec[n].attempt>>}
    /\ UNCHANGED <<run, rec, expired, token, world>>

(* The late response or the end of its grace period; only audit is written. *)
LateEnds(call) ==
    /\ call \in late
    /\ late' = late \ {call}
    /\ UNCHANGED <<run, rec, expired, exec, token, world>>

(* A valid output confirms the node once. *)
Confirmed(n) ==
    [rec[n] EXCEPT !.state = "Succeeded",
                   !.certainty = IF IsWrite(n) THEN "Applied" ELSE "NotApplied"]

Confirm(n) ==
    /\ At(n, "outcome")
    /\ exec[n].out.kind = "ok"
    /\ IF /\ ~IsTerminal(run.state)
          /\ rec[n].attempt = exec[n].attempt /\ rec[n].state = "Running"
       THEN rec' = [rec EXCEPT ![n] = Confirmed(n)] /\ Finish(n, "none")
       ELSE UNCHANGED rec /\ Finish(n, "unknown")
    /\ UNCHANGED <<run, expired, token, late, world>>

(* A failure, an output that breaks its contract, or one that the run's     *)
(* retention budget cannot hold.                                            *)
Fail(n) ==
    LET out == exec[n].out
        invalid == out.kind # "failed"
    IN  /\ At(n, "outcome")
        /\ RecordFailure(n, exec[n].attempt,
                         IF invalid THEN "other" ELSE out.error,
                         out.certainty, invalid, token[n])
        /\ Return(n)
        /\ UNCHANGED <<run, expired, token, late, world>>

ExecutorStep(n) ==
    \/ ViewSettled(n) \/ ViewRetryAbandoned(n) \/ ViewRefused(n) \/ ViewReady(n)
    \/ PermitRefused(n) \/ Intent(n) \/ IntentRefused(n)
    \/ Dispatch(n) \/ CallReturns(n) \/ CallAbandoned(n)
    \/ Confirm(n) \/ Fail(n)

-----------------------------------------------------------------------------
(* The world. *)

(* A keyed destination applies one logical effect at most once. *)
EffectHappens(n, a) ==
    /\ a \in pending[n]
    /\ pending' = [pending EXCEPT ![n] = @ \ {a}]
    /\ landed' = [landed EXCEPT ![n] =
                     IF Repetition[n] = "Keyed" /\ @ # {} THEN @ ELSE @ \cup {a}]
    /\ UNCHANGED <<run, rec, expired, exec, token, late, issued>>

EffectLost(n, a) ==
    /\ a \in pending[n]
    /\ pending' = [pending EXCEPT ![n] = @ \ {a}]
    /\ UNCHANGED <<run, rec, expired, exec, token, late, issued, landed>>

DeadlinePasses ==
    /\ ~expired
    /\ expired' = TRUE
    /\ UNCHANGED <<run, rec, exec, token, late, world>>

WorldStep ==
    \/ \E n \in Nodes : \E a \in pending[n] : EffectHappens(n, a) \/ EffectLost(n, a)
    \/ DeadlinePasses
=============================================================================
