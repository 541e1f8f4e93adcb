------------------------------ MODULE Effects ------------------------------
(***************************************************************************)
(* The pure effect decisions of the engine: what an attempt that did not   *)
(* produce a valid, confirmed output authorizes next.  They are shared by  *)
(* dispatch failure, timeout, cancellation and crash recovery.             *)
(*                                                                         *)
(* Error classes are grouped by what the decisions tell apart: "Transient" *)
(* stands for ErrorClass::Transient and Resource, "Other" for Rejected,    *)
(* Internal and every other class that is never retried.                   *)
(***************************************************************************)
EXTENDS Naturals

EffectKinds  == {"Pure", "Read", "Write"}
Repetitions  == {"Safe", "Keyed", "Unsafe"}
Certainties  == {"NotApplied", "Unknown", "Applied"}
ErrorClasses == {"Transient", "Cancelled", "Other"}
Decisions    == {"Fail", "Cancel", "Retry", "Block"}

(***************************************************************************)
(* Certainty accumulates over the attempts of one logical invocation.      *)
(***************************************************************************)
Merged_Latest(previous, next) == next   \* Mutant: the last attempt decides.

Merged(previous, next) ==
    IF "Applied" \in {previous, next} THEN "Applied"
    ELSE IF "Unknown" \in {previous, next} THEN "Unknown"
    ELSE "NotApplied"

(***************************************************************************)
(* What one failed attempt leaves known.  failure is [class, certainty,    *)
(* invalid]; invalid says that the attempt answered but its output broke   *)
(* the output contract or the retention budget.                            *)
(***************************************************************************)
KnownAfter(effect, previous, failure) ==
    IF effect # "Write" THEN "NotApplied"
    ELSE IF failure.invalid THEN "Applied"
    ELSE Merged(previous, failure.certainty)

(***************************************************************************)
(* budget is [attemptsLeft, beforeDeadline, cancelled].                    *)
(***************************************************************************)
(* Mutant: whether the write may be repeated is not asked. *)
ClassifyFailure_Repeats(effect, repetition, failure, budget) ==
    IF failure.certainty = "Applied" \/ failure.invalid THEN "Block"
    ELSE IF budget.cancelled THEN "Cancel"
    ELSE IF failure.class = "Transient" /\ budget.attemptsLeft
            /\ budget.beforeDeadline THEN "Retry"
    ELSE IF failure.certainty = "NotApplied" THEN "Fail" ELSE "Block"
ClassifyFailure(effect, repetition, failure, budget) ==
    LET write      == effect = "Write"
        unresolved == write /\ (failure.certainty # "NotApplied" \/ failure.invalid)
        retryable  == /\ failure.class = "Transient"
                      /\ ~failure.invalid
                      /\ unresolved => repetition \in {"Safe", "Keyed"}
                      /\ budget.attemptsLeft
                      /\ budget.beforeDeadline
    IN  IF write /\ (failure.certainty = "Applied" \/ failure.invalid) THEN "Block"
        ELSE IF budget.cancelled \/ failure.class = "Cancelled"
             THEN IF unresolved THEN "Block" ELSE "Cancel"
        ELSE IF retryable THEN "Retry"
        ELSE IF unresolved THEN "Block"
        ELSE "Fail"

(***************************************************************************)
(* record_failure asks the backoff strategy only after the classification; *)
(* fits says that the chosen delay ends before the run's deadline.         *)
(***************************************************************************)
AfterBackoff(decision, certainty, fits) ==
    IF decision = "Retry" /\ ~fits
    THEN IF certainty = "NotApplied" THEN "Fail" ELSE "Block"
    ELSE decision

(* Mutant: a run state where a record state is due. *)
StateOf_RunState(decision) ==
    IF decision = "Retry" THEN "RetryScheduled" ELSE "Blocked"

(* The record state each decision is persisted as. *)
StateOf(decision) ==
    CASE decision = "Retry"  -> "RetryScheduled"
      [] decision = "Block"  -> "Unknown"
      [] decision = "Fail"   -> "Failed"
      [] decision = "Cancel" -> "Cancelled"
=============================================================================
