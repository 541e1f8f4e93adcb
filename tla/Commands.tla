------------------------------ MODULE Commands ------------------------------
(***************************************************************************)
(* The two commands that race for the revision of a run: signal, with what *)
(* it promises in Signals, and reconcile, an instance of Reconcile about a *)
(* run of its own.                                                         *)
(***************************************************************************)
EXTENDS Signals

CONSTANTS Actors, CommandIds, Resolutions, AuditLimit, MaxAttempts, MaxLate, MaxCrashes

VARIABLES
    order,      \* the run that is reconciled, Reconcile's run
    rec, client, admission, abandoned, late, lates, crashes

R == INSTANCE Reconcile WITH run <- order

signal    == vars
reconcile == <<order, rec, client, admission, abandoned, late, lates, crashes>>

-----------------------------------------------------------------------------
(* A command is applied once, and a receipt that was answered is audited    *)
(* for good under the command and actor it was answered to                  *)
(* (reconcile.rs:9, reconcile.rs:309).                                      *)
AppliedOnce == R!AppliedOnce /\ R!ReceiptIsAudited

(* An effect is resolved by a command about the attempt that was observed,  *)
(* repeating the command returns its receipt, and neither a repetition nor  *)
(* a late response changes what was confirmed (reconcile.rs:139, 153, 332). *)
ResolvesWhatWasObserved ==
    R!ResolvesWhatWasObserved /\ R!RepeatReturnsReceipt /\ R!ConfirmedStays
=============================================================================
