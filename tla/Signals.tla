------------------------------ MODULE Signals -------------------------------
(***************************************************************************)
(* Delivery of signals by senders that repeat themselves: a callback may be *)
(* sent twice, by two senders, to the wrong reservation, before or after    *)
(* the reservation was settled, and its answer may be lost.  Waits has the  *)
(* life of one reservation; here are the reservations of one run (branches  *)
(* of a group), every way they are settled in, and the loop of the signal   *)
(* command over the run's compare-and-set.  A crash of the process is the   *)
(* drop of every call.                                                      *)
(***************************************************************************)
EXTENDS Naturals, FiniteSets

CONSTANTS
    Reservations, Senders,
    Messages,           \* [id, correlation]
    Correlation,        \* of every reservation
    MaxRevision         \* bound on the commits of the run

VARIABLES
    run,        \* [state, revision, cancel, waits]; a wait is [state, delivery,
                \* error], the error being that of its activation
    call,       \* per sender: the signal command it executes
    receipts,   \* what was answered: [wait, command, actor, at, duplicate]
    overdue     \* reservations whose deadline has passed

vars == <<run, call, receipts, overdue>>
NoDelivery == [actor |-> "nobody"]
Idle == [pc |-> "idle"]

Init ==
    /\ run = [state |-> "Waiting", revision |-> 1, cancel |-> FALSE,
              waits |-> [w \in Reservations |->
                          [state |-> "Open", delivery |-> NoDelivery, error |-> "none"]]]
    /\ call = [s \in Senders |-> Idle]
    /\ receipts = {} /\ overdue = {}

Room == run.revision < MaxRevision
Terminal == run.state \in {"Succeeded", "Failed", "Cancelled"}
Commit(r) == run' = [r EXCEPT !.revision = run.revision + 1]

(* Senders know nothing of the run: any message, any reservation, any time. *)
Send(s) ==
    /\ call[s] = Idle
    /\ \E w \in Reservations, m \in Messages :
          call' = [call EXCEPT ![s] = [pc |-> "read", wait |-> w, message |-> m]]
    /\ UNCHANGED <<run, receipts, overdue>>

(* The answer of the call; the sender may never see it. *)
Return(s) == call' = [call EXCEPT ![s] = Idle]
Receipt(s, at, duplicate) ==
    receipts' = receipts \cup {[wait |-> call[s].wait, message |-> call[s].message,
                                actor |-> s, at |-> at, duplicate |-> duplicate]}

SameCommand(s, d) == d.message = call[s].message /\ d.actor = s

(* Mutant: the state of the reservation is not looked at. *)
Admits_AnyState(w) == run.waits[w].state # "Expired" /\ ~Terminal /\ w \notin overdue

Admits(w) == /\ run.waits[w].state = "Open" /\ w \notin overdue
             /\ ~Terminal /\ ~run.cancel

Correlates(s) == call[s].message.correlation = Correlation[call[s].wait]

(* A call keeps the copy it read, known by its revision: it is the run as it
   is if it can be committed at all. *)
Read(s) ==
    /\ call[s].pc = "read"
    /\ LET w == call[s].wait
           d == run.waits[w].delivery
       IN  IF d # NoDelivery
           THEN /\ Return(s)
                /\ IF SameCommand(s, d) THEN Receipt(s, d.at, TRUE) ELSE UNCHANGED receipts
           ELSE /\ UNCHANGED receipts
                /\ IF Correlates(s) /\ Admits(w)
                   THEN /\ Room
                        /\ call' = [call EXCEPT ![s] =
                             [pc |-> "commit", wait |-> w, message |-> @.message,
                              seen |-> run.revision]]
                   ELSE Return(s)
    /\ UNCHANGED <<run, overdue>>

(* A delivery wakes a waiting run, and leaves a blocked one blocked. *)
Delivered(r, s) ==
    [r EXCEPT !.waits[call[s].wait].delivery =
                 [actor |-> s, message |-> call[s].message, at |-> r.revision],
              !.state = IF @ = "Waiting" THEN "Running" ELSE @]

Deliver(s) ==
    /\ call[s].pc = "commit"
    /\ IF run.revision = call[s].seen
       THEN /\ Commit(Delivered(run, s)) /\ Return(s)
            /\ Receipt(s, run.revision, FALSE)
       ELSE /\ call' = [call EXCEPT ![s] =
                          [pc |-> "read", wait |-> @.wait, message |-> @.message]]
            /\ UNCHANGED <<run, receipts>>
    /\ UNCHANGED overdue

(* The caller is dropped between two awaits: a commit may have been made.   *)
Drop(s) ==
    /\ call[s] # Idle
    /\ Return(s)
    /\ \/ UNCHANGED run
       \/ /\ call[s].pc = "commit" /\ run.revision = call[s].seen
          /\ Commit(Delivered(run, s))
    /\ UNCHANGED <<receipts, overdue>>

-----------------------------------------------------------------------------
Passes(w) == /\ overdue' = overdue \cup {w} /\ w \notin overdue
             /\ UNCHANGED <<run, call, receipts>>

(* What the coordinator and other commands commit to the same run: the      *)
(* branches that wait settle their reservation.                             *)
Settled(w, state, error) ==
    /\ run.state = "Running" /\ Room /\ run.waits[w].state = "Open"
    /\ Commit([run EXCEPT !.waits[w].state = state, !.waits[w].error = error])
    /\ UNCHANGED <<call, receipts, overdue>>

Consume(w) ==
    /\ run.waits[w].delivery # NoDelivery
    /\ Settled(w, "Consumed", "none")

(* Mutant: an overdue reservation expires though it took a signal. *)
Expire_Delivered(w) ==
    /\ w \in overdue
    /\ Settled(w, "Expired", "wait.expired")

Expire(w) ==
    /\ w \in overdue /\ run.waits[w].delivery = NoDelivery
    /\ Settled(w, "Expired", "wait.expired")

(* The branch fails, and closes a reservation that may have its signal: the
   run is out of time, what the signal makes exceeds a limit, the start
   operation failed, or the failure of a sibling stopped the branch. *)
FailBranch(w) == Settled(w, "Closed", "failed")

-----------------------------------------------------------------------------
(* What they commit to the run as a whole. *)
Move(r) == Room /\ Commit(r) /\ UNCHANGED <<call, receipts, overdue>>

(* The branches all wait; a signal may have been accepted since they looked. *)
Suspend ==
    /\ run.state = "Running"
    /\ \E w \in Reservations : run.waits[w].state = "Open"
    /\ Move([run EXCEPT !.state = "Waiting"])

Resume ==
    /\ run.state = "Waiting"
    /\ \E w \in Reservations : /\ run.waits[w].state = "Open"
                              /\ \/ run.waits[w].delivery # NoDelivery
                                 \/ w \in overdue
    /\ Move([run EXCEPT !.state = "Running"])

(* close_waits *)
Closed(r) == [r EXCEPT !.waits = [w \in Reservations |->
                IF @[w].state = "Open" THEN [@[w] EXCEPT !.state = "Closed"] ELSE @[w]]]

Cancel ==
    /\ ~Terminal
    /\ Move(Closed([run EXCEPT !.cancel = TRUE, !.state = "Cancelling"]))

Broken == IF run.cancel THEN "Cancelled" ELSE "Failed"

(* The walk returns: an effect elsewhere is in doubt, something failed, or   *)
(* every branch has its value or an error that was caught.                  *)
Block ==
    /\ run.state \in {"Running", "Cancelling"}
    /\ Move([run EXCEPT !.state = "Blocked"])

Finish ==
    /\ run.state \in {"Running", "Cancelling"}
    /\ \/ Move(Closed([run EXCEPT !.state = Broken]))
       \/ /\ ~run.cancel
          /\ \A w \in Reservations : run.waits[w].state # "Open"
          /\ Move(Closed([run EXCEPT !.state = "Succeeded"]))

(* reconcile: the doubt is settled, or no longer followed. *)
Resolve ==
    /\ run.state = "Blocked"
    /\ Move([run EXCEPT !.state = IF run.cancel THEN "Cancelling" ELSE "Running"])

StopTracking ==
    /\ run.state = "Blocked"
    /\ Move(Closed([run EXCEPT !.state = Broken]))

Next ==
    \/ \E s \in Senders : Send(s) \/ Read(s) \/ Deliver(s) \/ Drop(s)
    \/ \E w \in Reservations : Passes(w) \/ Consume(w) \/ Expire(w) \/ FailBranch(w)
    \/ Suspend \/ Resume \/ Cancel \/ Block \/ Finish \/ Resolve \/ StopTracking

Spec == Init /\ [][Next]_vars

-----------------------------------------------------------------------------
(* A reservation accepts one signal, once, and keeps it: whatever is sent   *)
(* again, by whom, and however commits race (signals.rs:68, 136).           *)
AcceptedOnce ==
    [][\A w \in Reservations :
          LET d == run.waits[w].delivery
          IN  /\ d # NoDelivery => run'.waits[w].delivery = d
              /\ run'.waits[w].delivery # d =>
                    /\ run.waits[w].state = "Open" /\ ~run.cancel /\ ~Terminal]_vars

(* Every receipt, first or repeated, is about the signal the reservation    *)
(* holds, and a first one is given once (signals.rs:68-78).                 *)
ReceiptsAreTrue ==
    /\ \A r \in receipts :
          LET d == run.waits[r.wait].delivery
          IN  d # NoDelivery /\ d.actor = r.actor /\ d.message = r.message /\ d.at = r.at
    /\ \A r, q \in receipts : ~r.duplicate /\ ~q.duplicate /\ r.wait = q.wait => r = q

(* A signal reaches only a reservation with its correlation. *)
CorrelationHolds ==
    \A w \in Reservations : run.waits[w].delivery # NoDelivery =>
        run.waits[w].delivery.message.correlation = Correlation[w]

(* No acknowledged signal is lost to the reservation's own deadline.  It is *)
(* consumed, unless the run was cancelled or failed, or the branch that     *)
(* waits failed by an error of its own, which its record names; and a run   *)
(* that ends leaves no reservation open that could take another one         *)
(* (waits.rs:46, 223, 244; coordinator.rs:141, reconcile.rs:276).           *)
AcknowledgedIsAccounted ==
    \A w \in Reservations :
        LET x == run.waits[w] IN
        /\ x.delivery # NoDelivery => x.state # "Expired" /\ x.error # "wait.expired"
        /\ x.state = "Closed" => run.cancel \/ run.state = "Failed" \/ x.error # "none"
        /\ Terminal => x.state # "Open"

(* The receipts of the signal command are true, whatever was sent twice, to  *)
(* the wrong reservation or too late, and an acknowledged signal is         *)
(* accounted for however the run goes on (signals.rs:68, waits.rs:244).     *)
SignalsAreKept == ReceiptsAreTrue /\ CorrelationHolds /\ AcknowledgedIsAccounted
=============================================================================
