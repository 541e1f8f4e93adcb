------------------------------- MODULE Waits -------------------------------
(***************************************************************************)
(* One run whose body is a try around a wait.  The wait is a timer, a      *)
(* signal, or a signal whose reservation is followed by a start operation  *)
(* (node 1) that sets the external work off; any catch handler is one      *)
(* operation (node 2).  Everything that decides the reservation is here:   *)
(* the start operation, delivery, the wait's own deadline, cancellation,   *)
(* suspension and wake-up, crashes and boots, resolution.                  *)
(***************************************************************************)
EXTENDS Coordinator

Kinds == {"timer", "signal", "started"}    \* what is waited for
ASSUME WaitsAssumption == N = 2

VARIABLES
    wait,     \* persisted: the wait record, the reservation
    act,      \* persisted: the invocation record of the wait node
    frame,    \* persisted: the invocation record of the try node, its handler
    overdue   \* the wait's own deadline has passed

waitVars == <<wait, act, frame, overdue>>
waitsVars == <<opVars, headVars, co, waitVars>>

Start   == 1
Handler == 2
Scope   == Handler    \* the body and its handlers watch the same token

WaitErrors  == Errors \cup {"expired"}    \* wait.expired
Activations == {"Absent", "Pending", "Running", "Succeeded", "Failed", "Cancelled"}
WaitStates  == {"None", "Open", "Consumed", "Expired", "Closed"}

NoWait(kind) ==
    [kind |-> kind, state |-> "None", confirmed |-> FALSE, delivered |-> FALSE]

WaitsInit ==
    /\ OperationsInit /\ HeadInit /\ co = NoCo
    /\ wait \in {NoWait(kind) : kind \in Kinds}
    /\ act = [state |-> "Absent", error |-> "none"]
    /\ frame = [state |-> "Absent", error |-> "none", handler |-> FALSE]
    /\ overdue = FALSE

-----------------------------------------------------------------------------
(* The wait's deadline is at most the run's. *)
Overdue == overdue \/ expired

ExpiryDue == wait.state = "Open" /\ ~wait.delivered /\ Overdue /\ wait.kind # "timer"

Ready == /\ wait.state = "Open"
         /\ IF wait.kind = "timer" THEN Overdue ELSE wait.delivered /\ wait.confirmed

(* Mutant: a reservation is left open. *)
Closed_Nothing(w) == w

Closed(w) == IF w.state = "Open" THEN [w EXCEPT !.state = "Closed"] ELSE w
Expire    == wait' = [wait EXCEPT !.state = "Expired"]

(* next_wakeup_at_ms: an accepted signal is due once its start is confirmed. *)
(* Mutant: only the run's deadline wakes a waiting run. *)
Due_RunDeadline == expired

Due == \/ expired
       \/ /\ wait.state = "Open"
          /\ IF wait.delivered THEN wait.confirmed ELSE Overdue

-----------------------------------------------------------------------------
Goto(pc)         == co' = [co EXCEPT !.pc = pc]
Throw(pc, error) == co' = [co EXCEPT !.pc = pc, !.error = error]
ScopeCancelled   == CancelSeen(Scope)

(* planner::node on the record of a node, and the mapping of its input. *)
Admitted(r) == /\ r.state \notin {"Succeeded", "Unknown", "Failed", "Cancelled"}
               /\ ~ScopeCancelled /\ ~expired
Refusals(r) ==
    IF r.state = "Succeeded" THEN {}
    ELSE IF r.state = "Unknown" THEN {"unknown"}
    ELSE IF r.state \in {"Failed", "Cancelled"} THEN {r.error}
    ELSE IF ScopeCancelled THEN {"cancelled"}
    ELSE IF expired \/ r.state = "Absent" THEN {"other"}
    ELSE {}

(* How a wait and a control node record the error they end with. *)
Settle(r, error) ==
    [r EXCEPT !.error = error,
              !.state = IF error = "unknown" THEN "Pending"
                        ELSE IF error = "cancelled" THEN "Cancelled" ELSE "Failed"]

-----------------------------------------------------------------------------
(* The try node: execute_control around run_control. *)
TryEnter ==
    /\ CoAt("try")
    /\ Admitted(frame)
    /\ frame' = IF frame.state = "Absent" THEN [frame EXCEPT !.state = "Running"]
                ELSE frame
    /\ Goto(IF frame.handler THEN "handler" ELSE "await")
    /\ UNCHANGED <<opVars, headVars, wait, act, overdue>>

TryConfirmed ==
    /\ CoAt("try")
    /\ frame.state = "Succeeded"
    /\ co' = [co EXCEPT !.pc = "output", !.node = Scope]
    /\ UNCHANGED <<opVars, headVars, waitVars>>

TryRefused ==
    /\ CoAt("try")
    /\ \E error \in Refusals(frame) : Raise(error)
    /\ UNCHANGED <<opVars, headVars, waitVars>>

(* Uncertain effects, cancellation and some classes of errors bypass the    *)
(* handlers; "transient" and "other" stand for several classes.             *)
Catchable(error) == error \notin {"unknown", "cancelled", "declined", "limit"}
Bypasses(error)  == error # "expired"

TryCatch ==
    /\ CoAt("catch")
    /\ \/ /\ Catchable(co.error)
          /\ IF ScopeCancelled THEN Throw("fail", "cancelled")
             ELSE IF expired THEN Throw("fail", "other")
             ELSE Goto("select")
       \/ Bypasses(co.error) /\ Goto("fail")
    /\ UNCHANGED <<opVars, headVars, waitVars>>

(* The handler and its error are saved before it runs. *)
SelectHandler ==
    /\ CoAt("select")
    /\ \/ frame' = [frame EXCEPT !.handler = TRUE] /\ Goto("handler")
       \/ UNCHANGED frame /\ Throw("fail", "limit")
    /\ UNCHANGED <<opVars, headVars, wait, act, overdue>>

TrySave ==
    /\ CoAt("save")
    /\ \/ /\ frame' = [frame EXCEPT !.state = "Succeeded", !.error = "none"]
          /\ co' = [co EXCEPT !.pc = "output", !.node = Scope]
       \/ UNCHANGED frame /\ Throw("fail", "limit")
    /\ UNCHANGED <<opVars, headVars, wait, act, overdue>>

TryFail ==
    /\ CoAt("fail")
    /\ frame' = Settle(frame, co.error)
    /\ Goto("error")
    /\ UNCHANGED <<opVars, headVars, wait, act, overdue>>

TryStep == \/ TryEnter \/ TryConfirmed \/ TryRefused \/ TryCatch \/ SelectHandler
           \/ TrySave \/ TryFail

-----------------------------------------------------------------------------
(* The wait node of the body, and the mapping of the body's output. *)
BodyEnds == Goto("save") \/ Throw("catch", "other")

AwaitEnter ==
    /\ CoAt("await")
    /\ Admitted(act)
    /\ Goto("reserve")
    /\ UNCHANGED <<opVars, headVars, waitVars>>

AwaitConfirmed ==
    /\ CoAt("await")
    /\ act.state = "Succeeded"
    /\ BodyEnds
    /\ UNCHANGED <<opVars, headVars, waitVars>>

AwaitRefused ==
    /\ CoAt("await")
    /\ \E error \in Refusals(act) : Throw("catch", error)
    /\ UNCHANGED <<opVars, headVars, waitVars>>

(* One commit creates the reservation and the activation, or finds them.    *)
AfterReserve(w) ==
    Goto(IF wait.kind = "started" /\ ~w.confirmed /\ w.state # "Closed"
         THEN "start" ELSE "consume")

Reserve ==
    /\ CoAt("reserve")
    /\ wait.state = "None"
    /\ ~ScopeCancelled /\ ~expired
    /\ wait' = [wait EXCEPT !.state = "Open",
                              !.confirmed = wait.kind # "started"]
    /\ act' = [act EXCEPT !.state = "Pending"]
    /\ AfterReserve(wait')
    /\ UNCHANGED <<opVars, headVars, frame, overdue>>

Reserved ==
    /\ CoAt("reserve")
    /\ wait.state # "None"
    /\ AfterReserve(wait)
    /\ UNCHANGED <<opVars, headVars, waitVars>>

ReserveRefused ==
    /\ CoAt("reserve")
    /\ wait.state = "None"
    /\ Throw("settle", IF ScopeCancelled THEN "cancelled"
                       ELSE IF expired THEN "other" ELSE "limit")
    /\ UNCHANGED <<opVars, headVars, waitVars>>

-----------------------------------------------------------------------------
(* The start operation runs under a token of its own, which the wait's      *)
(* deadline cancels.                                                        *)
StartRefused ==    \* its input mapping or schema fails
    /\ CoAt("start")
    /\ rec[Start].state = "Absent"
    /\ Throw("settle", "other")
    /\ UNCHANGED <<opVars, headVars, waitVars>>

StartEnter ==
    /\ CoAt("start")
    /\ IF ExpiryDue THEN Expire ELSE UNCHANGED wait
    /\ token' = [token EXCEPT ![Start] = token[Scope] \/ wait'.state = "Expired"]
    /\ exec' = [exec EXCEPT ![Start] = [Idle EXCEPT !.pc = "view"]]
    /\ Goto("starting")
    /\ UNCHANGED <<run, rec, expired, late, world, headVars, act, frame, overdue>>

(* Mutant: a signal that arrived before its start was confirmed is expired. *)
ExpireStart_Accepted ==
    /\ CoAt("starting")
    /\ wait.state = "Open" /\ Overdue
    /\ Expire
    /\ token' = [token EXCEPT ![Start] = TRUE]
    /\ UNCHANGED <<run, rec, expired, exec, late, world, headVars, co,
                   act, frame, overdue>>

ExpireStart ==
    /\ CoAt("starting")
    /\ ExpiryDue
    /\ Expire
    /\ token' = [token EXCEPT ![Start] = TRUE]
    /\ UNCHANGED <<run, rec, expired, exec, late, world, headVars, co,
                   act, frame, overdue>>

StartDone ==
    LET error    == exec[Start].result
        timedOut == wait.state = "Expired"
    IN  /\ CoAt("starting")
        /\ exec[Start].pc = "done"
        /\ exec' = [exec EXCEPT ![Start] = Idle]
        /\ IF error = "none" /\ ~timedOut THEN Goto("confirm")
           ELSE Throw("settle", IF timedOut /\ error # "unknown"
                                THEN "expired" ELSE error)
        /\ UNCHANGED <<run, rec, expired, token, late, world, headVars, waitVars>>

(* Mutant: a signal that was faster than the confirmation prevents it. *)
ConfirmStart_NotAccepted ==
    /\ CoAt("confirm")
    /\ wait' = IF wait.state = "Open" /\ ~wait.delivered
               THEN [wait EXCEPT !.confirmed = TRUE] ELSE wait
    /\ Goto("consume")
    /\ UNCHANGED <<opVars, headVars, act, frame, overdue>>

ConfirmStart ==
    /\ CoAt("confirm")
    /\ wait' = IF wait.state = "Open" THEN [wait EXCEPT !.confirmed = TRUE] ELSE wait
    /\ Goto("consume")
    /\ UNCHANGED <<opVars, headVars, act, frame, overdue>>

-----------------------------------------------------------------------------
(* One commit takes the signal or the timer, expires the reservation, or    *)
(* leaves it for a later wake-up.                                           *)
ConsumeStopped ==
    /\ CoAt("consume")
    /\ \/ ScopeCancelled /\ Throw("settle", "cancelled")
       \/ ~ScopeCancelled /\ expired /\ Throw("settle", "other")
       \/ /\ ~ScopeCancelled /\ ~expired
          /\ wait.state \in {"Expired", "Closed"}
          /\ Throw("settle", IF wait.state = "Expired" THEN "expired" ELSE "cancelled")
    /\ UNCHANGED <<opVars, headVars, waitVars>>

Consume ==
    /\ CoAt("consume")
    /\ ~ScopeCancelled /\ ~expired /\ Ready
    /\ \/ /\ wait' = [wait EXCEPT !.state = "Consumed"]
          /\ act' = [act EXCEPT !.state = "Succeeded", !.error = "none"]
          /\ BodyEnds
       \/ UNCHANGED <<wait, act>> /\ Throw("settle", "limit")
    /\ UNCHANGED <<opVars, headVars, frame, overdue>>

ConsumeExpired ==
    /\ CoAt("consume")
    /\ ~ScopeCancelled /\ ~expired /\ ExpiryDue
    /\ Expire
    /\ Throw("settle", "expired")
    /\ UNCHANGED <<opVars, headVars, act, frame, overdue>>

ConsumeNothing ==
    /\ CoAt("consume")
    /\ ~ScopeCancelled /\ ~expired
    /\ wait.state = "Open" /\ ~Ready /\ ~ExpiryDue
    /\ Goto("suspend")
    /\ UNCHANGED <<opVars, headVars, waitVars>>

SettleWait ==
    /\ CoAt("settle")
    /\ IF wait.state \in {"None", "Consumed"} THEN UNCHANGED <<wait, act>>
       ELSE /\ wait' = IF co.error = "unknown" THEN wait ELSE Closed(wait)
            /\ act' = Settle(act, co.error)
    /\ Goto("catch")
    /\ UNCHANGED <<opVars, headVars, frame, overdue>>

Suspend ==
    /\ CoAt("suspend")
    /\ run' = IF run.cancelRequested THEN run ELSE [run EXCEPT !.state = "Waiting"]
    /\ co' = NoCo
    /\ UNCHANGED <<rec, expired, exec, token, late, world, headVars, waitVars>>

WaitStep ==
    \/ AwaitEnter \/ AwaitConfirmed \/ AwaitRefused
    \/ Reserve \/ Reserved \/ ReserveRefused
    \/ StartRefused \/ StartEnter \/ ExpireStart \/ StartDone \/ ConfirmStart
    \/ ConsumeStopped \/ Consume \/ ConsumeExpired \/ ConsumeNothing
    \/ SettleWait \/ Suspend

-----------------------------------------------------------------------------
(* The handler's body is one operation and the mapping of its output. *)
HandlerBody ==
    LET r == rec[Handler] IN
    /\ CoAt("handler")
    /\ \/ r.state = "Succeeded" /\ (Goto("save") \/ Throw("fail", "other"))
       \/ \E error \in Refusals(r) : Throw("fail", error)
    /\ UNCHANGED <<opVars, headVars, waitVars>>

HandlerEnter ==
    /\ CoAt("handler")
    /\ Admitted(rec[Handler])
    /\ exec' = [exec EXCEPT ![Handler] = [Idle EXCEPT !.pc = "view"]]
    /\ Goto("handling")
    /\ UNCHANGED <<run, rec, expired, token, late, world, headVars, waitVars>>

HandlerDone ==
    /\ CoAt("handling")
    /\ exec[Handler].pc = "done"
    /\ exec' = [exec EXCEPT ![Handler] = Idle]
    /\ IF exec[Handler].result = "none" THEN Goto("save") \/ Throw("fail", "other")
       ELSE Throw("fail", exec[Handler].result)
    /\ UNCHANGED <<run, rec, expired, token, late, world, headVars, waitVars>>

HandlerStep == HandlerBody \/ HandlerEnter \/ HandlerDone

-----------------------------------------------------------------------------
(* signal: at most one delivery, accepted before the deadline, of a run     *)
(* that is not being cancelled.  A blocked run stays blocked.               *)
Signal ==
    /\ phase \in {"ready", "stopping"}
    /\ wait.kind # "timer"
    /\ wait.state = "Open" /\ ~wait.delivered
    /\ Unfinished /\ ~run.cancelRequested
    /\ ~Overdue
    /\ wait' = [wait EXCEPT !.delivered = TRUE]
    /\ run' = IF run.state = "Waiting" THEN [run EXCEPT !.state = "Running"] ELSE run
    /\ UNCHANGED <<rec, expired, exec, token, late, world, headVars, co,
                   act, frame, overdue>>

WaitOverdue ==
    /\ wait.state # "None" /\ ~overdue
    /\ overdue' = TRUE
    /\ UNCHANGED <<opVars, headVars, co, wait, act, frame>>

-----------------------------------------------------------------------------
(* A step that ends the run, or a cancellation, closes the reservation.     *)
Closes == /\ wait' = IF IsTerminal(run'.state) \/ run'.state = "Cancelling"
                     THEN Closed(wait) ELSE wait
          /\ UNCHANGED <<act, frame, overdue>>

WaitsStep ==
    \/ Begin("try") /\ UNCHANGED waitVars
    \/ TryStep \/ WaitStep \/ HandlerStep
    \/ CheckOutput /\ UNCHANGED waitVars
    \/ (FinalCommit \/ FinishError) /\ Closes

Supervise == (Spawn(Due) \/ SpawnUnavailable(Due)) /\ UNCHANGED waitVars

(* What leaves the coordinator and the wait alone. *)
Elsewhere ==
    \/ \E n \in Nodes : ExecutorStep(n) /\ UNCHANGED headVars
    \/ (\E call \in late : LateEnds(call)) /\ UNCHANGED headVars
    \/ WorldStep /\ UNCHANGED headVars
    \/ CancelToken \/ ForceShutdown \/ Boot \/ BootStep

WaitsNext ==
    \/ Supervise \/ WaitsStep \/ Signal \/ WaitOverdue
    \/ Elsewhere /\ UNCHANGED <<co, waitVars>>
    \/ CommandStep /\ Closes /\ UNCHANGED co
    \/ Crash /\ co' = NoCo /\ UNCHANGED waitVars

WaitsSpec == WaitsInit /\ [][WaitsNext]_waitsVars

(* As in Chain; nothing makes a signal arrive or a deadline pass. *)
WaitsFairness ==
    /\ WF_waitsVars(Supervise)
    /\ WF_waitsVars(WaitsStep)
    /\ \A n \in Nodes :
          WF_waitsVars(ExecutorStep(n) /\ UNCHANGED <<headVars, co, waitVars>>)
    /\ WF_waitsVars((\E call \in late : LateEnds(call)) /\ UNCHANGED <<headVars, co, waitVars>>)
    /\ WF_waitsVars(BootStep /\ UNCHANGED <<co, waitVars>>)

WaitsFairSpec == WaitsSpec /\ WaitsFairness

-----------------------------------------------------------------------------
(* Properties. *)

WaitsPcs == {"none", "begin", "try", "await", "reserve", "start", "starting",
          "confirm", "consume", "settle", "suspend", "catch", "select",
          "handler", "handling", "save", "fail", "output", "commit", "error"}

WaitsTypeOK ==
    /\ run \in Runs
    /\ rec \in [Nodes -> Records]
    /\ exec \in [Nodes -> Execs]
    /\ token \in [Nodes -> BOOLEAN]
    /\ wait \in [kind : Kinds, state : WaitStates,
                confirmed : BOOLEAN, delivered : BOOLEAN]
    /\ act \in [state : Activations, error : WaitErrors]
    /\ frame \in [state : Activations, error : WaitErrors, handler : BOOLEAN]
    /\ co \in [pc : WaitsPcs, node : Nodes, error : WaitErrors]

(* Every change of the reservation is one that the stores accept            *)
(* (validate_waits); a commit they refused would fail the engine.           *)
WaitsAccepted ==
    [][/\ wait.state # "None" => wait'.state # "None"
       /\ IsTerminal(run'.state) => wait'.state # "Open"
       /\ act'.state = "Succeeded" <=> wait'.state = "Consumed"
       /\ wait.state \notin {"None", "Open"} => wait' = wait
       /\ wait.confirmed => wait'.confirmed
       /\ wait.delivered => wait'.delivered
       /\ wait.state = "None" /\ wait'.state # "None" =>
              wait'.state = "Open" /\ ~wait'.delivered
       /\ wait.kind = "timer" => wait'.state # "Expired" /\ ~wait'.delivered
       /\ wait'.delivered => wait'.state # "Expired"
       /\ wait.kind = "started" /\ wait'.confirmed => rec'[Start].state = "Succeeded"
       /\ wait.kind # "timer" /\ wait'.state = "Consumed" =>
              wait'.delivered /\ wait'.confirmed
      ]_waitsVars

(* A run sleeps only over an open reservation that something can still end, *)
(* and never over a signal that was accepted without confirmed start: the   *)
(* supervisor would not pick it up before the run's deadline.               *)
WaitingIsWakeable ==
    run.state = "Waiting" =>
        /\ wait.state = "Open"
        /\ wait.delivered => wait.confirmed

(* A handler runs only when the reservation can take no signal any more:    *)
(* no signal is acknowledged that the handler's outcome then ignores.       *)
HandlerAfterClose == frame.handler => wait.state # "Open"

(* Success has a reason: the wait was consumed, or its handler succeeded,   *)
(* and no effect of the start or of the handler is left in doubt.           *)
OutcomeIsEarned ==
    run.state = "Succeeded" =>
        /\ frame.state = "Succeeded"
        /\ IF frame.handler THEN rec[Handler].state = "Succeeded"
           ELSE act.state = "Succeeded"
        /\ \A n \in Nodes : ~IsUnresolved(rec[n])

(* A handler recovers what it may recover, and only that. *)
RecoveryIsEarned == HandlerAfterClose /\ OutcomeIsEarned

(* Docs: uncertain effects bypass handlers, only an error with NotApplied   *)
(* certainty is catchable.  A start operation whose first attempt is in     *)
(* doubt may end, at the wait's deadline, as wait.expired, which is caught. *)
UncertainBypassesHandlers ==
    [][~frame.handler /\ frame'.handler => ~IsUnresolved(rec[Start])]_waitsVars

(* In a process that stays up the run ends, blocks, or sleeps with nothing  *)
(* to do: an accepted signal and a passed deadline do wake it up.           *)
SettlesOrSleeps ==
    <>[](phase = "ready") =>
        []<>(\/ Settled
             \/ /\ run.state = "Waiting" /\ wait.state = "Open"
                /\ ~wait.delivered /\ ~Overdue)
=============================================================================
