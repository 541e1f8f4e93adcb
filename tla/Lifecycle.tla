----------------------------- MODULE Lifecycle -----------------------------
(***************************************************************************)
(* A runtime from boot to release: admission, owned calls, the supervisor, *)
(* the drain, forced and abandoned shutdowns, failures and crashes.  What  *)
(* a job does to its run is left open here (Chain, Waits and Groups model  *)
(* it): it ends the run, blocks it, suspends it, or is interrupted.        *)
(*                                                                         *)
(* An abort is a request.  What is aborted and joined ends with that step; *)
(* what is aborted and dropped goes on to its next await at the least, and *)
(* may meet the next runtime of the same store there.  The jobs that went  *)
(* with a dropped JoinSet are ghosts from then on.                         *)
(*                                                                         *)
(* A caller starts one run, which has the caller's name.  The SQLite store *)
(* executes its calls in the order they were queued, also those whose      *)
(* caller is gone.                                                         *)
(***************************************************************************)
EXTENDS Naturals, FiniteSets

CONSTANTS
    Starters,     \* callers of start
    Owned,        \* callers of execute
    ActiveRuns,   \* Limits::active_runs
    CallLimit,    \* Limits::active_runs + Limits::pending_runs
    Before,       \* the states of runs that earlier processes may have left behind
    MaxBoots, MaxSleeps    \* bounds of the instance

Callers == Starters \cup Owned

Left == {"accepted", "running", "waiting", "blocked", "cancelling"}

ASSUME LifecycleAssumption ==
    /\ Before \subseteq Left
    /\ Starters \cap Owned = {} /\ "free" \notin Callers
    /\ {ActiveRuns, CallLimit, MaxBoots, MaxSleeps} \subseteq Nat

VARIABLES
    phase,     \* Shared::phase; "boot" before it is first READY, "off" without a process
    claimed,   \* the store is claimed
    epoch,     \* boots so far
    todo,      \* boot: the unfinished runs still to classify
    lock,      \* Shared::admission
    store,     \* persisted: the state of every run, "due" when its wait has passed
    cancelled, \* persisted: cancel_requested
    plans,     \* Shared::plans
    calls,     \* Shared::calls, until a finished task is reaped
    task,      \* the start future, or the task spawned for an owned call; its caller
               \* is answered when it has ended
    by,        \* the boot each task belongs to
    token,     \* the cancellation token of an owned call
    sup,       \* supervise
    heads,     \* supervise: pending
    active,    \* supervise: active
    job,       \* supervise: jobs
    ghosts,    \* aborted jobs of this process that nobody joins
    sleeps,    \* suspensions of all runs, a bound
    shut,      \* shutdown
    forced, report,        \* ShutdownReport
    stop       \* Shared::cancel

host  == <<task, by, token, calls>>
super == <<sup, heads, active, job, ghosts>>
disk  == <<store, cancelled, sleeps>>
exit  == <<shut, forced, report, stop>>
boots == <<claimed, epoch, todo>>
vars  == <<phase, boots, lock, disk, plans, host, super, exit>>

(* An earlier process may have left runs behind, whose callers are gone; of *)
(* those that were owned calls nothing but the run is left.                 *)
Init ==
    /\ phase = "off" /\ claimed = FALSE /\ epoch = 0 /\ todo = {} /\ lock = "free"
    /\ store \in {f \in [Callers -> {"none"} \cup Before] : \A c \in Owned : f[c] = "none"}
    /\ cancelled = {c \in Callers : store[c] = "cancelling"}
    /\ sleeps = 0 /\ plans = {}
    /\ calls = {} /\ token = {}
    /\ task = [c \in Callers |-> IF store[c] = "none" THEN "none" ELSE "ended"]
    /\ by = [c \in Callers |-> 0]
    /\ sup = "off" /\ heads = [c \in Callers |-> "none"] /\ active = {}
    /\ job = [c \in Callers |-> "none"] /\ ghosts = {}
    /\ shut = "none" /\ forced = FALSE /\ report = {} /\ stop = FALSE

NoHeads     == [c \in Callers |-> "none"]
Unfinished(states) == {r \in Callers : states[r] \notin {"none", "ended"}}
Settled(r)  == store[r] \in {"ended", "blocked"}
Seen(state) == CASE state \in {"none", "ended"} -> "none"    \* what matters of a head
                 [] state \in {"blocked", "waiting"} -> "parked"
                 [] state = "due" -> "due"
                 [] OTHER -> "busy"
Ended       == {c \in Callers : task[c] \in {"ended", "queued"}}

(* Mutant: the store asks that it is claimed, and not by whom. *)
Owns_Anyone(boot) == claimed

(* ExecutionStore: its owner is the runtime of this boot. *)
Owns(boot) == claimed /\ boot = epoch

Current(c)  == Owns(by[c])
Queue       == {c \in Callers : task[c] = "queued"}
Unlock(c)   == lock' = IF lock = c THEN "free" ELSE lock

-----------------------------------------------------------------------------
(* start, and execute with the task it spawns. *)
CallStart(c) ==
    /\ c \in Starters /\ task[c] = "none" /\ phase \notin {"off", "boot"}
    /\ task' = [task EXCEPT ![c] = "start"]
    /\ by' = [by EXCEPT ![c] = epoch]
    /\ UNCHANGED <<phase, boots, lock, disk, plans, token, calls, super, exit>>

Reaped == {c \in calls : task[c] \notin {"ended", "queued"}}

CallExecute(c) ==
    /\ c \in Owned /\ task[c] = "none" /\ phase \notin {"off", "boot"} /\ lock = "free"
    /\ by' = [by EXCEPT ![c] = epoch]
    /\ IF phase = "ready" /\ Cardinality(Reaped) < CallLimit
       THEN /\ task' = [task EXCEPT ![c] = "start"]
            /\ calls' = Reaped \cup {c}
       ELSE /\ task' = [task EXCEPT ![c] = "ended"]
            /\ calls' = IF phase = "ready" THEN Reaped ELSE calls
    /\ UNCHANGED <<phase, boots, lock, disk, plans, token, super, exit>>

Ends(c) == task' = [task EXCEPT ![c] = "ended"]

Admit(c) ==
    /\ task[c] = "start"
    /\ IF by[c] # epoch \/ (c \in Owned /\ (c \in token \/ stop))
       THEN Ends(c) /\ UNCHANGED lock
       ELSE /\ lock = "free"
            /\ IF phase = "ready"
               THEN task' = [task EXCEPT ![c] = "create"] /\ lock' = c
               ELSE Ends(c) /\ UNCHANGED lock
    /\ UNCHANGED <<phase, boots, disk, plans, by, token, calls, super, exit>>

Accepts(c) == store' = [store EXCEPT ![c] = "accepted"]

Create(c) ==
    /\ task[c] = "create" /\ Queue = {}
    /\ \/ /\ Current(c) /\ Accepts(c)
          /\ task' = [task EXCEPT ![c] = "insert"] /\ UNCHANGED lock
       \/ Ends(c) /\ Unlock(c) /\ UNCHANGED store    \* refused: full, or not its store
    /\ UNCHANGED <<phase, boots, cancelled, sleeps, plans, by, token, calls, super, exit>>

Insert(c) ==
    /\ task[c] = "insert"
    /\ plans' = IF by[c] = epoch THEN plans \cup {c} ELSE plans
    /\ task' = [task EXCEPT ![c] = IF c \in Owned THEN "watch" ELSE "ended"]
    /\ Unlock(c)
    /\ UNCHANGED <<phase, boots, disk, by, token, calls, super, exit>>

(* The biased select of execute_owned, and the cancellation it requests. *)
CancelRun(c) ==
    /\ task[c] = "watch" /\ c \in token /\ Queue = {}
    /\ IF phase \in {"stopped", "failed", "off"} \/ ~Current(c)
       THEN Ends(c) /\ UNCHANGED <<store, cancelled>>
       ELSE /\ task' = [task EXCEPT ![c] = "settle"]
            /\ IF store[c] = "ended" THEN UNCHANGED <<store, cancelled>>
               ELSE /\ store' = [store EXCEPT ![c] = "cancelling"]
                    /\ cancelled' = cancelled \cup {c}
    /\ UNCHANGED <<phase, boots, lock, sleeps, plans, by, token, calls, super, exit>>

Watch(c) ==
    /\ \/ task[c] = "watch" /\ c \notin token
       \/ task[c] = "settle"
    /\ \/ phase \in {"stopped", "failed"} \/ by[c] # epoch \/ Settled(c)
       \/ task[c] = "watch" /\ stop
    /\ Ends(c)
    /\ UNCHANGED <<phase, boots, lock, disk, plans, by, token, calls, super, exit>>

(* The create of an aborted future may be on the store's queue already. *)
AbortTasks(gone) ==
    /\ \E queued \in SUBSET {c \in gone : task[c] = "create"} :
          task' = [c \in Callers |-> IF c \in queued THEN "queued"
                                     ELSE IF c \in gone /\ task[c] # "queued" THEN "ended"
                                     ELSE task[c]]
    /\ lock' = IF lock \in gone THEN "free" ELSE lock

Open(c) == task[c] \notin {"none", "ended", "queued"}

(* The caller of start is dropped; the caller of an owned call is, or the   *)
(* host cancels the call, which comes to the same.                          *)
DropCaller(c) ==
    /\ Open(c) /\ c \notin token
    /\ IF c \in Owned THEN token' = token \cup {c} /\ UNCHANGED <<task, lock>>
       ELSE AbortTasks({c}) /\ UNCHANGED token
    /\ UNCHANGED <<phase, boots, disk, plans, by, calls, super, exit>>

RunQueued(c) ==
    /\ task[c] = "queued"
    /\ Ends(c)
    /\ IF Current(c) THEN Accepts(c) ELSE UNCHANGED store
    /\ UNCHANGED <<phase, boots, lock, cancelled, sleeps, plans, by, token, calls,
                   super, exit>>

(* The task of a call that went with its runtime ends at some later await. *)
TaskDropped(c) ==
    /\ c \in Owned /\ Open(c) /\ (shut = "dropped" \/ by[c] # epoch)
    /\ AbortTasks({c})
    /\ UNCHANGED <<phase, boots, disk, plans, by, token, calls, super, exit>>

TaskStep(c) == Admit(c) \/ Create(c) \/ Insert(c) \/ CancelRun(c) \/ Watch(c) \/ RunQueued(c)

-----------------------------------------------------------------------------
(* supervise: one iteration of its loop reads the heads, spawns, and waits. *)
(* Mutant: only runs whose plan was cached by start are executed. *)
Candidates_Cached == {r \in plans \ active : heads[r] \in {"busy", "due"}}

Candidates == {r \in Callers \ active : heads[r] \in {"busy", "due"}}

Room       == Cardinality(active) < ActiveRuns

ReadHeads ==
    /\ sup = "read" /\ Queue = {}
    /\ calls' = Reaped
    /\ heads' = [r \in Callers |-> Seen(store[r])]
    /\ sup' = "spawn"
    /\ UNCHANGED <<phase, boots, lock, disk, plans, task, by, token, active, job, ghosts, exit>>

Spawn(r) ==
    /\ sup = "spawn" /\ Room /\ r \in Candidates
    /\ \/ /\ active' = active \cup {r} /\ job' = [job EXCEPT ![r] = "spawned"]
          /\ UNCHANGED <<heads, store>>
       \/ /\ r \notin plans /\ Queue = {} /\ claimed    \* the package cannot be recovered
          /\ heads' = [heads EXCEPT ![r] = "none"]
          /\ store' = [store EXCEPT ![r] = IF @ = "ended" THEN @ ELSE "blocked"]
          /\ UNCHANGED <<active, job>>
    /\ UNCHANGED <<phase, boots, lock, cancelled, sleeps, plans, host, sup, ghosts, exit>>

Drained ==
    /\ phase = "draining" /\ calls = {} /\ active = {}
    /\ \A r \in Callers : heads[r] # "busy"

CheckExit ==
    /\ sup = "spawn" /\ ~(Room /\ Candidates # {})
    /\ sup' = IF Drained THEN "exited" ELSE "select"
    /\ heads' = NoHeads
    /\ UNCHANGED <<phase, boots, lock, disk, plans, host, active, job, ghosts, exit>>

(* The supervisor ends and its JoinSet with it, which aborts the jobs. *)
Going == {r \in Callers : job[r] \in {"spawned", "run"}}

Abandon(end) ==
    /\ sup' = end /\ active' = {} /\ job' = [r \in Callers |-> "none"] /\ heads' = NoHeads
    /\ ghosts' = ghosts \cup {[run |-> r, boot |-> epoch, at |-> job[r]] : r \in Going}

(* An error of the store or of a job is essential: the runtime fails. *)
Fails ==
    /\ Abandon("failed") /\ stop' = TRUE /\ phase' = "failed"
    /\ UNCHANGED <<shut, forced, report>>

Joined(r) ==
    /\ sup = "select" /\ job[r] \in {"done", "error"}
    /\ plans' = plans \ {r}
    /\ IF job[r] = "error" THEN Fails
       ELSE /\ active' = active \ {r} /\ job' = [job EXCEPT ![r] = "none"] /\ sup' = "read"
            /\ UNCHANGED <<phase, heads, ghosts, exit>>
    /\ UNCHANGED <<boots, lock, disk, host>>

Wakes ==      \* the wake notification, or the 50 ms of the poll
    /\ sup = "select" /\ Queue = {} /\ sup' = "read"
    /\ UNCHANGED <<phase, boots, lock, disk, plans, host, heads, active, job, ghosts, exit>>

StoreFails ==
    /\ sup \in {"read", "spawn", "select"} /\ Fails
    /\ UNCHANGED <<boots, lock, disk, plans, host>>

Stops ==
    /\ sup = "select" /\ stop
    /\ \A r \in active : job[r] \in {"done", "error"}
    /\ IF \E r \in active : job[r] = "error" THEN Fails
       ELSE Abandon("exited") /\ UNCHANGED <<phase, exit>>
    /\ UNCHANGED <<boots, lock, disk, plans, host>>

(* What a job commits.  The store refuses it once it has another owner. *)
Begun(r) ==
    store' = [store EXCEPT ![r] = IF r \in cancelled \/ @ = "ended" THEN @ ELSE "running"]

Outcome(r) ==
    \/ store' = [store EXCEPT ![r] = "ended"] /\ UNCHANGED sleeps
    \/ store' = [store EXCEPT ![r] = IF @ = "ended" THEN @ ELSE "blocked"] /\ UNCHANGED sleeps
    \/ /\ sleeps < MaxSleeps /\ sleeps' = sleeps + 1
       /\ store' = [store EXCEPT ![r] = IF r \in cancelled THEN @ ELSE "waiting"]

JobBegins(r) ==
    /\ job[r] = "spawned" /\ Queue = {}
    /\ IF claimed THEN Begun(r) /\ job' = [job EXCEPT ![r] = "run"]
       ELSE job' = [job EXCEPT ![r] = "error"] /\ UNCHANGED store
    /\ UNCHANGED <<phase, boots, lock, cancelled, sleeps, plans, host, sup, heads, active,
                   ghosts, exit>>

JobEnds(r) ==
    /\ job[r] = "run" /\ Queue = {}
    /\ \/ claimed /\ Outcome(r) /\ job' = [job EXCEPT ![r] = "done"]
       \/ job' = [job EXCEPT ![r] = "error"] /\ UNCHANGED <<store, sleeps>>
    /\ UNCHANGED <<phase, boots, lock, cancelled, plans, host, sup, heads, active, ghosts,
                   exit>>

(* An aborted job ends at an await, now or after what it had begun. *)
GhostEnds(g) ==
    /\ g \in ghosts /\ ghosts' = ghosts \ {g}
    /\ \/ UNCHANGED <<store, sleeps>>
       \/ g.at = "run" /\ Queue = {} /\ Owns(g.boot) /\ Outcome(g.run)
    /\ UNCHANGED <<phase, boots, lock, cancelled, plans, host, sup, heads, active, job, exit>>

GhostBegins(g) ==
    /\ g \in ghosts /\ g.at = "spawned" /\ Queue = {} /\ Owns(g.boot)
    /\ Begun(g.run)
    /\ ghosts' = (ghosts \ {g}) \cup {[run |-> g.run, boot |-> g.boot, at |-> "run"]}
    /\ UNCHANGED <<phase, boots, lock, cancelled, sleeps, plans, host, sup, heads, active, job,
                   exit>>

Due(r) ==     \* the wait's deadline passes, or its signal is delivered
    /\ store[r] = "waiting" /\ store' = [store EXCEPT ![r] = "due"]
    /\ UNCHANGED <<phase, boots, lock, cancelled, sleeps, plans, host, super, exit>>

SuperStep ==
    \/ ReadHeads \/ CheckExit \/ Stops
    \/ \E r \in Callers : Spawn(r) \/ Joined(r) \/ JobBegins(r) \/ JobEnds(r)

-----------------------------------------------------------------------------
(* shutdown *)
Shutdown ==
    /\ shut = "none" /\ sup # "off" /\ phase # "stopped"
    /\ shut' = "close"
    /\ UNCHANGED <<phase, boots, lock, disk, plans, host, super, forced, report, stop>>

(* Mutant: admission is closed without its lock. *)
CloseAdmission_Unlocked ==
    /\ shut = "close"
    /\ phase' = IF phase = "ready" THEN "draining" ELSE phase
    /\ shut' = "join"
    /\ UNCHANGED <<boots, lock, disk, plans, host, super, forced, report, stop>>

CloseAdmission ==
    /\ shut = "close" /\ lock = "free"
    /\ phase' = IF phase = "ready" THEN "draining" ELSE phase
    /\ shut' = "join"
    /\ UNCHANGED <<boots, lock, disk, plans, host, super, forced, report, stop>>

Gone == sup \in {"exited", "failed"}

(* Mutant: a failed supervisor is not joined. *)
JoinSupervisor_Exited ==
    /\ shut \in {"join", "grace"} /\ sup = "exited"
    /\ shut' = "calls"
    /\ UNCHANGED <<phase, boots, lock, disk, plans, host, super, forced, report, stop>>

JoinSupervisor ==
    /\ shut \in {"join", "grace"} /\ Gone
    /\ shut' = "calls"
    /\ UNCHANGED <<phase, boots, lock, disk, plans, host, super, forced, report, stop>>

DrainTimeout ==
    /\ shut = "join" /\ ~Gone
    /\ shut' = "grace" /\ forced' = TRUE /\ stop' = TRUE
    /\ UNCHANGED <<phase, boots, lock, disk, plans, host, super, report>>

GraceTimeout ==
    /\ shut = "grace" /\ ~Gone
    /\ Abandon("exited") /\ shut' = "calls"
    /\ UNCHANGED <<phase, boots, lock, disk, plans, host, forced, report, stop>>

AbortCalls ==
    /\ shut = "calls"
    /\ AbortTasks(calls) /\ calls' = {} /\ shut' = "report"
    /\ UNCHANGED <<phase, boots, disk, plans, by, token, super, forced, report, stop>>

Report ==
    /\ shut = "report" /\ Queue = {}
    /\ report' = Unfinished(store) /\ shut' = "release"
    /\ UNCHANGED <<phase, boots, lock, disk, plans, host, super, forced, stop>>

Release ==
    /\ shut = "release" /\ Queue = {}
    /\ claimed' = FALSE /\ phase' = "stopped" /\ shut' = "done"
    /\ UNCHANGED <<epoch, todo, lock, disk, plans, host, super, forced, report, stop>>

Dropped ==    \* EngineRuntime::drop; there is no ShutdownReport
    /\ phase' = "stopped" /\ stop' = TRUE /\ shut' = "dropped"
    /\ forced' = FALSE /\ report' = {}

(* EngineRuntime::drop tries again, and waits for nothing. *)
ReleaseFails ==
    /\ shut = "release" /\ Queue = {}
    /\ Dropped
    /\ UNCHANGED <<boots, lock, disk, plans, host, super>>

ShutdownStep ==
    \/ CloseAdmission \/ JoinSupervisor \/ DrainTimeout \/ GraceTimeout
    \/ AbortCalls \/ Report \/ Release

(* The runtime, or the future of its shutdown, is dropped: the aborts and   *)
(* the release are requested, and none is waited for.                       *)
DropRuntime ==
    /\ sup # "off" /\ shut \notin {"done", "dropped"}
    /\ Dropped
    /\ UNCHANGED <<boots, lock, disk, plans, host, super>>

SupervisorDropped ==
    /\ shut = "dropped" /\ sup \in {"read", "spawn", "select"}
    /\ Abandon("exited")
    /\ UNCHANGED <<phase, boots, lock, disk, plans, host, exit>>

ReleaseDetached ==
    /\ shut = "dropped" /\ claimed /\ Queue = {}
    /\ claimed' = FALSE
    /\ UNCHANGED <<phase, epoch, todo, lock, disk, plans, host, super, exit>>

Crash ==
    /\ phase # "off"
    /\ phase' = "off" /\ claimed' = FALSE /\ todo' = {} /\ lock' = "free"
    /\ plans' = {} /\ calls' = {} /\ token' = {}
    /\ task' = [c \in Callers |-> IF task[c] = "none" THEN "none" ELSE "ended"]
    /\ sup' = "off" /\ active' = {} /\ job' = [r \in Callers |-> "none"] /\ heads' = NoHeads
    /\ ghosts' = {}
    /\ shut' = "none" /\ forced' = FALSE /\ report' = {} /\ stop' = FALSE
    /\ UNCHANGED <<epoch, by, disk>>

-----------------------------------------------------------------------------
(* boot.  A dropped supervisor that is still there has its own Shared: its  *)
(* jobs are among the ghosts, and all else that it may do is refused.       *)
Boot ==
    /\ ~claimed /\ epoch < MaxBoots
    /\ claimed' = TRUE /\ epoch' = epoch + 1
    /\ phase' = "boot" /\ todo' = Unfinished(store) /\ lock' = "free"
    /\ plans' = {} /\ calls' = {} /\ Abandon("off")
    /\ shut' = "none" /\ forced' = FALSE /\ report' = {} /\ stop' = FALSE
    /\ UNCHANGED <<disk, task, by, token>>

BootFails ==    \* RejectUnfinished, an error, or the boot future is dropped
    /\ phase = "boot"
    /\ claimed' = FALSE /\ phase' = "off" /\ todo' = {}
    /\ UNCHANGED <<epoch, lock, disk, plans, host, super, exit>>

BootRun(r) ==
    /\ phase = "boot" /\ r \in todo /\ todo' = todo \ {r}
    /\ \/ /\ plans' = plans \cup {r}
          /\ \/ UNCHANGED store
             \/ store' = [store EXCEPT ![r] = "blocked"]    \* unresolved effects
             \/ /\ store[r] = "blocked"    \* blocked because it could not be recovered
                /\ store' = [store EXCEPT ![r] = IF r \in cancelled THEN "cancelling"
                                                 ELSE "running"]
       \/ store' = [store EXCEPT ![r] = "blocked"] /\ UNCHANGED plans
    /\ UNCHANGED <<phase, claimed, epoch, lock, cancelled, sleeps, host, super, exit>>

BootReady ==
    /\ phase = "boot" /\ todo = {}
    /\ phase' = "ready" /\ sup' = "read"
    /\ UNCHANGED <<boots, lock, disk, plans, host, heads, active, job, ghosts, exit>>

-----------------------------------------------------------------------------
Next ==
    \/ \E c \in Callers : \/ CallStart(c) \/ CallExecute(c) \/ TaskStep(c)
                          \/ DropCaller(c) \/ TaskDropped(c) \/ Due(c) \/ BootRun(c)
    \/ SuperStep \/ Wakes \/ StoreFails
    \/ \E g \in ghosts : GhostBegins(g) \/ GhostEnds(g)
    \/ Shutdown \/ ShutdownStep \/ ReleaseFails
    \/ DropRuntime \/ SupervisorDropped \/ ReleaseDetached \/ Crash
    \/ Boot \/ BootFails \/ BootReady

Spec == Init /\ [][Next]_vars

(* tokio keeps polling tasks, the store answers, timers fire, jobs end, and *)
(* a boot that is not dropped goes on.  select! takes every branch that     *)
(* stays ready sooner or later.                                             *)
Fairness ==
    /\ \A c \in Callers : /\ WF_vars(TaskStep(c))
                           /\ WF_vars(JobBegins(c) \/ JobEnds(c)) /\ SF_vars(Joined(c))
    /\ WF_vars(ReadHeads \/ CheckExit \/ \E r \in Callers : Spawn(r))
    /\ WF_vars(Wakes) /\ SF_vars(Stops)
    /\ WF_vars(ShutdownStep) /\ WF_vars(ReleaseDetached)
    /\ WF_vars(BootReady \/ \E c \in Callers : BootRun(c))
FairSpec == Spec /\ Fairness

-----------------------------------------------------------------------------
(* Every variable has its type. *)
TypeOK ==
    /\ phase \in {"off", "boot", "ready", "draining", "stopped", "failed"}
    /\ claimed \in BOOLEAN /\ forced \in BOOLEAN /\ stop \in BOOLEAN
    /\ epoch \in 0..MaxBoots /\ by \in [Callers -> 0..MaxBoots]
    /\ {todo, cancelled, plans, active, report} \subseteq SUBSET Callers
    /\ calls \subseteq Owned /\ token \subseteq Owned
    /\ lock \in {"free"} \cup {c \in Callers : task[c] \in {"create", "insert"}}
    /\ {heads[c] : c \in Callers} \subseteq {"none", "parked", "due", "busy"}
    /\ {store[c] : c \in Callers} \subseteq
           {"none", "accepted", "running", "waiting", "due", "cancelling", "blocked", "ended"}
    /\ sleeps \in 0..MaxSleeps
    /\ task \in [Callers -> {"none", "start", "create", "insert", "watch", "settle", "queued",
                             "ended"}]
    /\ sup \in {"off", "read", "spawn", "select", "exited", "failed"}
    /\ job \in [Callers -> {"none", "spawned", "run", "done", "error"}]
    /\ ghosts \subseteq [run : Callers, boot : 1..MaxBoots, at : {"spawned", "run"}]
    /\ shut \in {"none", "close", "join", "grace", "calls", "report", "release", "done",
                 "dropped"}

(* A run has one executor: of the jobs of the supervisor, of those that     *)
(* were aborted and are joined by nobody, and of those that outlive their   *)
(* runtime into the next boot of the store, at most one has its commits     *)
(* accepted.  Heads read earlier, an abort and a boot never give it a       *)
(* second one.  A job that is not aborted runs while its runtime owns the   *)
(* store, unless that was dropped.  There are no more executed runs and     *)
(* owned calls at a time than the limits allow, the aborted ones included   *)
(* (coordinator.rs:38, coordinator.rs:41, execute.rs:39, lifecycle.rs:184,  *)
(* lifecycle.rs:234).                                                       *)
OneExecutor ==
    LET accepted == {g \in ghosts : Owns(g.boot)}
        jobs     == {r \in Callers : job[r] # "none"}
    IN  /\ \A r \in jobs : r \in active /\ (claimed \/ shut = "dropped")
        /\ \A g \in accepted : g.run \notin jobs
        /\ \A g, h \in accepted : g.run = h.run => g = h
        /\ Cardinality(jobs \cup {g.run : g \in accepted}) <= ActiveRuns
        /\ Cardinality({c \in Owned : by[c] = epoch /\ Open(c)}) <= CallLimit

(* Once admission is closed nothing is accepted, except a create that was   *)
(* already on the queue of the store when its caller was dropped: close     *)
(* waits for the start that holds the lock (application.rs:27).             *)
NothingAcceptedAfterClose ==
    [][\A c \in Callers : store[c] = "none" /\ store'[c] = "accepted" =>
          phase # "draining" \/ task[c] = "queued"]_vars

(* The report of a finished shutdown names every run that is left           *)
(* unfinished: accepted after the supervisor's last look at the heads, by a *)
(* dropped start or by an aborted call (coordinator.rs:75, lifecycle.rs:192).*)
ReportIsComplete ==
    shut = "done" => Unfinished(store) \subseteq report

(* A drain that was not forced has let every owned call finish: its run     *)
(* has ended or is blocked (coordinator.rs:76).                             *)
DrainFinishesCalls ==
    shut = "done" /\ ~forced /\ sup = "exited" =>
        \A c \in Owned : by[c] = epoch => store[c] \in {"none", "ended", "blocked"}

(* A shutdown closes what it says is closed and reports what it leaves:     *)
(* the three properties above together (lifecycle.rs:161).                  *)
ShutdownIsHonest ==
    NothingAcceptedAfterClose /\ [](ReportIsComplete /\ DrainFinishesCalls)

(* An owned call whose caller is gone, or that the host cancelled, leaves   *)
(* no run behind that nobody asked to stop, in a runtime that stays up      *)
(* (execute.rs:8, execute.rs:67).                                           *)
DroppedCallStops ==
    \A c \in Owned : c \in token /\ by[c] = epoch ~>
        \/ store[c] \in {"ended", "blocked"} \/ (store[c] = "none" /\ task[c] = "ended")
        \/ phase \in {"off", "stopped", "failed"}

(* shutdown comes to its end, and a runtime that was dropped, or whose own  *)
(* release failed, gives its store back.  This takes a Tokio runtime that   *)
(* is there when the drop happens, and a release that succeeds then         *)
(* (lifecycle.rs:18, lifecycle.rs:161, lifecycle.rs:202, lifecycle.rs:239). *)
ShutdownReleases ==
    shut # "none" ~> ~claimed \/ shut = "none"

(* An accepted run is executed while its runtime stays up: none is starved  *)
(* by the others, and none is lost between the store and a plan that was    *)
(* never cached (coordinator.rs:31).                                        *)
AcceptedIsExecuted ==
    \A c \in Callers : store[c] = "accepted" ~>
        store[c] # "accepted" \/ phase \in {"off", "stopped", "failed", "draining"}

(* The runtime serves what it has accepted: an accepted run is executed and *)
(* an abandoned call is stopped (coordinator.rs:31, execute.rs:67).         *)
RunsAreServed == AcceptedIsExecuted /\ DroppedCallStops
=============================================================================
