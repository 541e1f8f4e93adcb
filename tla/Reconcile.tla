----------------------------- MODULE Reconcile ------------------------------
(***************************************************************************)
(* The reconcile command as operators use it: they inspect, decide, send,   *)
(* lose the answer and send again, while late responses, cancellations and  *)
(* the coordinator commit to the same run.  One run with one write, whose   *)
(* attempts all end unknown or confirmed; RunHead has the decision itself,  *)
(* and this module its receipt, its audit and its races.                    *)
(***************************************************************************)
EXTENDS Naturals, FiniteSets, Sequences, SequencesExt

CONSTANTS
    Actors,             \* who sends commands, one at a time each
    CommandIds,
    Resolutions,        \* what they decide: applied, retry, failed, inconclusive, stop
    AuditLimit,         \* limits.audit_entries
    MaxAttempts,        \* of the record
    MaxRevision,        \* bound on the history of the run
    MaxLate, MaxCrashes \* bounds

VARIABLES
    run,        \* [state, revision, cancel, audit]
    rec,        \* [state, attempt]
    client,     \* per actor: what it knows, and its call
    admission,  \* the actor whose call holds the lock, or none
    abandoned,  \* commits whose caller is gone, still on their way to the store
    late,       \* the task that observes a late response
    lates, crashes

vars == <<run, rec, client, admission, abandoned, late, lates, crashes>>
nobody == "nobody"
none == [id |-> "none"]
Idle == [pc |-> "idle"]

IsTerminal(r) == r.state \in {"Succeeded", "Failed", "Cancelled"}
Store(r, c) == run' = r /\ rec' = c
Unchanged == UNCHANGED <<run, rec>>

Init ==
    /\ run = [state |-> "Blocked", revision |-> 1, cancel |-> FALSE, audit |-> <<>>]
    /\ rec = [state |-> "Unknown", attempt |-> 1]
    /\ client = [a \in Actors |-> [pc |-> "idle", rev |-> 0, attempt |-> 0, cmd |-> none,
                                got |-> none, next |-> none]]
    /\ admission = nobody /\ abandoned = {} /\ late = Idle
    /\ lates = 0 /\ crashes = 0

Bump(r) == [r EXCEPT !.revision = @ + 1]
Room == run.revision < MaxRevision

-----------------------------------------------------------------------------
(* inspect_effect names the attempt, a status read the revision; an actor    *)
(* may combine an old inspection with a newer revision.                     *)
Inspect(a) ==
    /\ client[a].pc = "idle" /\ run.state = "Blocked" /\ rec.state = "Unknown"
    /\ client' = [client EXCEPT ![a].rev = run.revision, ![a].attempt = rec.attempt]
    /\ UNCHANGED <<run, rec, admission, abandoned, late, lates, crashes>>

Status(a) ==
    /\ client[a].pc = "idle"
    /\ client' = [client EXCEPT ![a].rev = run.revision]
    /\ UNCHANGED <<run, rec, admission, abandoned, late, lates, crashes>>

(* A new command, or the last one again. *)
Send(a) ==
    /\ client[a].pc = "idle" /\ client[a].attempt # 0 /\ admission = nobody
    /\ admission' = a
    /\ \/ \E id \in CommandIds, res \in Resolutions :
             client' = [client EXCEPT ![a].pc = "read", ![a].got = none, ![a].cmd =
                [id |-> id, rev |-> client[a].rev, attempt |-> client[a].attempt, res |-> res]]
       \/ /\ client[a].cmd # none
          /\ client' = [client EXCEPT ![a].pc = "read", ![a].got = none]
    /\ UNCHANGED <<run, rec, abandoned, late, lates, crashes>>

(* previous_receipt: the audit entry of this command identity. *)
Used(r, id) == {e \in ToSet(r.audit) : e.kind = "resolution" /\ e.cmd.id = id}
Same(a, e) == e.cmd = client[a].cmd /\ e.actor = a

(* What the resolution makes of the record and the run that were read. *)
Retry(r, c) == c.attempt < MaxAttempts /\ ~r.cancel
Decided(r, c, res) ==
    CASE res = "applied" -> [c EXCEPT !.state = "Succeeded"]
      [] res = "retry"   -> [c EXCEPT !.state = IF Retry(r, c) THEN "Pending" ELSE "Failed"]
      [] res = "failed"  -> [c EXCEPT !.state = "Failed"]
      [] OTHER -> c
Continued(r, c, res) ==
    CASE res = "stop" -> [r EXCEPT !.state = IF r.cancel THEN "Cancelled" ELSE "Failed"]
      [] res # "stop" /\ c.state # "Unknown" ->
            [r EXCEPT !.state = IF r.cancel THEN "Cancelling" ELSE "Accepted"]
      [] OTHER -> r
StatusOf(c, res) ==
    IF res = "stop" THEN "stopped" ELSE IF c.state = "Unknown" THEN "blocked" ELSE c.state

(* The run to commit, with its audit entry and the receipt in it. *)
Resolution(a, r, c) ==
    LET d == Decided(r, c, client[a].cmd.res)
        receipt == [id |-> client[a].cmd.id, rev |-> r.revision + 1,
                    status |-> StatusOf(d, client[a].cmd.res)]
        entry == [kind |-> "resolution", cmd |-> client[a].cmd, actor |-> a,
                  receipt |-> receipt]
    IN  [run |-> [Bump(Continued(r, d, client[a].cmd.res)) EXCEPT !.audit = Append(@, entry)],
         rec |-> d, receipt |-> receipt]

(* The call returns a receipt, or an error. *)
Returns(a, got) ==
    /\ client' = [client EXCEPT ![a].pc = "idle", ![a].got = got, ![a].next = none]
    /\ admission' = nobody
ReceiptOf(a, entries) ==
    IF \E e \in entries : Same(a, e) THEN (CHOOSE e \in entries : Same(a, e)).receipt ELSE none

(* Mutant: the observed attempt is not compared. *)
Current_AnyAttempt(a) ==
    /\ run.revision = client[a].cmd.rev /\ run.state = "Blocked"
    /\ rec.state = "Unknown"

Current(a) ==
    /\ run.revision = client[a].cmd.rev /\ run.state = "Blocked"
    /\ rec.state = "Unknown" /\ rec.attempt = client[a].cmd.attempt

Decide(a) ==
    /\ Room
    /\ client' = [client EXCEPT ![a].pc = "commit", ![a].next = Resolution(a, run, rec)]
    /\ UNCHANGED admission

(* Mutant: a used identity is looked up with the whole command. *)
ReadRun_SameOnly(a) ==
    /\ client[a].pc = "read"
    /\ LET used == {e \in Used(run, client[a].cmd.id) : Same(a, e)}
       IN  IF used # {}
           THEN Returns(a, ReceiptOf(a, used))
           ELSE IF Current(a) /\ Len(run.audit) < AuditLimit
           THEN Decide(a)
           ELSE Returns(a, none)
    /\ UNCHANGED <<run, rec, abandoned, late, lates, crashes>>

ReadRun(a) ==
    /\ client[a].pc = "read"
    /\ LET used == Used(run, client[a].cmd.id)
       IN  IF used # {}
           THEN Returns(a, ReceiptOf(a, used))
           ELSE IF Current(a) /\ Len(run.audit) < AuditLimit
           THEN Decide(a)
           ELSE Returns(a, none)
    /\ UNCHANGED <<run, rec, abandoned, late, lates, crashes>>

Commit(a) ==
    /\ client[a].pc = "commit"
    /\ IF run.revision = client[a].cmd.rev
       THEN /\ Store(client[a].next.run, client[a].next.rec)
            /\ Returns(a, client[a].next.receipt)
       ELSE /\ client' = [client EXCEPT ![a].pc = "reread"]
            /\ Unchanged /\ UNCHANGED admission
    /\ UNCHANGED <<abandoned, late, lates, crashes>>

(* The commit lost a race: perhaps to an earlier sending of this command. *)
Reread(a) ==
    /\ client[a].pc = "reread"
    /\ Returns(a, ReceiptOf(a, Used(run, client[a].cmd.id)))
    /\ UNCHANGED <<run, rec, abandoned, late, lates, crashes>>

(* The caller is gone: the lock is released, a commit handed over remains.  *)
Drop(a) ==
    /\ client[a].pc \in {"read", "commit", "reread"}
    /\ abandoned = {}       \* bound: one at a time
    /\ Returns(a, none)
    /\ abandoned' = IF client[a].pc = "commit" THEN abandoned \cup {client[a].next}
                    ELSE abandoned
    /\ UNCHANGED <<run, rec, late, lates, crashes>>

Lands ==
    /\ \E n \in abandoned :
          /\ abandoned' = abandoned \ {n}
          /\ IF run.revision + 1 = n.run.revision THEN Store(n.run, n.rec) ELSE Unchanged
    /\ UNCHANGED <<client, admission, late, lates, crashes>>

-----------------------------------------------------------------------------
(* observe_late: a response after its attempt was given up, through update,  *)
(* which reads and commits until nobody came between.                       *)
LateArrives ==
    /\ late.pc = "idle" /\ lates < MaxLate /\ Room
    /\ lates' = lates + 1
    /\ late' = [pc |-> "commit", run |-> run, rec |-> rec]
    /\ UNCHANGED <<run, rec, client, admission, abandoned, crashes>>

LateCommit ==
    /\ late.pc = "commit"
    /\ IF Len(late.run.audit) >= AuditLimit THEN Unchanged /\ late' = Idle
       ELSE IF run.revision = late.run.revision
       THEN /\ Store([Bump(run) EXCEPT !.audit = Append(@, [kind |-> "late"])], rec)
            /\ late' = Idle
       ELSE Unchanged /\ late' = [late EXCEPT !.run = run, !.rec = rec]
    /\ UNCHANGED <<client, admission, abandoned, lates, crashes>>

Cancel ==
    /\ ~IsTerminal(run) /\ ~run.cancel /\ Room
    /\ Store([Bump(run) EXCEPT !.cancel = TRUE, !.state = "Cancelling"], rec)
    /\ UNCHANGED <<client, admission, abandoned, late, lates, crashes>>

(* The coordinator: a new attempt, what becomes of it, and the end. *)
Attempt ==
    /\ run.state = "Accepted" /\ rec.state = "Pending" /\ Room
    /\ Store(Bump(run), [state |-> "Running", attempt |-> rec.attempt + 1])
    /\ UNCHANGED <<client, admission, abandoned, late, lates, crashes>>

AttemptEnds ==
    /\ rec.state = "Running" /\ Room
    /\ \E s \in {"Unknown", "Succeeded", "Failed"} :
          Store([Bump(run) EXCEPT !.state = IF s = "Unknown" THEN "Blocked" ELSE @],
                [rec EXCEPT !.state = s])
    /\ UNCHANGED <<client, admission, abandoned, late, lates, crashes>>

Finish ==
    /\ run.state \in {"Accepted", "Cancelling"} /\ Room
    /\ rec.state = "Pending" => run.state = "Cancelling"
    /\ rec.state # "Running"
    /\ Store([Bump(run) EXCEPT !.state =
                 IF rec.state = "Unknown" THEN "Blocked"
                 ELSE IF run.cancel THEN "Cancelled" ELSE rec.state], rec)
    /\ UNCHANGED <<client, admission, abandoned, late, lates, crashes>>

(* The calls, the queue and the late task are the process's. *)
Crash ==
    /\ crashes < MaxCrashes /\ crashes' = crashes + 1
    /\ client' = [a \in Actors |-> [client[a] EXCEPT !.pc = "idle", !.next = none]]
    /\ admission' = nobody /\ abandoned' = {} /\ late' = Idle
    /\ run' = IF rec.state = "Running" THEN [Bump(run) EXCEPT !.state = "Blocked"] ELSE run
    /\ rec' = IF rec.state = "Running" THEN [rec EXCEPT !.state = "Unknown"] ELSE rec
    /\ UNCHANGED lates

Next ==
    \/ \E a \in Actors : \/ Inspect(a) \/ Status(a) \/ Send(a) \/ ReadRun(a)
                         \/ Commit(a) \/ Reread(a) \/ Drop(a)
    \/ Lands \/ LateArrives \/ LateCommit \/ Cancel
    \/ Attempt \/ AttemptEnds \/ Finish \/ Crash

Spec == Init /\ [][Next]_vars

-----------------------------------------------------------------------------
TypeOK ==
    /\ run.state \in {"Accepted", "Blocked", "Cancelling", "Succeeded", "Failed", "Cancelled"}
    /\ rec.state \in {"Pending", "Running", "Unknown", "Succeeded", "Failed"}
    /\ rec.attempt \in 1..MaxAttempts
    /\ Len(run.audit) <= AuditLimit
    /\ admission # nobody <=> \E a \in Actors : client[a].pc # "idle"

(* A command is applied once, however often it was sent, dropped, raced or   *)
(* repeated after a crash, and by whom: its identity has one audit entry    *)
(* (reconcile.rs:9).                                                        *)
AppliedOnce ==
    \A i, j \in DOMAIN run.audit :
        /\ run.audit[i].kind = "resolution" /\ run.audit[j].kind = "resolution"
        /\ run.audit[i].cmd.id = run.audit[j].cmd.id
        => i = j

(* A receipt that was answered is in the audit, for good, under the command *)
(* and actor it was answered to: resolution, audit and receipt are one      *)
(* commit (reconcile.rs:309).                                               *)
ReceiptIsAudited ==
    \A a \in DOMAIN client : client[a].got # none =>
        \E e \in Used(run, client[a].cmd.id) : Same(a, e) /\ e.receipt = client[a].got

(* Repeating an applied command returns its receipt, whatever happened to    *)
(* the run since (reconcile.rs:139, 332).                                   *)
RepeatReturnsReceipt ==
    [][\A a \in DOMAIN client :
          /\ client[a].pc \in {"read", "reread"} /\ client'[a].pc = "idle"
          /\ ~Drop(a) /\ crashes' = crashes
          => client'[a].got = ReceiptOf(a, Used(run, client[a].cmd.id))]_vars

(* An unknown effect is resolved by one commit that also audits the command  *)
(* that names this very attempt: not by evidence about an earlier one       *)
(* (reconcile.rs:153).                                                      *)
ResolvesWhatWasObserved ==
    [][rec.state = "Unknown" /\ rec'.state # "Unknown" =>
          /\ Len(run'.audit) = Len(run.audit) + 1
          /\ Last(run'.audit).kind = "resolution"
          /\ Last(run'.audit).cmd.attempt = rec.attempt]_vars

(* What was audited and what was confirmed stays: a late response adds to    *)
(* the audit and changes nothing else (invocation.rs:137).                  *)
ConfirmedStays ==
    [][/\ IsPrefix(run.audit, run'.audit)
       /\ rec.state = "Succeeded" => rec' = rec
       /\ IsTerminal(run) => run'.state = run.state /\ rec' = rec]_vars
=============================================================================
