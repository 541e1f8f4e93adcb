---------------------------- MODULE SqliteStore ----------------------------
(***************************************************************************)
(* SqliteExecutionStore: the calls runtimes queue to the worker thread of  *)
(* their process, the transactions the worker runs, and the file they act  *)
(* on, which outlives every process.  A run is a row of derived columns    *)
(* and a header, and one row per invocation record; the header is rewritten *)
(* by commit only, so after commit_invocation its revision lags the row's. *)
(*                                                                         *)
(* A queued call is carried out even when its caller has dropped the       *)
(* future; a process may die between any two transactions, and loses its   *)
(* queue, its worker and the file lock.                                    *)
(***************************************************************************)
EXTENDS Snapshots

CONSTANTS
    Processes,
    QueueCapacity    \* options.queue_capacity

NoProcess == "no process"
ASSUME SqliteAssumption == QueueCapacity \in Nat \ {0} /\ NoProcess \notin Processes

VARIABLES
    meta,      \* file: wf_meta.owner
    rows,      \* file: wf_runs, the columns and the header of each run
    nodes,     \* file: wf_invocations, the records of each run
    receipts,  \* file: wf_receipts
    lock,      \* the process holding the lock beside the file
    worker,    \* the owner each process's worker acts for, or NoOwner
    queue,     \* the calls queued to each worker
    home,      \* the process each runtime lives in, NoProcess outside its life
    held,      \* the copy each runtime read last
    started,   \* the runtimes that have tried to claim
    now, by, accepted, lost    \* as in MemoryStore

file    == <<meta, rows, nodes, receipts>>
runtime == <<home, held, started>>
vars    == <<file, lock, worker, queue, runtime, now, by, accepted, lost>>

Nothing == [run |-> "none"]
Blank   == [p \in Paths |-> Absent]

Init ==
    /\ meta = NoOwner /\ lock = NoProcess
    /\ rows = [r \in Runs |-> NoRun]
    /\ nodes = [r \in Runs |-> Blank]
    /\ receipts = [k \in Keys |-> NoReceipt]
    /\ worker = [p \in Processes |-> NoOwner]
    /\ queue = [p \in Processes |-> <<>>]
    /\ home = [o \in Owners |-> NoProcess]
    /\ held = [o \in Owners |-> Nothing]
    /\ started = {} /\ now = 0 /\ by = NoOwner /\ lost = FALSE
    /\ accepted = [r \in Runs |-> NoIdent]

-----------------------------------------------------------------------------
(* query.rs *)

Columns(s) == [head |-> HeadOf(s), finished |-> s.finished]
Header(s)  == [s EXCEPT !.nodes = Blank]
RowOf(s)   == [revision |-> s.revision, columns |-> Columns(s), body |-> Header(s)]

Loaded(r) == [rows[r].body EXCEPT !.revision = rows[r].revision, !.nodes = nodes[r]]
RunOf(r)  == IF rows[r] = NoRun THEN NoRun ELSE Loaded(r)

(* The checks query::run makes before it trusts a run: anything else is
   store.corrupt. *)
Readable(r) ==
    LET row == rows[r] IN
    /\ row.body.state = row.columns.head.state
    /\ row.body.cancel = row.columns.head.cancel
    /\ row.body.finished = row.columns.finished
    /\ row.body.revision <= row.revision
    /\ HeadOf(Loaded(r)) = row.columns.head

Contract == INSTANCE Store WITH
    owner <- IF lock = NoProcess THEN NoOwner ELSE meta,
    runs  <- [r \in Runs |-> RunOf(r)]

-----------------------------------------------------------------------------
(* A runtime starts by queueing a claim under its fresh identity. *)
Room(p) == Len(queue[p]) < QueueCapacity
Send(p, job) == Room(p) /\ queue' = [queue EXCEPT ![p] = Append(@, job)]

Start(o, p) ==
    /\ o \notin started
    /\ Send(p, [op |-> "claim", owner |-> o])
    /\ started' = started \cup {o}
    /\ home' = [home EXCEPT ![o] = p]
    /\ UNCHANGED <<file, lock, worker, held, now, by, accepted, lost>>

Call(o, job) ==
    /\ home[o] # NoProcess /\ Send(home[o], job)
    /\ UNCHANGED <<file, lock, worker, runtime, now, by, accepted, lost>>

InBound(o) == held[o] # Nothing /\ held[o].snapshot.revision < MaxRevision

CallRelease(o) == Call(o, [op |-> "release", owner |-> o])
CallCollect(o) == Call(o, [op |-> "collect", owner |-> o, at |-> now])
CallCreate(o, r, k, q) ==
    Call(o, [op |-> "create", owner |-> o, run |-> r,
             ident |-> [key |-> k, request |-> q, born |-> now]])

(* What a commit sends follows from the copy and the time it was made of; no
   step looks at it before the worker does, so it is chosen there. *)
CallCommit(o) ==
    /\ InBound(o)
    /\ Call(o, [op |-> "commit", owner |-> o, run |-> held[o].run,
                base |-> held[o].snapshot, at |-> now])
CallNode(o) ==
    /\ InBound(o)
    /\ Call(o, [op |-> "node", owner |-> o, run |-> held[o].run,
                base |-> held[o].snapshot])

-----------------------------------------------------------------------------
(* The worker: claim takes the lock, then writes the owner row; write and
   read check its memory, then the row. *)

Job(p)  == queue[p][1]
Take(p) == queue[p] # <<>> /\ queue' = [queue EXCEPT ![p] = Tail(@)]

(* Mutant: the worker writes for whoever calls. *)
Authorized_Anyone(p, o) == lock = p /\ worker[p] # NoOwner

Authorized(p, o) == worker[p] = o /\ lock = p /\ meta = o

(* Mutant: the lock beside the file is not taken. *)
Claimable_Unlocked(p) == worker[p] = NoOwner

Claimable(p) == worker[p] = NoOwner /\ lock = NoProcess

Claim(p) ==
    /\ Take(p) /\ Job(p).op = "claim" /\ Claimable(p)
    /\ meta' = Job(p).owner
    /\ lock' = p
    /\ worker' = [worker EXCEPT ![p] = Job(p).owner]
    /\ UNCHANGED <<rows, nodes, receipts, runtime, now, by, accepted, lost>>

(* The claimant dropped its future: the same job releases. *)
ClaimAbandoned(p) ==
    /\ Take(p) /\ Job(p).op = "claim" /\ Claimable(p)
    /\ meta' = NoOwner
    /\ UNCHANGED <<rows, nodes, receipts, lock, worker, runtime, now, by, accepted, lost>>

(* Whatever becomes of the write, the lock and the connection are given up. *)
Release(p) ==
    /\ Take(p) /\ Job(p).op = "release" /\ worker[p] = Job(p).owner
    /\ meta' \in {NoOwner, meta}
    /\ lock' = NoProcess
    /\ worker' = [worker EXCEPT ![p] = NoOwner]
    /\ UNCHANGED <<rows, nodes, receipts, runtime, now, by, accepted, lost>>

Writes(p) == Take(p) /\ Authorized(p, Job(p).owner) /\ by' = Job(p).owner

(* A call refused, by ownership, by its own checks or by the disk, leaves the
   file as it was: its transaction is rolled back. *)
Refuse(p) == Take(p) /\ UNCHANGED <<file, lock, worker, runtime, now, by, accepted, lost>>

-----------------------------------------------------------------------------
Live(at)   == [k \in Keys |-> IF receipts[k] # NoReceipt /\ receipts[k].expires > at
                              THEN receipts[k] ELSE NoReceipt]
Count(rs)  == Cardinality({k \in Keys : rs[k] # NoReceipt})
Unfinished == {r \in Runs : rows[r] # NoRun /\ rows[r].columns.head.state \notin Terminal}

(* The receipt answers: the expired ones are dropped, and no run is made. *)
Duplicate(p) ==
    /\ Writes(p) /\ Job(p).op = "create"
    /\ LET ident == Job(p).ident IN
       /\ ident.key # NoKey
       /\ Live(ident.born)[ident.key] # NoReceipt
       /\ Live(ident.born)[ident.key].request = ident.request
       /\ receipts' = Live(ident.born)
    /\ UNCHANGED <<meta, rows, nodes, lock, worker, runtime, now, accepted, lost>>

Admits(ident) ==
    /\ ident.key # NoKey =>
          Live(ident.born)[ident.key] = NoReceipt /\ Count(Live(ident.born)) < ReceiptCount
    /\ Cardinality(Unfinished) < Capacity

Create(p) ==
    /\ Writes(p) /\ Job(p).op = "create"
    /\ LET ident == Job(p).ident
           r     == Job(p).run IN
       /\ Admits(ident)
       /\ rows[r] = NoRun /\ accepted[r] = NoIdent   \* a fresh UUID
       /\ rows' = [rows EXCEPT ![r] = RowOf(Initial(ident))]
       /\ nodes' = [nodes EXCEPT ![r] = Blank]
       /\ receipts' = IF ident.key = NoKey THEN Live(ident.born)
                      ELSE [Live(ident.born) EXCEPT ![ident.key] =
                            [run |-> r, request |-> ident.request, expires |-> ident.born + TTL]]
       /\ accepted' = [accepted EXCEPT ![r] = ident]
    /\ UNCHANGED <<meta, lock, worker, runtime, now, lost>>

Observe(job) == lost' = (lost \/ job.base # RunOf(job.run))

Commit(p) ==
    /\ Writes(p) /\ Job(p).op = "commit"
    /\ LET r == Job(p).run IN
       /\ rows[r] # NoRun /\ Readable(r)
       /\ \E t \in Edits(Job(p).base, Job(p).at) :
             /\ ValidSuccessor(Loaded(r), t)
             /\ rows' = [rows EXCEPT ![r] = RowOf(t)]
             /\ nodes' = [nodes EXCEPT ![r] = t.nodes]
    /\ Observe(Job(p))
    /\ UNCHANGED <<meta, receipts, lock, worker, runtime, now, accepted>>

(* Mutant: the counter of records is bumped by every write. *)
Recount_Always(r, p, rec) ==
    LET h == rows[r].columns.head IN
    [h EXCEPT !.revision = @ + 1, !.count = @ + 1,
              !.bytes = @ - nodes[r][p].bytes + rec.bytes,
              !.unresolved = Cardinality({q \in Paths : IsUnresolved(IF q = p THEN rec ELSE nodes[r][q])})]

(* The columns after one record is replaced, from the columns before. *)
Recount(r, p, rec) ==
    LET h == rows[r].columns.head
        old == nodes[r][p]
        bit(b) == IF b THEN 1 ELSE 0
    IN  [h EXCEPT !.revision = @ + 1,
                  !.count = @ + bit(old = Absent),
                  !.bytes = @ - old.bytes + rec.bytes,
                  !.unresolved = @ - bit(IsUnresolved(old)) + bit(IsUnresolved(rec))]

SameRevision(r, expected) == rows[r].revision = expected

CommitNode(p, path, rec) ==
    /\ Writes(p) /\ Job(p).op = "node"
    /\ LET r == Job(p).run IN
       /\ rows[r] # NoRun
       /\ SameRevision(r, Job(p).base.revision)
       /\ Replaceable(Loaded(r), path, rec)
       /\ rows' = [rows EXCEPT ![r].revision = @ + 1, ![r].columns.head = Recount(r, path, rec)]
       /\ nodes' = [nodes EXCEPT ![r][path] = rec]
    /\ Observe(Job(p))
    /\ UNCHANGED <<meta, receipts, lock, worker, runtime, now, accepted>>

Finished == {r \in Runs : rows[r] # NoRun /\ rows[r].columns.head.state \in Terminal}
Order    == CHOOSE f \in [Runs -> 1..Cardinality(Runs)] : \A q, r \in Runs : f[q] = f[r] => q = r
Later(q, r) == LET a == rows[q].columns.finished
                   b == rows[r].columns.finished IN a > b \/ (a = b /\ Order[q] > Order[r])
Surplus(r)  == Cardinality({q \in Finished : Later(q, r)}) >= TerminalRuns
Old(r, at)  == at - rows[r].columns.finished >= Retention

Collected(at) == {r \in Finished : Old(r, at) \/ Surplus(r)}

Collect(p) ==
    /\ Writes(p) /\ Job(p).op = "collect"
    /\ LET at == Job(p).at IN
       /\ receipts' = Live(at)
       /\ rows' = [r \in Runs |-> IF r \in Collected(at) THEN NoRun ELSE rows[r]]
       /\ nodes' = [r \in Runs |-> IF r \in Collected(at) THEN Blank ELSE nodes[r]]
    /\ UNCHANGED <<meta, lock, worker, runtime, now, accepted, lost>>

-----------------------------------------------------------------------------
(* A read is a transaction of the worker for its own owner. *)
Read(o, r) ==
    /\ home[o] # NoProcess
    /\ LET p == home[o] IN worker[p] # NoOwner /\ Authorized(p, worker[p])
    /\ rows[r] # NoRun /\ Readable(r)
    /\ held' = [held EXCEPT ![o] = [run |-> r, snapshot |-> Loaded(r)]]
    /\ UNCHANGED <<file, lock, worker, queue, home, started, now, by, accepted, lost>>

(* A process dies: the file is what was committed. *)
Crash(p) ==
    /\ \E o \in Owners : home[o] = p
    /\ worker' = [worker EXCEPT ![p] = NoOwner]
    /\ queue' = [queue EXCEPT ![p] = <<>>]
    /\ lock' = IF lock = p THEN NoProcess ELSE lock
    /\ home' = [o \in Owners |-> IF home[o] = p THEN NoProcess ELSE home[o]]
    /\ held' = [o \in Owners |-> IF home[o] = p THEN Nothing ELSE held[o]]
    /\ UNCHANGED <<file, started, now, by, accepted, lost>>

Tick == now < MaxTime /\ now' = now + 1
        /\ UNCHANGED <<file, lock, worker, queue, runtime, by, accepted, lost>>

Next ==
    \/ Tick
    \/ \E o \in Owners :
        \/ \E p \in Processes : Start(o, p)
        \/ CallRelease(o) \/ CallCollect(o) \/ CallCommit(o) \/ CallNode(o)
        \/ \E r \in Runs : Read(o, r)
        \/ \E r \in Runs, k \in Keys \cup {NoKey}, q \in Requests : CallCreate(o, r, k, q)
    \/ \E p \in Processes :
        \/ Claim(p) \/ ClaimAbandoned(p) \/ Release(p) \/ Refuse(p)
        \/ Duplicate(p) \/ Create(p) \/ Commit(p) \/ Collect(p) \/ Crash(p)
        \/ \E path \in Paths, rec \in Records : CommitNode(p, path, rec)

Spec == Init /\ [][Next]_vars

-----------------------------------------------------------------------------
(* Types of what the file and the processes hold. *)
TypeOK ==
    /\ meta \in Owners \cup {NoOwner} /\ by \in Owners \cup {NoOwner}
    /\ lock \in Processes \cup {NoProcess}
    /\ worker \in [Processes -> Owners \cup {NoOwner}]
    /\ home \in [Owners -> Processes \cup {NoProcess}]
    /\ nodes \in [Runs -> [Paths -> Record]]
    /\ \A r \in Runs : rows[r] # NoRun =>
          /\ Loaded(r) \in Snapshot
          /\ {rows[r].columns.head.bytes, rows[r].columns.head.count,
              rows[r].columns.head.unresolved} \subseteq Nat
    /\ receipts \in [Keys -> Receipt \cup {NoReceipt}]
    /\ \A p \in Processes : Len(queue[p]) <= QueueCapacity

(* No sequence of commits, whole or of one record, whose columns are updated
   one by one, leaves a run that query::run calls corrupt. *)
RowsReadable == \A r \in Runs : rows[r] # NoRun => Readable(r)

(* The three places an owner is written down agree: a worker acts for an owner
   only under the lock and with the owner row, whatever claims were abandoned,
   releases failed half-way and processes died. *)
OneWriter == \A p \in Processes : worker[p] # NoOwner => lock = p /\ meta = worker[p]

(* No write replaces a checkpoint its caller has not read, although calls are
   queued and outlive their callers. *)
NothingLost == ~lost

(* As in MemoryStore: until the time a receipt names, its key makes no second
   run, although a create carries the time of a start that has waited. *)
OneRunPerReceipt ==
    [][\A q, r \in Runs :
          /\ accepted[q] # NoIdent /\ accepted[q].key # NoKey
          /\ accepted[r] = NoIdent /\ accepted'[r] # NoIdent
          /\ accepted'[r].key = accepted[q].key
          => accepted[q].born + TTL <= now]_vars

(* Calls carried out after their caller gave up, crashes, claims and reloads
   included, the file is a store: loads of it only change as the contract
   allows, in the name of its owner of the moment. *)
MeetsContract == Contract!Spec
=============================================================================
