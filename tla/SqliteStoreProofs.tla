-------------------------- MODULE SqliteStoreProofs --------------------------
(***************************************************************************)
(* Proofs about SqliteStore, for any number of runs, runtimes, processes,  *)
(* receipt keys and paths, any limits and any length of queue: one process *)
(* writes, a row is never corrupt, no commit replaces what its caller has  *)
(* not read, and the file implements the store contract, crashes included. *)
(*                                                                         *)
(* The argument: the three places an owner is written down agree; a row's  *)
(* columns are the projection of the run it loads to; the copies that      *)
(* runtimes hold and queued calls carry are never ahead of that run, and   *)
(* are that run when their revisions agree.                                *)
(***************************************************************************)
EXTENDS SqliteStore, SnapshotsProofs

Copy == [run: Runs, snapshot: Snapshot]
Jobs == [op: {"claim", "release"}, owner: Owners]
        \cup [op: {"collect"}, owner: Owners, at: Nat]
        \cup [op: {"create"}, owner: Owners, run: Runs, ident: Ident]
        \cup [op: {"commit"}, owner: Owners, run: Runs, base: Snapshot, at: Nat]
        \cup [op: {"node"}, owner: Owners, run: Runs, base: Snapshot]

(* The types of the file, the processes and the calls. *)
FileInv ==
    /\ meta \in Owners \cup {NoOwner}
    /\ DOMAIN rows = Runs
    /\ nodes \in [Runs -> [Paths -> Record]]
    /\ receipts \in [Keys -> Receipt \cup {NoReceipt}]
TypeInv ==
    /\ lock \in Processes \cup {NoProcess}
    /\ worker \in [Processes -> Owners \cup {NoOwner}]
    /\ home \in [Owners -> Processes \cup {NoProcess}]
    /\ held \in [Owners -> Copy \cup {Nothing}]
    /\ now \in Nat
    /\ accepted \in [Runs -> Ident \cup {NoIdent}]

(* A held lock is held by a worker that acts for the owner of the file. *)
LockInv == lock # NoProcess => worker[lock] # NoOwner

(* A row: its columns are the projection of what it loads to. *)
RowOk(r) ==
    LET row == rows[r] IN
    /\ row = [revision |-> row.revision, body |-> row.body,
              columns |-> [head |-> HeadOf(Loaded(r)), finished |-> row.body.finished]]
    /\ row.body \in Snapshot /\ row.body.nodes = Blank
    /\ row.revision \in Nat /\ row.body.revision <= row.revision
    /\ WaitsHold(Loaded(r))
RowsInv == \A r \in Runs : rows[r] # NoRun => RowOk(r) /\ accepted[r] # NoIdent

(* A copy is what the run was at the copy's revision. *)
Follows(r, s) ==
    /\ accepted[r] # NoIdent
    /\ rows[r] # NoRun =>
          /\ s.revision <= rows[r].revision
          /\ s.revision = rows[r].revision => s = Loaded(r)
HeldInv == \A o \in Owners : held[o] # Nothing => Follows(held[o].run, held[o].snapshot)

(* A queued call: what it carries was read, and its time is past. *)
JobOk(job) ==
    /\ job.op = "create" => job.ident.born <= now
    /\ job.op = "collect" => job.at <= now
    /\ job.op \in {"commit", "node"} => Follows(job.run, job.base)
GoodJobs == {job \in Jobs : JobOk(job)}
QueueInv == queue \in [Processes -> Seq(GoodJobs)]

IInv == /\ FileInv /\ TypeInv /\ OneWriter /\ LockInv /\ RowsInv /\ HeldInv /\ QueueInv
        /\ NothingLost

-----------------------------------------------------------------------------
(* Values *)

LEMMA NothingIsNoCopy == Nothing \notin Copy
<1>1. \A c \in Copy : "snapshot" \in DOMAIN c
  BY DEF Copy
<1>2. "snapshot" \notin DOMAIN Nothing
  BY DEF Nothing
<1> QED
  BY <1>1, <1>2

LEMMA JobFields ==
    ASSUME NEW job \in Jobs
    PROVE  /\ job.owner \in Owners /\ job.owner # NoOwner
           /\ job.op = "collect" => job.at \in Nat
           /\ job.op = "create" => job.run \in Runs /\ job.ident \in Ident
           /\ job.op = "commit" => job.run \in Runs /\ job.base \in Snapshot /\ job.at \in Nat
           /\ job.op = "node" => job.run \in Runs /\ job.base \in Snapshot
<1>1. CASE job \in [op: {"claim", "release"}, owner: Owners]
  BY <1>1, SnapshotsAssumption
<1>2. CASE job \in [op: {"collect"}, owner: Owners, at: Nat]
  BY <1>2, SnapshotsAssumption
<1>3. CASE job \in [op: {"create"}, owner: Owners, run: Runs, ident: Ident]
  BY <1>3, SnapshotsAssumption
<1>4. CASE job \in [op: {"commit"}, owner: Owners, run: Runs, base: Snapshot, at: Nat]
  BY <1>4, SnapshotsAssumption
<1>5. CASE job \in [op: {"node"}, owner: Owners, run: Runs, base: Snapshot]
  BY <1>5, SnapshotsAssumption
<1> QED
  BY <1>1, <1>2, <1>3, <1>4, <1>5 DEF Jobs

LEMMA BlankTyped == Blank \in [Paths -> Record]
<1>1. Absent \in Record
  BY DEF Absent, Record, NodeStates, NodeKinds
<1> QED
  BY <1>1 DEF Blank

(* The run a row loads to. *)
LEMMA LoadedFields ==
    ASSUME FileInv, NEW r \in Runs, RowOk(r)
    PROVE  /\ Loaded(r) \in Snapshot /\ Loaded(r) # NoRun
           /\ Loaded(r).revision = rows[r].revision /\ Loaded(r).nodes = nodes[r]
           /\ Loaded(r).state = rows[r].body.state /\ Loaded(r).cancel = rows[r].body.cancel
           /\ Loaded(r).finished = rows[r].body.finished
<1> DEFINE b == rows[r].body
           v == rows[r].revision
           n == nodes[r]
<1>1. b \in Snapshot /\ v \in Nat /\ n \in [Paths -> Record]
  BY DEF RowOk, FileInv
<1>2. Loaded(r) = [b EXCEPT !.revision = v, !.nodes = n]
  BY DEF Loaded
<1> HIDE DEF b, v, n
<1>3. /\ Loaded(r) \in Snapshot
      /\ Loaded(r).revision = v /\ Loaded(r).nodes = n
      /\ Loaded(r).state = b.state /\ Loaded(r).cancel = b.cancel
      /\ Loaded(r).finished = b.finished
  BY <1>1, <1>2 DEF Snapshot
<1>4. Loaded(r) # NoRun
  BY <1>3, Absence
<1> QED
  BY <1>3, <1>4 DEF b, v, n

(* What a run that is stored whole loads to. *)
LEMMA StoredLoads ==
    ASSUME NEW t \in Snapshot
    PROVE  /\ [Header(t) EXCEPT !.revision = t.revision, !.nodes = t.nodes] = t
           /\ Header(t) \in Snapshot /\ Header(t).nodes = Blank
           /\ Header(t).revision = t.revision /\ Header(t).finished = t.finished
<1>1. Header(t) \in Snapshot /\ Header(t).nodes = Blank
      /\ Header(t).revision = t.revision /\ Header(t).finished = t.finished
  BY BlankTyped DEF Header, Snapshot
<1>2. [Header(t) EXCEPT !.revision = t.revision, !.nodes = t.nodes] = t
  BY BlankTyped DEF Header, Snapshot
<1> QED
  BY <1>1, <1>2

-----------------------------------------------------------------------------
(* Queues and copies *)

LEMMA SeqWidens ==
    ASSUME NEW S, NEW T, S \subseteq T, NEW f \in [Processes -> Seq(S)]
    PROVE  f \in [Processes -> Seq(T)]
  OBVIOUS

(* The job a worker takes, and the queue without it. *)
LEMMA Taken ==
    ASSUME IInv, NEW p \in Processes, Take(p)
    PROVE  /\ Job(p) \in Jobs /\ JobOk(Job(p))
           /\ queue' \in [Processes -> Seq(GoodJobs)]
<1>1. queue[p] \in Seq(GoodJobs) /\ queue[p] # <<>>
      /\ queue' = [queue EXCEPT ![p] = Tail(queue[p])]
  BY DEF IInv, QueueInv, Take
<1>2. Job(p) \in GoodJobs
  BY <1>1 DEF Job
<1>3. Tail(queue[p]) \in Seq(GoodJobs)
  BY <1>1
<1> HIDE DEF GoodJobs
<1>4. queue' \in [Processes -> Seq(GoodJobs)]
  BY <1>1, <1>3 DEF IInv, QueueInv
<1> QED
  BY <1>2, <1>4 DEF GoodJobs

(* A good call queued is one of a queue of good calls. *)
LEMMA Sent ==
    ASSUME IInv, NEW p \in Processes, NEW job \in Jobs, JobOk(job), Send(p, job)
    PROVE  queue' \in [Processes -> Seq(GoodJobs)]
<1>1. job \in GoodJobs
  BY DEF GoodJobs
<1>2. queue[p] \in Seq(GoodJobs) /\ queue' = [queue EXCEPT ![p] = Append(queue[p], job)]
  BY DEF IInv, QueueInv, Send
<1> HIDE DEF GoodJobs
<1>3. Append(queue[p], job) \in Seq(GoodJobs)
  BY <1>1, <1>2
<1> QED
  BY <1>2, <1>3 DEF IInv, QueueInv

(* What may become of the row of a run that was accepted. *)
Moves(r) ==
    \/ rows'[r] = rows[r] /\ nodes'[r] = nodes[r]
    \/ rows'[r] = NoRun
    \/ rows[r] # NoRun /\ rows'[r].revision = rows[r].revision + 1

LEMMA FollowsKeeps ==
    ASSUME IInv, NEW r \in Runs, NEW s \in Snapshot, Follows(r, s),
           accepted'[r] # NoIdent, Moves(r)
    PROVE  Follows(r, s)'
<1>1. s.revision \in Nat /\ (rows[r] # NoRun => rows[r].revision \in Nat)
  BY SnapshotFields DEF IInv, RowsInv, RowOk
<1>2. CASE rows'[r] = rows[r] /\ nodes'[r] = nodes[r]
  BY <1>2 DEF Follows, Loaded
<1>3. CASE rows'[r] = NoRun
  BY <1>3 DEF Follows
<1>4. CASE rows[r] # NoRun /\ rows'[r].revision = rows[r].revision + 1
  BY <1>1, <1>4 DEF Follows
<1> QED
  BY <1>2, <1>3, <1>4 DEF Moves

LEMMA CopiesKeep ==
    ASSUME IInv, now' \in Nat, now' >= now, held' = held,
           queue' \in [Processes -> Seq(GoodJobs)],
           \A r \in Runs : accepted[r] # NoIdent => accepted'[r] # NoIdent /\ Moves(r)
    PROVE  HeldInv' /\ QueueInv'
<1>1. \A r \in Runs, s \in Snapshot : Follows(r, s) => Follows(r, s)'
  <2> SUFFICES ASSUME NEW r \in Runs, NEW s \in Snapshot, Follows(r, s)
               PROVE  Follows(r, s)'
    OBVIOUS
  <2>1. accepted[r] # NoIdent
    BY DEF Follows
  <2> QED
    BY <2>1, FollowsKeeps
<1>2. HeldInv'
  <2>1. \A o \in Owners : held[o] # Nothing => held[o].run \in Runs /\ held[o].snapshot \in Snapshot
    BY DEF IInv, TypeInv, Copy
  <2> QED
    BY <1>1, <2>1 DEF IInv, HeldInv
<1>3. ASSUME NEW job \in Jobs, JobOk(job)
      PROVE  JobOk(job)'
  <2>1. now \in Nat
    BY DEF IInv, TypeInv
  <2>2. job.op = "create" => job.ident.born \in Nat
    BY JobFields DEF Ident
  <2>3. job.op = "collect" => job.at \in Nat
    BY JobFields
  <2>4. job.op \in {"commit", "node"} => job.run \in Runs /\ job.base \in Snapshot
    BY JobFields
  <2>5. job.op = "create" => job.ident.born <= now'
    BY <1>3, <2>1, <2>2 DEF JobOk
  <2>6. job.op = "collect" => job.at <= now'
    BY <1>3, <2>1, <2>3 DEF JobOk
  <2>7. job.op \in {"commit", "node"} => Follows(job.run, job.base)'
    BY <1>1, <1>3, <2>4 DEF JobOk
  <2> QED
    BY <2>5, <2>6, <2>7 DEF JobOk
<1>4. GoodJobs \subseteq GoodJobs'
  BY <1>3 DEF GoodJobs, Jobs
<1>5. QueueInv'
  BY <1>4, SeqWidens DEF QueueInv
<1> QED
  BY <1>2, <1>5

-----------------------------------------------------------------------------
(* The invariant: calls, and what leaves the runs alone *)

(* What does not write runs keeps what is said of them. *)
LEMMA RunsKept ==
    ASSUME IInv, UNCHANGED <<rows, nodes, accepted, lost>>, now' \in Nat, now' >= now
    PROVE  /\ RowsInv' /\ NothingLost'
           /\ held' = held /\ queue' \in [Processes -> Seq(GoodJobs)] => HeldInv' /\ QueueInv'
<1>1. RowsInv' /\ NothingLost'
  BY DEF IInv, RowsInv, RowOk, Loaded, NothingLost
<1>2. \A r \in Runs : accepted[r] # NoIdent => accepted'[r] # NoIdent /\ Moves(r)
  BY DEF Moves
<1> QED
  BY <1>1, <1>2, CopiesKeep

LEMMA CallKeeps ==
    ASSUME IInv, NEW o \in Owners, NEW job \in Jobs, JobOk(job), Call(o, job)
    PROVE  IInv'
<1>1. home[o] \in Processes /\ Send(home[o], job)
      /\ UNCHANGED <<file, lock, worker, runtime, now, by, accepted, lost>>
  BY DEF Call, IInv, TypeInv
<1>2. queue' \in [Processes -> Seq(GoodJobs)]
  BY <1>1, Sent
<1>3. now \in Nat /\ now' = now /\ held' = held /\ UNCHANGED <<rows, nodes, accepted, lost>>
  BY <1>1 DEF IInv, TypeInv, file, runtime
<1>4. RowsInv' /\ NothingLost' /\ HeldInv' /\ QueueInv'
  BY <1>2, <1>3, RunsKept
<1>5. FileInv' /\ TypeInv' /\ OneWriter' /\ LockInv'
  BY <1>1 DEF IInv, FileInv, TypeInv, OneWriter, LockInv, file, runtime
<1> QED
  BY <1>4, <1>5 DEF IInv

LEMMA CallsKeep ==
    ASSUME IInv, NEW o \in Owners,
           \/ CallRelease(o) \/ CallCollect(o) \/ CallCommit(o) \/ CallNode(o)
           \/ \E r \in Runs, k \in Keys \cup {NoKey}, q \in Requests : CallCreate(o, r, k, q)
    PROVE  IInv'
<1>0. now \in Nat
  BY DEF IInv, TypeInv
<1>1. CASE CallRelease(o)
  <2>1. [op |-> "release", owner |-> o] \in Jobs
    BY DEF Jobs
  <2>2. JobOk([op |-> "release", owner |-> o])
    BY DEF JobOk
  <2> QED
    BY <1>1, <2>1, <2>2, CallKeeps DEF CallRelease
<1>2. CASE CallCollect(o)
  <2>1. [op |-> "collect", owner |-> o, at |-> now] \in Jobs
    BY <1>0 DEF Jobs
  <2>2. JobOk([op |-> "collect", owner |-> o, at |-> now])
    BY <1>0 DEF JobOk
  <2> QED
    BY <1>2, <2>1, <2>2, CallKeeps DEF CallCollect
<1>3. CASE CallCommit(o)
  <2> DEFINE job == [op |-> "commit", owner |-> o, run |-> held[o].run,
                     base |-> held[o].snapshot, at |-> now]
  <2>1. held[o] # Nothing /\ Call(o, job)
    BY <1>3 DEF CallCommit, InBound
  <2>2. held[o].run \in Runs /\ held[o].snapshot \in Snapshot
    BY <2>1 DEF IInv, TypeInv, Copy
  <2>3. Follows(held[o].run, held[o].snapshot)
    BY <2>1 DEF IInv, HeldInv
  <2>4. job \in Jobs
    BY <1>0, <2>2 DEF Jobs
  <2>5. JobOk(job)
    BY <2>3 DEF JobOk
  <2> QED
    BY <2>1, <2>4, <2>5, CallKeeps
<1>4. CASE CallNode(o)
  <2> DEFINE job == [op |-> "node", owner |-> o, run |-> held[o].run,
                     base |-> held[o].snapshot]
  <2>1. held[o] # Nothing /\ Call(o, job)
    BY <1>4 DEF CallNode, InBound
  <2>2. held[o].run \in Runs /\ held[o].snapshot \in Snapshot
    BY <2>1 DEF IInv, TypeInv, Copy
  <2>3. Follows(held[o].run, held[o].snapshot)
    BY <2>1 DEF IInv, HeldInv
  <2>4. job \in Jobs
    BY <2>2 DEF Jobs
  <2>5. JobOk(job)
    BY <2>3 DEF JobOk
  <2> QED
    BY <2>1, <2>4, <2>5, CallKeeps
<1>5. ASSUME NEW r \in Runs, NEW k \in Keys \cup {NoKey}, NEW q \in Requests,
             CallCreate(o, r, k, q)
      PROVE  IInv'
  <2> DEFINE ident == [key |-> k, request |-> q, born |-> now]
             job == [op |-> "create", owner |-> o, run |-> r, ident |-> ident]
  <2>1. ident \in Ident /\ ident.born <= now
    BY <1>0 DEF Ident
  <2> HIDE DEF ident
  <2>2. job \in Jobs /\ JobOk(job)
    BY <2>1 DEF Jobs, JobOk
  <2>3. Call(o, job)
    BY <1>5 DEF CallCreate, ident
  <2> QED
    BY <2>2, <2>3, CallKeeps
<1> QED
  BY <1>1, <1>2, <1>3, <1>4, <1>5

LEMMA StartKeeps ==
    ASSUME IInv, NEW o \in Owners, NEW p \in Processes, Start(o, p)
    PROVE  IInv'
<1>1. /\ Send(p, [op |-> "claim", owner |-> o]) /\ home' = [home EXCEPT ![o] = p]
      /\ UNCHANGED <<file, lock, worker, held, now, by, accepted, lost>>
  BY DEF Start
<1>2. [op |-> "claim", owner |-> o] \in Jobs /\ JobOk([op |-> "claim", owner |-> o])
  BY DEF Jobs, JobOk
<1>3. queue' \in [Processes -> Seq(GoodJobs)]
  BY <1>1, <1>2, Sent
<1>4. now \in Nat /\ now' = now /\ held' = held /\ UNCHANGED <<rows, nodes, accepted, lost>>
  BY <1>1 DEF IInv, TypeInv, file
<1>5. RowsInv' /\ NothingLost' /\ HeldInv' /\ QueueInv'
  BY <1>3, <1>4, RunsKept
<1>6. FileInv' /\ TypeInv' /\ OneWriter' /\ LockInv'
  BY <1>1 DEF IInv, FileInv, TypeInv, OneWriter, LockInv, file
<1> QED
  BY <1>5, <1>6 DEF IInv

(* Claims and releases move the lock, the owner row and the worker together. *)
LEMMA OwnershipKeeps ==
    ASSUME IInv, NEW p \in Processes, Claim(p) \/ ClaimAbandoned(p) \/ Release(p)
    PROVE  IInv'
<1>1. /\ Take(p) /\ UNCHANGED <<rows, nodes, receipts, runtime, now, by, accepted, lost>>
  BY DEF Claim, ClaimAbandoned, Release
<1>2. /\ Job(p).owner \in Owners /\ Job(p).owner # NoOwner
      /\ queue' \in [Processes -> Seq(GoodJobs)]
  BY <1>1, Taken, JobFields
<1>3. now \in Nat /\ now' = now /\ held' = held /\ UNCHANGED <<rows, nodes, accepted, lost>>
  BY <1>1 DEF IInv, TypeInv, runtime
<1>4. RowsInv' /\ NothingLost' /\ HeldInv' /\ QueueInv'
  BY <1>2, <1>3, RunsKept
<1>5. lock = NoProcess => \A q \in Processes : worker[q] = NoOwner
  BY SqliteAssumption DEF IInv, OneWriter
<1>6. CASE Claim(p)
  <2>1. /\ lock = NoProcess /\ meta' = Job(p).owner /\ lock' = p
        /\ worker' = [worker EXCEPT ![p] = Job(p).owner]
    BY <1>6 DEF Claim, Claimable
  <2>2. FileInv' /\ TypeInv'
    BY <1>1, <1>2, <2>1 DEF IInv, FileInv, TypeInv, runtime
  <2>3. OneWriter' /\ LockInv'
    BY <1>2, <1>5, <2>1 DEF IInv, TypeInv, OneWriter, LockInv
  <2> QED
    BY <1>4, <2>2, <2>3 DEF IInv
<1>7. CASE ClaimAbandoned(p)
  <2>1. lock = NoProcess /\ meta' = NoOwner /\ UNCHANGED <<lock, worker>>
    BY <1>7 DEF ClaimAbandoned, Claimable
  <2>2. FileInv' /\ TypeInv'
    BY <1>1, <2>1 DEF IInv, FileInv, TypeInv, runtime
  <2>3. OneWriter' /\ LockInv'
    BY <1>5, <2>1 DEF OneWriter, LockInv
  <2> QED
    BY <1>4, <2>2, <2>3 DEF IInv
<1>8. CASE Release(p)
  <2>1. /\ worker[p] = Job(p).owner /\ meta' \in {NoOwner, meta} /\ lock' = NoProcess
        /\ worker' = [worker EXCEPT ![p] = NoOwner]
    BY <1>8 DEF Release
  <2>2. FileInv' /\ TypeInv'
    BY <1>1, <2>1 DEF IInv, FileInv, TypeInv, runtime
  <2>3. \A q \in Processes : worker[q] # NoOwner => q = p
    BY <1>2, <2>1 DEF IInv, OneWriter
  <2>4. OneWriter' /\ LockInv'
    BY <2>1, <2>3 DEF IInv, TypeInv, OneWriter, LockInv
  <2> QED
    BY <1>4, <2>2, <2>4 DEF IInv
<1> QED
  BY <1>6, <1>7, <1>8

LEMMA RefuseKeeps ==
    ASSUME IInv, NEW p \in Processes, Refuse(p)
    PROVE  IInv'
<1>1. Take(p) /\ UNCHANGED <<file, lock, worker, runtime, now, by, accepted, lost>>
  BY DEF Refuse
<1>2. queue' \in [Processes -> Seq(GoodJobs)]
  BY <1>1, Taken
<1>3. now \in Nat /\ now' = now /\ held' = held /\ UNCHANGED <<rows, nodes, accepted, lost>>
  BY <1>1 DEF IInv, TypeInv, file, runtime
<1>4. RowsInv' /\ NothingLost' /\ HeldInv' /\ QueueInv'
  BY <1>2, <1>3, RunsKept
<1>5. FileInv' /\ TypeInv' /\ OneWriter' /\ LockInv'
  BY <1>1 DEF IInv, FileInv, TypeInv, OneWriter, LockInv, file, runtime
<1> QED
  BY <1>4, <1>5 DEF IInv

LEMMA TickKeeps ==
    ASSUME IInv, Tick
    PROVE  IInv'
<1>1. now \in Nat /\ now' = now + 1
      /\ UNCHANGED <<file, lock, worker, queue, runtime, by, accepted, lost>>
  BY DEF Tick, IInv, TypeInv
<1>2. now' \in Nat /\ now' >= now /\ held' = held /\ UNCHANGED <<rows, nodes, accepted, lost>>
      /\ queue' \in [Processes -> Seq(GoodJobs)]
  BY <1>1 DEF IInv, QueueInv, file, runtime
<1>3. RowsInv' /\ NothingLost' /\ HeldInv' /\ QueueInv'
  BY <1>2, RunsKept
<1>4. FileInv' /\ TypeInv' /\ OneWriter' /\ LockInv'
  BY <1>1, <1>2 DEF IInv, FileInv, TypeInv, OneWriter, LockInv, file, runtime
<1> QED
  BY <1>3, <1>4 DEF IInv

LEMMA ReadKeeps ==
    ASSUME IInv, NEW o \in Owners, NEW r \in Runs, Read(o, r)
    PROVE  IInv'
<1>1. /\ rows[r] # NoRun /\ held' = [held EXCEPT ![o] = [run |-> r, snapshot |-> Loaded(r)]]
      /\ UNCHANGED <<file, lock, worker, queue, home, started, now, by, accepted, lost>>
  BY DEF Read
<1>2. RowOk(r) /\ accepted[r] # NoIdent
  BY <1>1 DEF IInv, RowsInv
<1>3. Loaded(r) \in Snapshot /\ Loaded(r).revision = rows[r].revision
  BY <1>2, LoadedFields DEF IInv
<1>4. rows[r].revision \in Nat
  BY <1>2 DEF RowOk
<1>5. Follows(r, Loaded(r))
  BY <1>2, <1>3, <1>4 DEF Follows
<1>6. now \in Nat /\ now' = now /\ UNCHANGED <<rows, nodes, accepted, lost>>
      /\ queue' \in [Processes -> Seq(GoodJobs)]
  BY <1>1 DEF IInv, TypeInv, QueueInv, file
<1>7. RowsInv' /\ NothingLost'
  BY <1>6, RunsKept
<1>8. QueueInv'
  BY <1>1, <1>6 DEF QueueInv, GoodJobs, JobOk, Follows, Loaded
<1>9. HeldInv'
  <2> SUFFICES ASSUME NEW h \in Owners, held'[h] # Nothing
               PROVE  Follows(held'[h].run, held'[h].snapshot)
    BY <1>6 DEF HeldInv, Follows, Loaded
  <2> DEFINE s == Loaded(r)
  <2> HIDE DEF s
  <2>1. CASE h = o
    <3>1. held'[h] = [run |-> r, snapshot |-> s]
      BY <1>1, <2>1 DEF IInv, TypeInv, s
    <3>2. held'[h].run = r /\ held'[h].snapshot = s
      BY <3>1
    <3> QED
      BY <1>5, <3>2 DEF s
  <2>2. CASE h # o
    BY <1>1, <2>2 DEF IInv, TypeInv, HeldInv
  <2> QED
    BY <2>1, <2>2
<1>10. FileInv' /\ OneWriter' /\ LockInv'
  BY <1>1 DEF IInv, FileInv, OneWriter, LockInv, file
<1>11. TypeInv'
  <2>1. [run |-> r, snapshot |-> Loaded(r)] \in Copy
    BY <1>3 DEF Copy
  <2> QED
    BY <1>1, <2>1 DEF IInv, TypeInv, file
<1> QED
  BY <1>7, <1>8, <1>9, <1>10, <1>11 DEF IInv

(* A process that dies takes its queue, its copies and its lock with it. *)
LEMMA CrashKeeps ==
    ASSUME IInv, NEW p \in Processes, Crash(p)
    PROVE  IInv'
<1>1. /\ worker' = [worker EXCEPT ![p] = NoOwner]
      /\ queue' = [queue EXCEPT ![p] = <<>>]
      /\ lock' = IF lock = p THEN NoProcess ELSE lock
      /\ home' = [o \in Owners |-> IF home[o] = p THEN NoProcess ELSE home[o]]
      /\ held' = [o \in Owners |-> IF home[o] = p THEN Nothing ELSE held[o]]
      /\ UNCHANGED <<file, started, now, by, accepted, lost>>
  BY DEF Crash
<1>2. now \in Nat /\ now' = now /\ UNCHANGED <<rows, nodes, accepted, lost>>
  BY <1>1 DEF IInv, TypeInv, file
<1>3. RowsInv' /\ NothingLost'
  BY <1>2, RunsKept
<1>4. QueueInv'
  <2>1. queue' \in [Processes -> Seq(GoodJobs)]
    BY <1>1 DEF IInv, QueueInv
  <2> QED
    BY <1>2, <2>1 DEF QueueInv, GoodJobs, JobOk, Follows, Loaded
<1>5. HeldInv'
  <2>1. \A o \in Owners : held'[o] # Nothing => held'[o] = held[o]
    BY <1>1
  <2> QED
    BY <1>2, <2>1 DEF IInv, HeldInv, Follows, Loaded
<1>6. FileInv'
  BY <1>1 DEF IInv, FileInv, file
<1>7. TypeInv'
  BY <1>1, <1>2 DEF IInv, TypeInv
<1>8. OneWriter' /\ LockInv'
  BY <1>1, SqliteAssumption DEF IInv, TypeInv, OneWriter, LockInv, file
<1> QED
  BY <1>3, <1>4, <1>5, <1>6, <1>7, <1>8 DEF IInv

-----------------------------------------------------------------------------
(* The invariant: transactions that write *)

(* Dropping what has expired leaves receipts. *)
LEMMA LiveTyped ==
    ASSUME FileInv, NEW at \in Nat
    PROVE  /\ Live(at) \in [Keys -> Receipt \cup {NoReceipt}]
           /\ \A k \in Keys : \/ Live(at)[k] = receipts[k]
                              \/ /\ Live(at)[k] = NoReceipt /\ receipts[k] # NoReceipt
                                 /\ receipts[k].expires <= at
<1>1. Live(at) \in [Keys -> Receipt \cup {NoReceipt}]
  BY DEF Live, FileInv
<1>2. ASSUME NEW k \in Keys
      PROVE  \/ Live(at)[k] = receipts[k]
             \/ /\ Live(at)[k] = NoReceipt /\ receipts[k] # NoReceipt
                /\ receipts[k].expires <= at
  <2>1. receipts[k] = NoReceipt \/ receipts[k].expires \in Nat
    BY DEF FileInv, Receipt
  <2> QED
    BY <2>1 DEF Live, FileInv
<1> QED
  BY <1>1, <1>2

LEMMA RowKept ==
    ASSUME NEW r \in Runs, RowOk(r), rows'[r] = rows[r], nodes'[r] = nodes[r]
    PROVE  RowOk(r)' /\ Loaded(r)' = Loaded(r)
<1>1. Loaded(r)' = Loaded(r)
  BY DEF Loaded
<1> QED
  BY <1>1 DEF RowOk

LEMMA WritesMeans ==
    ASSUME IInv, NEW p \in Processes, Writes(p)
    PROVE  /\ Job(p) \in Jobs /\ JobOk(Job(p)) /\ queue' \in [Processes -> Seq(GoodJobs)]
           /\ lock = p /\ meta = Job(p).owner /\ meta # NoOwner /\ by' = meta
<1>1. Take(p) /\ worker[p] = Job(p).owner /\ lock = p /\ meta = Job(p).owner
      /\ by' = Job(p).owner
  BY DEF Writes, Authorized
<1> QED
  BY <1>1, Taken, JobFields

LEMMA DuplicateKeeps ==
    ASSUME IInv, NEW p \in Processes, Duplicate(p)
    PROVE  IInv'
<1>1. /\ Writes(p) /\ Job(p).op = "create" /\ receipts' = Live(Job(p).ident.born)
      /\ UNCHANGED <<meta, rows, nodes, lock, worker, runtime, now, accepted, lost>>
  BY DEF Duplicate
<1>2. Job(p) \in Jobs /\ queue' \in [Processes -> Seq(GoodJobs)]
  BY <1>1, WritesMeans
<1>3. Job(p).ident.born \in Nat
  BY <1>1, <1>2, JobFields DEF Ident
<1>4. now \in Nat /\ now' = now /\ held' = held /\ UNCHANGED <<rows, nodes, accepted, lost>>
  BY <1>1 DEF IInv, TypeInv, runtime
<1>5. RowsInv' /\ NothingLost' /\ HeldInv' /\ QueueInv'
  BY <1>2, <1>4, RunsKept
<1>6. FileInv'
  BY <1>1, <1>3, LiveTyped DEF IInv, FileInv
<1>7. TypeInv' /\ OneWriter' /\ LockInv'
  BY <1>1 DEF IInv, TypeInv, OneWriter, LockInv, runtime
<1> QED
  BY <1>5, <1>6, <1>7 DEF IInv

(* A run stored whole: its row, and what it loads to. *)
LEMMA StoredRow ==
    ASSUME NEW r \in Runs, NEW t \in Snapshot, WaitsHold(t),
           rows'[r] = RowOf(t), nodes'[r] = t.nodes
    PROVE  /\ rows'[r] # NoRun /\ rows'[r].revision = t.revision
           /\ Loaded(r)' = t /\ RowOk(r)'
<1> DEFINE row == [revision |-> t.revision,
                   columns |-> [head |-> HeadOf(t), finished |-> t.finished],
                   body |-> Header(t)]
<1>1. rows'[r] = row
  BY DEF RowOf, Columns
<1>2. /\ row.revision = t.revision /\ row.body = Header(t)
      /\ row.columns = [head |-> HeadOf(t), finished |-> t.finished]
  OBVIOUS
<1>3. t.revision \in Nat
  BY SnapshotFields
<1>4. /\ [Header(t) EXCEPT !.revision = t.revision, !.nodes = t.nodes] = t
      /\ Header(t) \in Snapshot /\ Header(t).nodes = Blank
      /\ Header(t).revision = t.revision /\ Header(t).finished = t.finished
  BY StoredLoads
<1>5. row # NoRun
  <2>1. "body" \in DOMAIN row /\ "body" \notin DOMAIN NoRun
    BY DEF NoRun
  <2> QED
    BY <2>1
<1>6. Loaded(r)' = t
  BY <1>1, <1>2, <1>4 DEF Loaded
<1>7. row = [revision |-> row.revision, body |-> row.body,
             columns |-> [head |-> HeadOf(t), finished |-> row.body.finished]]
  BY <1>4
<1> HIDE DEF row
<1>8. RowOk(r)'
  BY <1>1, <1>2, <1>3, <1>4, <1>6, <1>7 DEF RowOk
<1> QED
  BY <1>1, <1>2, <1>5, <1>6, <1>8

(* What acceptance does to the file: the run appears, with its receipt. *)
Accepts(p, r, ident) ==
    /\ Writes(p) /\ Job(p).op = "create" /\ r = Job(p).run /\ ident = Job(p).ident
    /\ ident.born <= now /\ Admits(ident) /\ rows[r] = NoRun /\ accepted[r] = NoIdent
    /\ receipts' = IF ident.key = NoKey THEN Live(ident.born)
                   ELSE [Live(ident.born) EXCEPT ![ident.key] =
                         [run |-> r, request |-> ident.request, expires |-> ident.born + TTL]]
    /\ accepted' = [accepted EXCEPT ![r] = ident]
    /\ DOMAIN rows' = Runs /\ nodes' \in [Runs -> [Paths -> Record]]
    /\ Loaded(r)' = Initial(ident) /\ RowOk(r)' /\ rows'[r] # NoRun
    /\ \A q \in Runs \ {r} : rows'[q] = rows[q] /\ nodes'[q] = nodes[q]
    /\ UNCHANGED <<meta, lock, worker, runtime, now, lost>>

LEMMA CreateMeans ==
    ASSUME IInv, NEW p \in Processes, Create(p)
    PROVE  \E r \in Runs, ident \in Ident : Accepts(p, r, ident)
<1>1. Writes(p) /\ Job(p).op = "create"
  BY DEF Create
<1>2. Job(p) \in Jobs /\ JobOk(Job(p))
  BY <1>1, WritesMeans
<1>3. PICK r \in Runs, ident \in Ident : r = Job(p).run /\ ident = Job(p).ident
  BY <1>1, <1>2, JobFields
<1>4. /\ Admits(ident) /\ rows[r] = NoRun /\ accepted[r] = NoIdent
      /\ rows' = [rows EXCEPT ![r] = RowOf(Initial(ident))]
      /\ nodes' = [nodes EXCEPT ![r] = Blank]
      /\ receipts' = IF ident.key = NoKey THEN Live(ident.born)
                     ELSE [Live(ident.born) EXCEPT ![ident.key] =
                           [run |-> r, request |-> ident.request, expires |-> ident.born + TTL]]
      /\ accepted' = [accepted EXCEPT ![r] = ident]
      /\ UNCHANGED <<meta, lock, worker, runtime, now, lost>>
  BY <1>3 DEF Create
<1>5. ident.born <= now
  BY <1>1, <1>2, <1>3 DEF JobOk
<1>6. /\ DOMAIN rows' = Runs /\ nodes' \in [Runs -> [Paths -> Record]]
      /\ rows'[r] = RowOf(Initial(ident)) /\ nodes'[r] = Blank
      /\ \A q \in Runs \ {r} : rows'[q] = rows[q] /\ nodes'[q] = nodes[q]
  BY <1>4, BlankTyped DEF IInv, FileInv
<1>7. Initial(ident) \in Snapshot /\ WaitsHold(Initial(ident)) /\ Initial(ident).nodes = Blank
  BY InitialTyped DEF Initial, Blank
<1>8. Loaded(r)' = Initial(ident) /\ RowOk(r)' /\ rows'[r] # NoRun
  BY <1>6, <1>7, StoredRow
<1>9. Accepts(p, r, ident)
  BY <1>1, <1>3, <1>4, <1>5, <1>6, <1>8 DEF Accepts
<1> QED
  BY <1>9

LEMMA CreateKeeps ==
    ASSUME IInv, NEW p \in Processes, Create(p)
    PROVE  IInv'
<1>0. PICK r \in Runs, ident \in Ident : Accepts(p, r, ident)
  BY CreateMeans
<1> DEFINE receipt == [run |-> r, request |-> ident.request, expires |-> ident.born + TTL]
<1>1. /\ Writes(p) /\ accepted[r] = NoIdent
      /\ receipts' = IF ident.key = NoKey THEN Live(ident.born)
                     ELSE [Live(ident.born) EXCEPT ![ident.key] = receipt]
      /\ accepted' = [accepted EXCEPT ![r] = ident]
      /\ DOMAIN rows' = Runs /\ nodes' \in [Runs -> [Paths -> Record]]
      /\ RowOk(r)'
      /\ \A q \in Runs \ {r} : rows'[q] = rows[q] /\ nodes'[q] = nodes[q]
      /\ UNCHANGED <<meta, lock, worker, runtime, now, lost>>
  BY <1>0 DEF Accepts
<1>2. accepted'[r] # NoIdent /\ \A q \in Runs \ {r} : accepted'[q] = accepted[q]
  BY <1>1, Absence DEF IInv, TypeInv
<1>3. FileInv'
  <2>1. ident.born \in Nat /\ ident.request \in Requests /\ TTL \in Nat
    BY SnapshotsAssumption DEF Ident
  <2>2. receipt \in Receipt
    BY <2>1 DEF Receipt
  <2> HIDE DEF receipt
  <2>3. Live(ident.born) \in [Keys -> Receipt \cup {NoReceipt}]
    BY <2>1, LiveTyped DEF IInv
  <2>4. receipts' \in [Keys -> Receipt \cup {NoReceipt}]
    BY <1>1, <2>2, <2>3
  <2> QED
    BY <1>1, <2>4 DEF IInv, FileInv
<1>4. TypeInv' /\ OneWriter' /\ LockInv' /\ NothingLost'
  BY <1>1 DEF IInv, TypeInv, OneWriter, LockInv, NothingLost, runtime
<1>5. RowsInv'
  <2> SUFFICES ASSUME NEW q \in Runs, rows'[q] # NoRun
               PROVE  RowOk(q)' /\ accepted'[q] # NoIdent
    BY DEF RowsInv
  <2>1. CASE q = r
    BY <1>1, <1>2, <2>1
  <2>2. CASE q # r
    <3>1. rows'[q] = rows[q] /\ nodes'[q] = nodes[q] /\ accepted'[q] = accepted[q]
      BY <1>1, <1>2, <2>2
    <3> QED
      BY <3>1, RowKept DEF IInv, RowsInv
  <2> QED
    BY <2>1, <2>2
<1>6. HeldInv' /\ QueueInv'
  <2>1. \A q \in Runs : accepted[q] # NoIdent => accepted'[q] # NoIdent /\ Moves(q)
    BY <1>1, <1>2 DEF Moves
  <2>2. queue' \in [Processes -> Seq(GoodJobs)] /\ now' \in Nat /\ now' >= now /\ held' = held
    BY <1>1, WritesMeans DEF IInv, TypeInv, runtime
  <2> QED
    BY <2>1, <2>2, CopiesKeep
<1> QED
  BY <1>3, <1>4, <1>5, <1>6 DEF IInv

(* What both commits do to the file: one run becomes a legal successor. *)
Rewrites(p, r, t) ==
    /\ Writes(p) /\ Job(p).op \in {"commit", "node"} /\ r = Job(p).run
    /\ rows[r] # NoRun /\ rows'[r] # NoRun /\ rows'[r].revision = t.revision
    /\ DOMAIN rows' = Runs /\ nodes' \in [Runs -> [Paths -> Record]]
    /\ ValidSuccessor(Loaded(r), t) /\ t.revision = Job(p).base.revision + 1
    /\ Loaded(r)' = t /\ RowOk(r)'
    /\ \A q \in Runs \ {r} : rows'[q] = rows[q] /\ nodes'[q] = nodes[q]
    /\ Observe(Job(p))
    /\ UNCHANGED <<meta, receipts, lock, worker, runtime, now, accepted>>

LEMMA CommitMeans ==
    ASSUME IInv, NEW p \in Processes, Commit(p)
    PROVE  \E r \in Runs, t \in Snapshot : Rewrites(p, r, t)
<1>1. Writes(p) /\ Job(p).op = "commit"
  BY DEF Commit
<1>2. Job(p) \in Jobs
  BY <1>1, WritesMeans
<1>3. PICK r \in Runs : r = Job(p).run
  BY <1>1, <1>2, JobFields
<1>4. /\ rows[r] # NoRun /\ Observe(Job(p))
      /\ UNCHANGED <<meta, receipts, lock, worker, runtime, now, accepted>>
  BY <1>3 DEF Commit
<1>5. PICK t \in Edits(Job(p).base, Job(p).at) :
          /\ ValidSuccessor(Loaded(r), t)
          /\ rows' = [rows EXCEPT ![r] = RowOf(t)]
          /\ nodes' = [nodes EXCEPT ![r] = t.nodes]
  BY <1>3 DEF Commit
<1>6. t \in Snapshot /\ t.revision = Job(p).base.revision + 1
  BY <1>1, <1>2, JobFields, EditsTyped
<1>7. t.nodes \in [Paths -> Record]
  BY <1>6, SnapshotFields
<1>8. /\ rows'[r] = RowOf(t) /\ nodes'[r] = t.nodes /\ DOMAIN rows' = Runs
      /\ nodes' \in [Runs -> [Paths -> Record]]
      /\ \A q \in Runs \ {r} : rows'[q] = rows[q] /\ nodes'[q] = nodes[q]
  BY <1>5, <1>7 DEF IInv, FileInv
<1>9. WaitsHold(t)
  BY <1>5, SuccessorWaits
<1>10. rows'[r] # NoRun /\ rows'[r].revision = t.revision /\ Loaded(r)' = t /\ RowOk(r)'
  BY <1>6, <1>8, <1>9, StoredRow
<1>11. Rewrites(p, r, t)
  BY <1>1, <1>3, <1>4, <1>5, <1>6, <1>8, <1>10 DEF Rewrites
<1> QED
  BY <1>6, <1>11

(* The counters updated one by one are the projection of the run that has   *)
(* the record replaced.                                                     *)
LEMMA RecountIsProjection ==
    ASSUME FileInv, NEW r \in Runs, RowOk(r), NEW path \in Paths, NEW rec \in Records
    PROVE  Recount(r, path, rec) = HeadOf(Replaced(Loaded(r), path, rec))
<1>1. rec \in Record /\ rec # Absent
  BY SnapshotsAssumption DEF Absent
<1>2. Loaded(r) \in Snapshot /\ Loaded(r).nodes = nodes[r]
  BY LoadedFields
<1> DEFINE s == Loaded(r)
           bit(b) == IF b THEN 1 ELSE 0
<1>3. HeadOf(Replaced(s, path, rec)) =
         [HeadOf(s) EXCEPT !.revision = @ + 1,
             !.count = @ + bit(s.nodes[path] = Absent),
             !.bytes = @ - s.nodes[path].bytes + rec.bytes,
             !.unresolved = @ - bit(IsUnresolved(s.nodes[path])) + bit(IsUnresolved(rec))]
  <2> HIDE DEF s
  <2>1. s \in Snapshot
    BY <1>2 DEF s
  <2> QED
    BY <1>1, <2>1, HeadReplaced
<1>4. rows[r].columns.head = HeadOf(s)
  BY DEF RowOk
<1> QED
  BY <1>2, <1>3, <1>4 DEF Recount

LEMMA CommitNodeMeans ==
    ASSUME IInv, NEW p \in Processes, NEW path \in Paths, NEW rec \in Records,
           CommitNode(p, path, rec)
    PROVE  \E r \in Runs, t \in Snapshot : Rewrites(p, r, t)
<1>1. Writes(p) /\ Job(p).op = "node"
  BY DEF CommitNode
<1>2. Job(p) \in Jobs
  BY <1>1, WritesMeans
<1>3. PICK r \in Runs : r = Job(p).run
  BY <1>1, <1>2, JobFields
<1> DEFINE head == Recount(r, path, rec)
<1>4. /\ rows[r] # NoRun /\ Observe(Job(p))
      /\ rows[r].revision = Job(p).base.revision
      /\ Replaceable(Loaded(r), path, rec)
      /\ rows' = [rows EXCEPT ![r].revision = @ + 1, ![r].columns.head = head]
      /\ nodes' = [nodes EXCEPT ![r][path] = rec]
      /\ UNCHANGED <<meta, receipts, lock, worker, runtime, now, accepted>>
  BY <1>3 DEF CommitNode, SameRevision
<1>5. RowOk(r) /\ FileInv
  BY <1>4 DEF IInv, RowsInv
<1> DEFINE s == Loaded(r)
           t == Replaced(s, path, rec)
           b == rows[r].body
           v == rows[r].revision
           n == [nodes[r] EXCEPT ![path] = rec]
<1>6. /\ s \in Snapshot /\ s.revision = v /\ s.nodes = nodes[r] /\ WaitsHold(s)
      /\ s.finished = b.finished
  BY <1>5, LoadedFields DEF RowOk
<1>7. rec \in Record
  BY SnapshotsAssumption
<1>8. head = HeadOf(t)
  BY <1>5, RecountIsProjection
<1>9. /\ b \in Snapshot /\ b.nodes = Blank /\ v \in Nat /\ b.revision \in Nat /\ b.revision <= v
      /\ rows[r] = [revision |-> v, body |-> b,
                    columns |-> [head |-> HeadOf(s), finished |-> b.finished]]
      /\ s = [b EXCEPT !.revision = v, !.nodes = nodes[r]]
  BY <1>5, SnapshotFields DEF RowOk, Loaded
<1>10. n \in [Paths -> Record]
  BY <1>5, <1>7 DEF FileInv
<1>11. /\ DOMAIN rows' = Runs /\ nodes' \in [Runs -> [Paths -> Record]] /\ nodes'[r] = n
       /\ rows'[r] = [rows[r] EXCEPT !.revision = @ + 1, !.columns.head = head]
       /\ \A q \in Runs \ {r} : rows'[q] = rows[q] /\ nodes'[q] = nodes[q]
  BY <1>4, <1>5, <1>10 DEF FileInv
<1> HIDE DEF head, s, t, b, v, n
<1>12. rows'[r] = [revision |-> v + 1, body |-> b,
                   columns |-> [head |-> head, finished |-> b.finished]]
  <2> DEFINE row == rows[r]
             columns == [row.columns EXCEPT !.head = head]
             one == [row EXCEPT !.revision = v + 1]
             two == [one EXCEPT !.columns = columns]
  <2>1. row.revision = v /\ row.columns = [head |-> HeadOf(s), finished |-> b.finished]
    BY <1>9
  <2>2. columns = [head |-> head, finished |-> b.finished]
    BY <2>1
  <2>3. rows'[r] = two
    BY <1>11, <2>1
  <2> HIDE DEF columns
  <2>4. one = [revision |-> v + 1, body |-> b,
               columns |-> [head |-> HeadOf(s), finished |-> b.finished]]
    BY <1>9
  <2> HIDE DEF one
  <2>5. two = [revision |-> v + 1, body |-> b, columns |-> columns]
    BY <2>4
  <2> QED
    BY <2>2, <2>3, <2>5
<1>13. /\ t \in Snapshot /\ t.revision = v + 1 /\ WaitsHold(t) /\ ValidSuccessor(s, t)
  BY <1>4, <1>6, <1>7, ReplacedFields, ReplacedIsSuccessor, SuccessorWaits DEF t, s
<1>14. [b EXCEPT !.revision = v + 1, !.nodes = n] = t
  BY <1>9, <1>10 DEF t, Replaced, n, Snapshot
<1>15. /\ rows'[r].revision = v + 1 /\ rows'[r].body = b
       /\ rows'[r].columns = [head |-> head, finished |-> b.finished]
  BY <1>12
<1>16. Loaded(r)' = t
  BY <1>11, <1>14, <1>15 DEF Loaded
<1>17. RowOk(r)' /\ rows'[r] # NoRun
  <2>1. v + 1 \in Nat /\ b.revision <= v + 1
    BY <1>9
  <2>2. "body" \in DOMAIN rows'[r] /\ "body" \notin DOMAIN NoRun
    BY <1>12 DEF NoRun
  <2>3. RowOk(r)'
    BY <1>8, <1>9, <1>12, <1>13, <1>15, <1>16, <2>1 DEF RowOk
  <2> QED
    BY <2>2, <2>3
<1>18. Rewrites(p, r, t)
  BY <1>1, <1>3, <1>4, <1>11, <1>13, <1>15, <1>16, <1>17 DEF Rewrites, s, v
<1> QED
  BY <1>13, <1>18

LEMMA RewriteKeeps ==
    ASSUME IInv, NEW p \in Processes, NEW r \in Runs, NEW t \in Snapshot, Rewrites(p, r, t)
    PROVE  IInv' /\ Loaded(r) = Job(p).base
<1>1. /\ Writes(p) /\ Job(p).op \in {"commit", "node"} /\ r = Job(p).run
      /\ rows[r] # NoRun /\ rows'[r].revision = t.revision
      /\ DOMAIN rows' = Runs /\ nodes' \in [Runs -> [Paths -> Record]]
      /\ ValidSuccessor(Loaded(r), t) /\ t.revision = Job(p).base.revision + 1
      /\ RowOk(r)'
      /\ \A q \in Runs \ {r} : rows'[q] = rows[q] /\ nodes'[q] = nodes[q]
      /\ Observe(Job(p))
      /\ UNCHANGED <<meta, receipts, lock, worker, runtime, now, accepted>>
  BY DEF Rewrites
<1>2. /\ Job(p) \in Jobs /\ JobOk(Job(p)) /\ queue' \in [Processes -> Seq(GoodJobs)]
  BY <1>1, WritesMeans
<1>3. RowOk(r) /\ accepted[r] # NoIdent
  BY <1>1 DEF IInv, RowsInv
<1>4. Loaded(r) \in Snapshot /\ Loaded(r).revision = rows[r].revision
  BY <1>3, LoadedFields DEF IInv
<1>5. rows[r].revision \in Nat /\ Job(p).base.revision \in Nat
  BY <1>1, <1>2, <1>3, JobFields, SnapshotFields DEF RowOk
<1>6. t.revision = rows[r].revision + 1
  BY <1>1, <1>4 DEF ValidSuccessor
<1>7. Job(p).base = Loaded(r)
  BY <1>1, <1>2, <1>5, <1>6 DEF JobOk, Follows
<1>8. NothingLost'
  BY <1>1, <1>7 DEF IInv, NothingLost, Observe, RunOf
<1>9. FileInv' /\ TypeInv' /\ OneWriter' /\ LockInv'
  BY <1>1 DEF IInv, FileInv, TypeInv, OneWriter, LockInv, runtime
<1>10. RowsInv'
  <2> SUFFICES ASSUME NEW q \in Runs, rows'[q] # NoRun
               PROVE  RowOk(q)' /\ accepted'[q] # NoIdent
    BY DEF RowsInv
  <2>1. CASE q = r
    BY <1>1, <1>3, <2>1
  <2>2. CASE q # r
    <3>1. rows'[q] = rows[q] /\ nodes'[q] = nodes[q] /\ accepted'[q] = accepted[q]
      BY <1>1, <2>2
    <3> QED
      BY <3>1, RowKept DEF IInv, RowsInv
  <2> QED
    BY <2>1, <2>2
<1>11. HeldInv' /\ QueueInv'
  <2>1. \A q \in Runs : accepted[q] # NoIdent => accepted'[q] # NoIdent /\ Moves(q)
    BY <1>1, <1>6 DEF Moves
  <2>2. now' \in Nat /\ now' >= now /\ held' = held
    BY <1>1 DEF IInv, TypeInv, runtime
  <2> QED
    BY <1>2, <2>1, <2>2, CopiesKeep
<1> QED
  BY <1>7, <1>8, <1>9, <1>10, <1>11 DEF IInv

LEMMA CollectKeeps ==
    ASSUME IInv, NEW p \in Processes, Collect(p)
    PROVE  IInv'
<1>1. Writes(p) /\ Job(p).op = "collect"
  BY DEF Collect
<1>2. Job(p) \in Jobs /\ queue' \in [Processes -> Seq(GoodJobs)]
  BY <1>1, WritesMeans
<1>3. PICK at \in Nat : at = Job(p).at
  BY <1>1, <1>2, JobFields
<1>4. /\ receipts' = Live(at)
      /\ rows' = [r \in Runs |-> IF r \in Collected(at) THEN NoRun ELSE rows[r]]
      /\ nodes' = [r \in Runs |-> IF r \in Collected(at) THEN Blank ELSE nodes[r]]
      /\ UNCHANGED <<meta, lock, worker, runtime, now, accepted, lost>>
  BY <1>3 DEF Collect
<1>5. \A r \in Runs : rows'[r] = NoRun \/ (rows'[r] = rows[r] /\ nodes'[r] = nodes[r])
  BY <1>4
<1>6. FileInv'
  <2>1. nodes' \in [Runs -> [Paths -> Record]]
    BY <1>4, BlankTyped DEF IInv, FileInv
  <2> QED
    BY <1>4, <2>1, LiveTyped DEF IInv, FileInv
<1>7. TypeInv' /\ OneWriter' /\ LockInv' /\ NothingLost'
  BY <1>4 DEF IInv, TypeInv, OneWriter, LockInv, NothingLost, runtime
<1>8. RowsInv'
  <2> SUFFICES ASSUME NEW r \in Runs, rows'[r] # NoRun
               PROVE  RowOk(r)' /\ accepted'[r] # NoIdent
    BY DEF RowsInv
  <2>1. rows'[r] = rows[r] /\ nodes'[r] = nodes[r] /\ accepted'[r] = accepted[r]
    BY <1>4, <1>5
  <2> QED
    BY <2>1, RowKept DEF IInv, RowsInv
<1>9. HeldInv' /\ QueueInv'
  <2>1. \A r \in Runs : accepted[r] # NoIdent => accepted'[r] # NoIdent /\ Moves(r)
    BY <1>4, <1>5 DEF Moves
  <2>2. now' \in Nat /\ now' >= now /\ held' = held
    BY <1>4 DEF IInv, TypeInv, runtime
  <2> QED
    BY <1>2, <2>1, <2>2, CopiesKeep
<1> QED
  BY <1>6, <1>7, <1>8, <1>9 DEF IInv

-----------------------------------------------------------------------------
(* The invariant holds of every state *)

LEMMA Initially == Init => IInv
<1> SUFFICES ASSUME Init PROVE IInv
  OBVIOUS
<1>1. FileInv
  BY BlankTyped DEF Init, FileInv
<1>2. TypeInv /\ OneWriter /\ LockInv
  BY DEF Init, TypeInv, OneWriter, LockInv
<1>3. RowsInv /\ HeldInv /\ NothingLost
  BY DEF Init, RowsInv, HeldInv, NothingLost
<1>4. QueueInv
  <2>1. <<>> \in Seq(GoodJobs)
    OBVIOUS
  <2> QED
    BY <2>1 DEF Init, QueueInv
<1> QED
  BY <1>1, <1>2, <1>3, <1>4 DEF IInv

LEMMA StutterKeeps ==
    ASSUME IInv, UNCHANGED vars
    PROVE  IInv'
<1>1. UNCHANGED <<meta, rows, nodes, receipts, lock, worker, queue, home, held, now, by,
                  accepted, lost>>
  BY DEF vars, file, runtime
<1>2. FileInv' /\ TypeInv' /\ OneWriter' /\ LockInv'
  BY <1>1 DEF IInv, FileInv, TypeInv, OneWriter, LockInv
<1>3. now' \in Nat /\ now' >= now /\ queue' \in [Processes -> Seq(GoodJobs)]
  BY <1>1 DEF IInv, TypeInv, QueueInv
<1>4. RowsInv' /\ NothingLost' /\ HeldInv' /\ QueueInv'
  BY <1>1, <1>3, RunsKept
<1> QED
  BY <1>2, <1>4 DEF IInv

LEMMA Inductive == IInv /\ [Next]_vars => IInv'
<1> SUFFICES ASSUME IInv, [Next]_vars PROVE IInv'
  OBVIOUS
<1>1. CASE UNCHANGED vars
  BY <1>1, StutterKeeps
<1>2. CASE Tick
  BY <1>2, TickKeeps
<1>3. ASSUME NEW o \in Owners, NEW p \in Processes, Start(o, p)
      PROVE  IInv'
  BY <1>3, StartKeeps
<1>4. ASSUME NEW o \in Owners,
             \/ CallRelease(o) \/ CallCollect(o) \/ CallCommit(o) \/ CallNode(o)
             \/ \E r \in Runs, k \in Keys \cup {NoKey}, q \in Requests : CallCreate(o, r, k, q)
      PROVE  IInv'
  BY <1>4, CallsKeep
<1>5. ASSUME NEW o \in Owners, NEW r \in Runs, Read(o, r)
      PROVE  IInv'
  BY <1>5, ReadKeeps
<1>6. ASSUME NEW p \in Processes, Claim(p) \/ ClaimAbandoned(p) \/ Release(p)
      PROVE  IInv'
  BY <1>6, OwnershipKeeps
<1>7. ASSUME NEW p \in Processes, Refuse(p)
      PROVE  IInv'
  BY <1>7, RefuseKeeps
<1>8. ASSUME NEW p \in Processes, Duplicate(p)
      PROVE  IInv'
  BY <1>8, DuplicateKeeps
<1>9. ASSUME NEW p \in Processes, Create(p)
      PROVE  IInv'
  BY <1>9, CreateKeeps
<1>10. ASSUME NEW p \in Processes, Commit(p)
       PROVE  IInv'
  BY <1>10, CommitMeans, RewriteKeeps
<1>11. ASSUME NEW p \in Processes, NEW path \in Paths, NEW rec \in Records,
              CommitNode(p, path, rec)
       PROVE  IInv'
  BY <1>11, CommitNodeMeans, RewriteKeeps
<1>12. ASSUME NEW p \in Processes, Collect(p)
       PROVE  IInv'
  BY <1>12, CollectKeeps
<1>13. ASSUME NEW p \in Processes, Crash(p)
       PROVE  IInv'
  BY <1>13, CrashKeeps
<1> QED
  BY <1>1, <1>2, <1>3, <1>4, <1>5, <1>6, <1>7, <1>8, <1>9, <1>10, <1>11, <1>12, <1>13 DEF Next

LEMMA Invariant == Spec => []IInv
  BY Initially, Inductive, PTL DEF Spec

(* One process writes: a worker acts for an owner only under the file lock  *)
(* and with the owner row of the file, whatever claims were abandoned,      *)
(* releases failed half-way and processes died (worker.rs: claim, release). *)
THEOREM OneProcessWrites == Spec => []OneWriter
<1>1. IInv => OneWriter
  BY DEF IInv
<1> QED
  BY <1>1, Invariant, PTL

(* No commit that is carried out replaces a checkpoint its caller has not   *)
(* read, although calls are queued and outlive their callers (query.rs: the *)
(* revision checks of commit and commit_invocation).                        *)
THEOREM NoUpdateIsLost == Spec => []NothingLost
<1>1. IInv => NothingLost
  BY DEF IInv
<1> QED
  BY <1>1, Invariant, PTL

(* No sequence of whole commits and of commits of one record, which update  *)
(* the derived columns one by one and leave the header behind, makes a run  *)
(* that query::run refuses to read as corrupt.                              *)
THEOREM RowsStayReadable == Spec => []RowsReadable
<1>1. ASSUME IInv PROVE RowsReadable
  <2> SUFFICES ASSUME NEW r \in Runs, rows[r] # NoRun
               PROVE  Readable(r)
    BY DEF RowsReadable
  <2>1. RowOk(r) /\ FileInv
    BY <1>1 DEF IInv, RowsInv
  <2>2. /\ Loaded(r).state = rows[r].body.state /\ Loaded(r).cancel = rows[r].body.cancel
        /\ Loaded(r).finished = rows[r].body.finished
    BY <2>1, LoadedFields
  <2>3. /\ rows[r].columns.head = HeadOf(Loaded(r))
        /\ rows[r].columns.finished = rows[r].body.finished
        /\ rows[r].body.revision <= rows[r].revision
    BY <2>1 DEF RowOk
  <2>4. HeadOf(Loaded(r)).state = Loaded(r).state /\ HeadOf(Loaded(r)).cancel = Loaded(r).cancel
    BY DEF HeadOf
  <2> QED
    BY <2>2, <2>3, <2>4 DEF Readable
<1> QED
  BY <1>1, Invariant, PTL

-----------------------------------------------------------------------------
(* Receipts *)

(* The receipt of an accepted run is kept until the time it names. *)
Remembered(rs, r) ==
    \/ accepted[r].born + TTL <= now
    \/ /\ rs[accepted[r].key] # NoReceipt /\ rs[accepted[r].key].run = r
       /\ rs[accepted[r].key].expires = accepted[r].born + TTL
Keyed(r)   == accepted[r] # NoIdent /\ accepted[r].key # NoKey
ReceiptInv == \A r \in Runs : Keyed(r) => Remembered(receipts, r)

LEMMA LiveRemembers ==
    ASSUME IInv, ReceiptInv, NEW at \in Nat, at <= now, NEW r \in Runs, Keyed(r)
    PROVE  Remembered(Live(at), r)
<1>1. accepted[r].key \in Keys /\ accepted[r].born \in Nat /\ now \in Nat /\ TTL \in Nat
  BY SnapshotsAssumption DEF IInv, TypeInv, Ident, Keyed
<1>2. CASE accepted[r].born + TTL <= now
  BY <1>2 DEF Remembered
<1>3. CASE ~(accepted[r].born + TTL <= now)
  <2>1. /\ receipts[accepted[r].key] # NoReceipt /\ receipts[accepted[r].key].run = r
        /\ receipts[accepted[r].key].expires = accepted[r].born + TTL
    BY <1>3 DEF ReceiptInv, Remembered
  <2>2. Live(at)[accepted[r].key] = receipts[accepted[r].key]
    BY <1>1, <1>3, <2>1, LiveTyped DEF IInv
  <2> QED
    BY <2>1, <2>2 DEF Remembered
<1> QED
  BY <1>2, <1>3

(* Time passes, and what is expired is dropped. *)
LEMMA ReceiptsKept ==
    ASSUME IInv, ReceiptInv, now' \in Nat, now' >= now, accepted' = accepted,
           \/ receipts' = receipts
           \/ \E at \in Nat : at <= now /\ receipts' = Live(at)
    PROVE  ReceiptInv'
<1> SUFFICES ASSUME NEW r \in Runs, Keyed(r)
             PROVE  Remembered(receipts, r)'
  BY DEF ReceiptInv, Keyed
<1>1. now \in Nat /\ TTL \in Nat /\ accepted[r].born \in Nat
  BY SnapshotsAssumption DEF IInv, TypeInv, Ident, Keyed
<1>2. Remembered(receipts', r)
  BY LiveRemembers DEF ReceiptInv
<1> QED
  BY <1>1, <1>2 DEF Remembered

(* An acceptance: the key was free at birth, so every earlier receipt of    *)
(* the key has expired.                                                     *)
LEMMA AcceptanceWaits ==
    ASSUME IInv, ReceiptInv, NEW p \in Processes, NEW r \in Runs, NEW ident \in Ident,
           Accepts(p, r, ident), NEW q \in Runs, Keyed(q), accepted[q].key = ident.key
    PROVE  accepted[q].born + TTL <= now
<1>1. ident.born \in Nat /\ ident.born <= now /\ ident.key # NoKey
  BY DEF Accepts, Ident, Keyed
<1>2. Live(ident.born)[ident.key] = NoReceipt
  BY <1>1 DEF Accepts, Admits
<1>3. Remembered(Live(ident.born), q)
  BY <1>1, LiveRemembers
<1> QED
  BY <1>2, <1>3 DEF Remembered

LEMMA AcceptanceRemembers ==
    ASSUME IInv, ReceiptInv, NEW p \in Processes, NEW r \in Runs, NEW ident \in Ident,
           Accepts(p, r, ident)
    PROVE  ReceiptInv'
<1> DEFINE receipt == [run |-> r, request |-> ident.request, expires |-> ident.born + TTL]
<1>1. /\ receipts' = IF ident.key = NoKey THEN Live(ident.born)
                     ELSE [Live(ident.born) EXCEPT ![ident.key] = receipt]
      /\ accepted' = [accepted EXCEPT ![r] = ident] /\ now' = now
      /\ ident.born \in Nat /\ ident.born <= now /\ ident.key \in Keys \cup {NoKey}
  BY DEF Accepts, Ident
<1>2. Live(ident.born) \in [Keys -> Receipt \cup {NoReceipt}]
  BY <1>1, LiveTyped DEF IInv
<1>3. receipt # NoReceipt /\ receipt.run = r /\ receipt.expires = ident.born + TTL
  BY DEF NoReceipt
<1> HIDE DEF receipt
<1>4. accepted'[r] = ident /\ \A q \in Runs \ {r} : accepted'[q] = accepted[q]
  BY <1>1 DEF IInv, TypeInv
<1> SUFFICES ASSUME NEW q \in Runs, Keyed(q)'
             PROVE  Remembered(receipts, q)'
  BY DEF ReceiptInv
<1>5. CASE q = r
  <2>1. ident.key \in Keys /\ receipts'[ident.key] = receipt
    BY <1>1, <1>2, <1>4, <1>5 DEF Keyed
  <2> QED
    BY <1>3, <1>4, <1>5, <2>1 DEF Remembered
<1>6. CASE q # r
  <2>1. accepted'[q] = accepted[q] /\ Keyed(q)
    BY <1>4, <1>6 DEF Keyed
  <2>2. Remembered(Live(ident.born), q)
    BY <1>1, <2>1, LiveRemembers
  <2>3. CASE accepted[q].born + TTL <= now
    BY <1>1, <2>1, <2>3 DEF Remembered
  <2>4. CASE ~(accepted[q].born + TTL <= now)
    <3>1. accepted[q].key # ident.key
      BY <2>1, <2>4, AcceptanceWaits
    <3>2. accepted[q].key \in Keys
      BY <2>1 DEF IInv, TypeInv, Ident, Keyed
    <3>3. receipts'[accepted[q].key] = Live(ident.born)[accepted[q].key]
      BY <1>1, <1>2, <3>1, <3>2
    <3> QED
      BY <1>1, <2>1, <2>2, <2>4, <3>3 DEF Remembered
  <2> QED
    BY <2>3, <2>4
<1> QED
  BY <1>5, <1>6

(* What a step does to receipts and acceptances. *)
LEMMA StepAccepts ==
    ASSUME IInv, [Next]_vars
    PROVE  \/ /\ accepted' = accepted /\ now' \in Nat /\ now' >= now
              /\ \/ receipts' = receipts
                 \/ \E at \in Nat : at <= now /\ receipts' = Live(at)
           \/ \E p \in Processes, r \in Runs, ident \in Ident : Accepts(p, r, ident)
<1> DEFINE Kept == /\ accepted' = accepted /\ now' \in Nat /\ now' >= now
                   /\ receipts' = receipts
<1>0. now \in Nat
  BY DEF IInv, TypeInv
<1>1. CASE UNCHANGED vars
  BY <1>0, <1>1 DEF vars, file
<1>2. CASE Tick
  BY <1>0, <1>2 DEF Tick, file
<1>3. ASSUME NEW o \in Owners, NEW p \in Processes, Start(o, p)
      PROVE  Kept
  BY <1>0, <1>3 DEF Start, file
<1>4. ASSUME NEW o \in Owners,
             \/ CallRelease(o) \/ CallCollect(o) \/ CallCommit(o) \/ CallNode(o)
             \/ \E r \in Runs, k \in Keys \cup {NoKey}, q \in Requests : CallCreate(o, r, k, q)
      PROVE  Kept
  <2>1. UNCHANGED <<receipts, now, accepted>>
    <3>1. ASSUME NEW job, Call(o, job)
          PROVE  UNCHANGED <<receipts, now, accepted>>
      BY <3>1 DEF Call, file
    <3> QED
      BY <1>4, <3>1, Zenon DEF CallRelease, CallCollect, CallCommit, CallNode, CallCreate
  <2> QED
    BY <1>0, <2>1
<1>5. ASSUME NEW o \in Owners, NEW r \in Runs, Read(o, r)
      PROVE  Kept
  BY <1>0, <1>5 DEF Read, file
<1>6. ASSUME NEW p \in Processes, Claim(p) \/ ClaimAbandoned(p) \/ Release(p)
      PROVE  Kept
  BY <1>0, <1>6 DEF Claim, ClaimAbandoned, Release
<1>7. ASSUME NEW p \in Processes, Refuse(p) \/ Crash(p)
      PROVE  Kept
  BY <1>0, <1>7 DEF Refuse, Crash, file
<1>8. ASSUME NEW p \in Processes, Commit(p)
      PROVE  Kept
  BY <1>0, <1>8 DEF Commit
<1>9. ASSUME NEW p \in Processes, NEW path \in Paths, NEW rec \in Records,
             CommitNode(p, path, rec)
      PROVE  Kept
  BY <1>0, <1>9 DEF CommitNode
<1>10. ASSUME NEW p \in Processes, Duplicate(p)
       PROVE  /\ accepted' = accepted /\ now' = now
              /\ \E at \in Nat : at <= now /\ receipts' = Live(at)
  <2>1. /\ Writes(p) /\ Job(p).op = "create" /\ receipts' = Live(Job(p).ident.born)
        /\ UNCHANGED <<now, accepted>>
    BY <1>10 DEF Duplicate
  <2>2. Job(p) \in Jobs /\ JobOk(Job(p))
    BY <2>1, WritesMeans
  <2>3. Job(p).ident.born \in Nat /\ Job(p).ident.born <= now
    BY <2>1, <2>2, JobFields DEF Ident, JobOk
  <2> QED
    BY <2>1, <2>3
<1>11. ASSUME NEW p \in Processes, Collect(p)
       PROVE  /\ accepted' = accepted /\ now' = now
              /\ \E at \in Nat : at <= now /\ receipts' = Live(at)
  <2>1. /\ Writes(p) /\ Job(p).op = "collect" /\ receipts' = Live(Job(p).at)
        /\ UNCHANGED <<now, accepted>>
    BY <1>11 DEF Collect
  <2>2. Job(p) \in Jobs /\ JobOk(Job(p))
    BY <2>1, WritesMeans
  <2>3. Job(p).at \in Nat /\ Job(p).at <= now
    BY <2>1, <2>2, JobFields DEF JobOk
  <2> QED
    BY <2>1, <2>3
<1>12. ASSUME NEW p \in Processes, Create(p)
       PROVE  \E r \in Runs, ident \in Ident : Accepts(p, r, ident)
  BY <1>12, CreateMeans
<1> QED
  BY <1>0, <1>1, <1>2, <1>3, <1>4, <1>5, <1>6, <1>7, <1>8, <1>9, <1>10, <1>11, <1>12 DEF Next

LEMMA ReceiptsHold == Spec => []ReceiptInv
<1>1. Init => ReceiptInv
  BY DEF Init, ReceiptInv, Keyed
<1>2. IInv /\ ReceiptInv /\ [Next]_vars => ReceiptInv'
  BY StepAccepts, ReceiptsKept, AcceptanceRemembers
<1> QED
  BY <1>1, <1>2, Invariant, PTL DEF Spec

(* Until the time its receipt names, a key makes no second run: a create    *)
(* carries the time its start read, waits on the queue and may outlive its  *)
(* caller, while collections go by later times (sqlite/store.rs: create,    *)
(* collect; application.rs: start).                                         *)
THEOREM KeysMakeOneRun == Spec => OneRunPerReceipt
<1> DEFINE Once == \A q, r \in Runs :
                      /\ accepted[q] # NoIdent /\ accepted[q].key # NoKey
                      /\ accepted[r] = NoIdent /\ accepted'[r] # NoIdent
                      /\ accepted'[r].key = accepted[q].key
                      => accepted[q].born + TTL <= now
<1>1. IInv /\ ReceiptInv /\ [Next]_vars => [Once]_vars
  <2> SUFFICES ASSUME IInv, ReceiptInv, [Next]_vars,
                      NEW q \in Runs, NEW r \in Runs, Keyed(q),
                      accepted[r] = NoIdent, accepted'[r] # NoIdent,
                      accepted'[r].key = accepted[q].key
               PROVE  accepted[q].born + TTL <= now
    BY DEF Keyed
  <2>1. PICK p \in Processes, a \in Runs, ident \in Ident : Accepts(p, a, ident)
    BY StepAccepts
  <2>2. accepted' = [accepted EXCEPT ![a] = ident] /\ accepted \in [Runs -> Ident \cup {NoIdent}]
    BY <2>1 DEF Accepts, IInv, TypeInv
  <2>3. accepted'[r] = ident
    BY <2>2
  <2> QED
    BY <2>1, <2>3, AcceptanceWaits
<1> QED
  BY <1>1, Invariant, ReceiptsHold, PTL DEF Spec, OneRunPerReceipt

-----------------------------------------------------------------------------
(* The contract *)

(* What the file is as a store: its owner while its lock is held, and the   *)
(* runs as they load.                                                       *)
Owner == IF lock = NoProcess THEN NoOwner ELSE meta
Kept  == [r \in Runs |-> RunOf(r)]

(* The values of the contract are those of the provider. *)
LEMMA SameValues ==
    /\ Contract!NoRun = NoRun /\ Contract!NoReceipt = NoReceipt
    /\ Contract!NoOwner = NoOwner /\ Contract!NoKey = NoKey
    /\ Contract!Terminal = Terminal
    /\ \A ident : Contract!Initial(ident) = Initial(ident)
  BY DEF NoRun, Contract!NoRun, NoReceipt, Contract!NoReceipt, NoTime, Contract!NoTime,
         NoOwner, Contract!NoOwner, NoKey, Contract!NoKey, Terminal, Contract!Terminal,
         Initial, Contract!Initial, Absent, Contract!Absent

LEMMA SameCardinality == \A S : Contract!Cardinality(S) = Cardinality(S)
  BY Zenon DEF Cardinality, Contract!Cardinality

LEMMA SuccessorIsTheContracts ==
    ASSUME NEW s, NEW t, ValidSuccessor(s, t)
    PROVE  Contract!ValidSuccessor(s, t)
<1>1. Contract!ValidWaits(s, t)
  BY DEF ValidSuccessor, ValidWaits, Contract!ValidWaits, Terminal, Contract!Terminal
<1>2. Contract!IsPrefix(s.audit, t.audit)
  BY DEF ValidSuccessor, IsPrefix, Contract!IsPrefix
<1> QED
  BY <1>1, <1>2 DEF ValidSuccessor, Contract!ValidSuccessor, Terminal, Contract!Terminal

(* A run is absent from the store when its row is, and is what it loads to. *)
LEMMA KeptFields ==
    ASSUME IInv, NEW r \in Runs
    PROVE  /\ Kept[r] = RunOf(r)
           /\ rows[r] = NoRun => Kept[r] = NoRun
           /\ rows[r] # NoRun => /\ Kept[r] = Loaded(r) /\ Kept[r] # NoRun
                                 /\ Kept[r].state = rows[r].columns.head.state
                                 /\ Kept[r].finished = rows[r].columns.finished
                                 /\ Kept[r].finished \in Int
<1>1. Kept[r] = RunOf(r)
  BY DEF Kept
<1>2. ASSUME rows[r] # NoRun
      PROVE  /\ Kept[r] = Loaded(r) /\ Kept[r] # NoRun
             /\ Kept[r].state = rows[r].columns.head.state
             /\ Kept[r].finished = rows[r].columns.finished
             /\ Kept[r].finished \in Int
  <2>1. RowOk(r) /\ FileInv
    BY <1>2 DEF IInv, RowsInv
  <2>2. /\ Loaded(r) \in Snapshot /\ Loaded(r) # NoRun
        /\ Loaded(r).finished = rows[r].body.finished
    BY <2>1, LoadedFields
  <2>3. Kept[r] = Loaded(r)
    BY <1>1, <1>2 DEF RunOf
  <2>4. rows[r].columns = [head |-> HeadOf(Loaded(r)), finished |-> rows[r].body.finished]
    BY <2>1 DEF RowOk
  <2>5. HeadOf(Loaded(r)).state = Loaded(r).state
    BY DEF HeadOf
  <2>6. /\ rows[r].columns.head = HeadOf(Loaded(r))
        /\ rows[r].columns.finished = rows[r].body.finished
    BY <2>4
  <2>7. Loaded(r).finished \in Int
    BY <2>2, SnapshotFields DEF NoTime
  <2> QED
    BY <2>2, <2>3, <2>5, <2>6, <2>7
<1> QED
  BY <1>1, <1>2 DEF RunOf

LEMMA StoredRuns ==
    ASSUME IInv
    PROVE  /\ Contract!Stored = {r \in Runs : rows[r] # NoRun}
           /\ Contract!Unfinished = Unfinished
<1>1. \A r \in Runs : /\ Kept[r] = RunOf(r)
                      /\ rows[r] # NoRun <=> RunOf(r) # NoRun
                      /\ rows[r] # NoRun => RunOf(r).state = rows[r].columns.head.state
  BY KeptFields
<1>2. Contract!Stored = {r \in Runs : rows[r] # NoRun}
  BY <1>1, SameValues DEF Contract!Stored
<1> QED
  BY <1>1, <1>2, SameValues DEF Contract!Unfinished, Unfinished

(* A transaction that writes is the owner's. *)
LEMMA WriteIsTheOwners ==
    ASSUME IInv, NEW p \in Processes, Writes(p), UNCHANGED <<meta, lock>>
    PROVE  Owner # NoOwner /\ by' = Owner /\ Owner' = Owner
  BY WritesMeans, SqliteAssumption DEF Owner

(* What is kept when no run is written. *)
LEMMA SameRuns ==
    ASSUME UNCHANGED <<rows, nodes>>
    PROVE  Kept' = Kept
  BY DEF Kept, RunOf, Loaded

LEMMA LiveDrops ==
    ASSUME IInv, NEW at \in Nat, at <= now, receipts' = Live(at)
    PROVE  Contract!Drops(now, {})
<1>1. /\ Live(at) \in [Keys -> Receipt \cup {NoReceipt}]
      /\ \A k \in Keys : \/ Live(at)[k] = receipts[k]
                         \/ /\ Live(at)[k] = NoReceipt /\ receipts[k] # NoReceipt
                            /\ receipts[k].expires <= at
  BY LiveTyped DEF IInv
<1>2. \A k \in Keys : receipts[k] = NoReceipt \/ receipts[k].expires \in Nat
  BY DEF IInv, FileInv, Receipt
<1>3. now \in Nat
  BY DEF IInv, TypeInv
<1> QED
  BY <1>1, <1>2, <1>3, SameValues DEF Contract!Drops, Contract!Outdated

LEMMA DuplicateIsTheContracts ==
    ASSUME IInv, NEW p \in Processes, Duplicate(p)
    PROVE  Contract!Forget
<1>1. /\ Writes(p) /\ Job(p).op = "create" /\ receipts' = Live(Job(p).ident.born)
      /\ UNCHANGED <<meta, rows, nodes, lock, now>>
  BY DEF Duplicate
<1>2. Job(p).ident.born \in Nat /\ Job(p).ident.born <= now
  BY <1>1, WritesMeans, JobFields DEF Ident, JobOk
<1>3. Contract!Drops(now, {})
  BY <1>1, <1>2, LiveDrops
<1>4. Owner # NoOwner /\ by' = Owner /\ Owner' = Owner /\ Kept' = Kept
  BY <1>1, WriteIsTheOwners, SameRuns
<1> QED
  BY <1>1, <1>3, <1>4, SameValues DEF Contract!Forget, Owner, Kept

LEMMA CreateIsTheContracts ==
    ASSUME IInv, NEW p \in Processes, NEW r \in Runs, NEW ident \in Ident, Accepts(p, r, ident)
    PROVE  Contract!Create(r, ident)
<1> DEFINE k == ident.key
           at == ident.born
           receipt == [run |-> r, request |-> ident.request, expires |-> at + TTL]
<1>1. /\ Writes(p) /\ at <= now /\ rows[r] = NoRun
      /\ k # NoKey => Live(at)[k] = NoReceipt
      /\ Cardinality(Unfinished) < Capacity
      /\ receipts' = IF k = NoKey THEN Live(at) ELSE [Live(at) EXCEPT ![k] = receipt]
      /\ Loaded(r)' = Initial(ident) /\ rows'[r] # NoRun
      /\ \A q \in Runs \ {r} : rows'[q] = rows[q] /\ nodes'[q] = nodes[q]
      /\ UNCHANGED <<meta, lock, now>>
  BY DEF Accepts, Admits
<1>2. at \in Nat /\ k \in Keys \cup {NoKey}
  BY DEF Ident
<1>3. /\ Live(at) \in [Keys -> Receipt \cup {NoReceipt}]
      /\ \A j \in Keys : \/ Live(at)[j] = receipts[j]
                         \/ /\ Live(at)[j] = NoReceipt /\ receipts[j] # NoReceipt
                            /\ receipts[j].expires <= at
  BY <1>2, LiveTyped DEF IInv
<1>4. Owner # NoOwner /\ by' = Owner /\ Owner' = Owner
  BY <1>1, WriteIsTheOwners
<1>5. Kept[r] = NoRun
  BY <1>1, KeptFields
<1>6. Kept' = [Kept EXCEPT ![r] = Initial(ident)]
  <2>1. RunOf(r)' = Initial(ident)
    BY <1>1 DEF RunOf
  <2>2. \A q \in Runs \ {r} : RunOf(q)' = RunOf(q)
    BY <1>1 DEF RunOf, Loaded
  <2> QED
    BY <2>1, <2>2 DEF Kept
<1>7. Contract!Drops(at, {k})
  <2>1. DOMAIN receipts' = Keys
    BY <1>1, <1>3
  <2>2. \A j \in Keys \ {k} : receipts'[j] = Live(at)[j]
    BY <1>1, <1>3
  <2> QED
    BY <1>3, <2>1, <2>2, SameValues DEF Contract!Drops, Contract!Outdated
<1>8. ASSUME k \in Keys
      PROVE  /\ receipts[k] = Contract!NoReceipt \/ Contract!Outdated(k, at)
             /\ receipts'[k] = receipt
  <2>1. k # NoKey
    BY <1>8, SnapshotsAssumption
  <2> QED
    BY <1>1, <1>3, <1>8, <2>1, SameValues DEF Contract!Outdated
<1>9. Contract!Cardinality(Contract!Unfinished) < Capacity
  BY <1>1, StoredRuns, SameCardinality
<1> QED
  BY <1>1, <1>4, <1>5, <1>6, <1>7, <1>8, <1>9, SameValues
     DEF Contract!Create, Owner, Kept

LEMMA RewriteIsTheContracts ==
    ASSUME IInv, NEW p \in Processes, NEW r \in Runs, NEW t \in Snapshot, Rewrites(p, r, t)
    PROVE  Contract!Commit(r)
<1>1. /\ Writes(p) /\ rows[r] # NoRun /\ rows'[r] # NoRun
      /\ ValidSuccessor(Loaded(r), t) /\ Loaded(r)' = t
      /\ \A q \in Runs \ {r} : rows'[q] = rows[q] /\ nodes'[q] = nodes[q]
      /\ UNCHANGED <<meta, receipts, lock, now>>
  BY DEF Rewrites
<1>2. Owner # NoOwner /\ by' = Owner /\ Owner' = Owner
  BY <1>1, WriteIsTheOwners
<1>3. Kept[r] = Loaded(r) /\ Kept[r] # NoRun
  BY <1>1, KeptFields
<1>4. RunOf(r)' = t
  BY <1>1 DEF RunOf
<1>5. \A q \in Runs \ {r} : RunOf(q)' = RunOf(q)
  BY <1>1 DEF RunOf, Loaded
<1>6. Kept'[r] = t /\ t # NoRun /\ Kept' = [Kept EXCEPT ![r] = t]
  BY <1>4, <1>5, Absence DEF Kept
<1>7. Contract!ValidSuccessor(Kept[r], t)
  BY <1>1, <1>3, SuccessorIsTheContracts
<1>8. /\ Contract!ValidSuccessor(Kept[r], Kept'[r]) /\ Kept'[r] # NoRun
      /\ Kept' = [Kept EXCEPT ![r] = Kept'[r]]
  BY <1>6, <1>7
<1> QED
  BY <1>1, <1>2, <1>3, <1>8, SameValues DEF Contract!Commit, Owner, Kept

LEMMA OrderRanks == Order \in [Runs -> 1..Cardinality(Runs)]
  BY RunsAreRanked, Zenon DEF Order

(* A surplus run is older than the terminal runs that are kept. *)
LEMMA SurplusIsOld ==
    ASSUME IInv, NEW r \in Finished, Surplus(r)
    PROVE  Cardinality({q \in Contract!Stored :
              /\ Kept[q].state \in Contract!Terminal
              /\ Kept[q].finished >= Kept[r].finished}) > TerminalRuns
<1> DEFINE later == {q \in Finished : Later(q, r)}
           kept  == {q \in Contract!Stored : /\ Kept[q].state \in Contract!Terminal
                                             /\ Kept[q].finished >= Kept[r].finished}
<1>1. \A q \in Finished : /\ q \in Runs /\ rows[q] # NoRun
                          /\ Kept[q].state \in Terminal
                          /\ Kept[q].finished = rows[q].columns.finished
                          /\ Kept[q].finished \in Int
  BY KeptFields DEF Finished
<1>2. \A q \in Finished : q \in Contract!Stored /\ Kept[q].state \in Contract!Terminal
  BY <1>1, StoredRuns, SameValues
<1>3. r \notin later
  <2>1. Order[r] \in Int
    BY <1>1, OrderRanks
  <2> QED
    BY <1>1, <2>1 DEF Later
<1>4. later \cup {r} \subseteq kept
  BY <1>1, <1>2 DEF Later
<1>5. kept \subseteq Runs /\ later \subseteq Runs
  BY <1>1, StoredRuns
<1> HIDE DEF later, kept
<1>6. IsFiniteSet(later) /\ IsFiniteSet(kept)
  BY <1>5, FS_Subset, SnapshotsAssumption
<1>7. Cardinality(later \cup {r}) = Cardinality(later) + 1
  BY <1>3, <1>6, FS_AddElement
<1>8. Cardinality(later \cup {r}) <= Cardinality(kept)
  BY <1>4, <1>6, FS_Subset
<1>9. Cardinality(later) >= TerminalRuns
  BY DEF Surplus, later
<1>10. TerminalRuns \in Nat /\ Cardinality(later) \in Nat /\ Cardinality(kept) \in Nat
  BY <1>6, FS_CardinalityType, SnapshotsAssumption
<1>11. Cardinality(kept) > TerminalRuns
  BY <1>7, <1>8, <1>9, <1>10
<1> QED
  BY <1>11 DEF kept

LEMMA CollectIsTheContracts ==
    ASSUME IInv, NEW p \in Processes, Collect(p)
    PROVE  Contract!Collect
<1>1. Writes(p) /\ Job(p).op = "collect"
  BY DEF Collect
<1>2. Job(p) \in Jobs /\ JobOk(Job(p))
  BY <1>1, WritesMeans
<1>3. PICK at \in Nat : at = Job(p).at
  BY <1>1, <1>2, JobFields
<1>4. /\ receipts' = Live(at)
      /\ rows' = [r \in Runs |-> IF r \in Collected(at) THEN NoRun ELSE rows[r]]
      /\ nodes' = [r \in Runs |-> IF r \in Collected(at) THEN Blank ELSE nodes[r]]
      /\ UNCHANGED <<meta, lock, now>>
  BY <1>3 DEF Collect
<1>5. at <= now /\ now \in Nat
  BY <1>1, <1>2, <1>3 DEF JobOk, IInv, TypeInv
<1>6. Owner # NoOwner /\ by' = Owner /\ Owner' = Owner
  BY <1>1, <1>4, WriteIsTheOwners
<1>7. ASSUME NEW r \in Runs, r \in Collected(at)
      PROVE  /\ Kept[r] # Contract!NoRun /\ Kept[r].state \in Contract!Terminal
             /\ \/ now - Kept[r].finished >= Retention
                \/ Contract!Cardinality({q \in Contract!Stored :
                       /\ Kept[q].state \in Contract!Terminal
                       /\ Kept[q].finished >= Kept[r].finished}) > TerminalRuns
  <2>1. r \in Finished /\ (Old(r, at) \/ Surplus(r))
    BY <1>7 DEF Collected
  <2>2. /\ Kept[r] # NoRun /\ Kept[r].state \in Terminal
        /\ Kept[r].finished = rows[r].columns.finished /\ Kept[r].finished \in Int
    BY <2>1, KeptFields DEF Finished
  <2>3. CASE Old(r, at)
    <3>1. at - Kept[r].finished >= Retention /\ Retention \in Nat
      BY <2>2, <2>3, SnapshotsAssumption DEF Old
    <3> QED
      BY <1>5, <2>2, <3>1, SameValues
  <2>4. CASE Surplus(r)
    BY <2>1, <2>2, <2>4, SurplusIsOld, SameCardinality, SameValues
  <2> QED
    BY <2>1, <2>3, <2>4
<1>8. \A r \in Runs : r \in Collected(at) => Contract!Collectable(r)
  BY <1>7 DEF Contract!Collectable, Kept
<1>9. \A r \in Runs : \/ RunOf(r)' = RunOf(r)
                      \/ r \in Collected(at) /\ RunOf(r)' = NoRun
  BY <1>4 DEF RunOf, Loaded
<1>10. \A r \in Runs : \/ Kept'[r] = Kept[r]
                       \/ Contract!Collectable(r) /\ Kept'[r] = Contract!NoRun
  BY <1>8, <1>9, SameValues DEF Kept
<1>11. DOMAIN Kept' = Runs
  BY DEF Kept
<1>12. Contract!Drops(now, {})
  BY <1>4, <1>5, LiveDrops
<1> QED
  BY <1>4, <1>6, <1>10, <1>11, <1>12, SameValues DEF Contract!Collect, Owner, Kept

(* Who the owner is moves as the contract allows: a process that dies with  *)
(* the lock releases the store, any other leaves it alone.                  *)
LEMMA OwnershipIsTheContracts ==
    ASSUME IInv, NEW p \in Processes,
           Claim(p) \/ ClaimAbandoned(p) \/ Release(p) \/ Crash(p)
    PROVE  \/ \E o \in Owners : Contract!Claim(o)
           \/ Contract!Release
           \/ UNCHANGED Contract!vars
<1>1. UNCHANGED <<rows, nodes, receipts, now, by>>
  BY DEF Claim, ClaimAbandoned, Release, Crash, file
<1>2. Kept' = Kept
  BY <1>1, SameRuns
<1>3. lock = NoProcess \/ (lock \in Processes /\ meta = worker[lock] /\ meta # NoOwner)
  BY DEF IInv, TypeInv, LockInv, OneWriter
<1>4. CASE Claim(p)
  <2>1. /\ Take(p) /\ lock = NoProcess /\ meta' = Job(p).owner /\ lock' = p
    BY <1>4 DEF Claim, Claimable
  <2>2. PICK o \in Owners : o = Job(p).owner
    BY <2>1, Taken, JobFields
  <2>3. Owner = NoOwner /\ Owner' = o
    BY <2>1, <2>2, SqliteAssumption DEF Owner
  <2>4. Contract!Claim(o)
    BY <1>1, <1>2, <2>3, SameValues DEF Contract!Claim, Owner, Kept
  <2> QED
    BY <2>4
<1>5. CASE ClaimAbandoned(p)
  <2>1. Owner' = Owner
    BY <1>5 DEF ClaimAbandoned, Claimable, Owner
  <2> QED
    BY <1>1, <1>2, <2>1 DEF Contract!vars, Owner, Kept
<1>6. CASE Release(p)
  <2>1. Take(p) /\ worker[p] = Job(p).owner /\ lock' = NoProcess
    BY <1>6 DEF Release
  <2>2. worker[p] # NoOwner
    BY <2>1, Taken, JobFields
  <2>3. lock = p
    BY <2>2 DEF IInv, OneWriter
  <2>4. Owner # NoOwner /\ Owner' = NoOwner
    BY <1>3, <2>1, <2>3, SqliteAssumption DEF Owner
  <2>5. Contract!Release
    BY <1>1, <1>2, <2>4, SameValues DEF Contract!Release, Owner, Kept
  <2> QED
    BY <2>5
<1>7. CASE Crash(p)
  <2>1. lock' = (IF lock = p THEN NoProcess ELSE lock) /\ meta' = meta
    BY <1>7 DEF Crash, file
  <2>2. CASE lock = p
    <3>1. Owner # NoOwner /\ Owner' = NoOwner
      BY <1>3, <2>1, <2>2, SqliteAssumption DEF Owner
    <3>2. Contract!Release
      BY <1>1, <1>2, <3>1, SameValues DEF Contract!Release, Owner, Kept
    <3> QED
      BY <3>2
  <2>3. CASE lock # p
    <3>1. Owner' = Owner
      BY <2>1, <2>3 DEF Owner
    <3> QED
      BY <1>1, <1>2, <3>1 DEF Contract!vars, Owner, Kept
  <2> QED
    BY <2>2, <2>3
<1> QED
  BY <1>4, <1>5, <1>6, <1>7

(* Every step of the provider is a step of the contract, or none of it. *)
LEMMA StepIsTheContracts ==
    IInv /\ [Next]_vars => [Contract!Next]_(Contract!vars)
<1> SUFFICES ASSUME IInv, [Next]_vars PROVE [Contract!Next]_(Contract!vars)
  OBVIOUS
<1>1. ASSUME UNCHANGED <<file, lock, now, by>> PROVE UNCHANGED Contract!vars
  <2>1. Kept' = Kept /\ Owner' = Owner
    BY <1>1, SameRuns DEF Owner, file
  <2> QED
    BY <1>1, <2>1 DEF Contract!vars, Owner, Kept, file
<1>2. CASE UNCHANGED vars
  BY <1>1, <1>2 DEF vars
<1>3. CASE Tick
  <2>1. UNCHANGED <<meta, rows, nodes, receipts, lock, by>> /\ now' = now + 1
    BY <1>3 DEF Tick, file
  <2>2. Kept' = Kept /\ Owner' = Owner
    BY <2>1, SameRuns DEF Owner
  <2>3. Contract!Tick
    BY <2>1, <2>2 DEF Contract!Tick, Owner, Kept
  <2> QED
    BY <2>3 DEF Contract!Next
<1>4. ASSUME NEW o \in Owners, NEW p \in Processes, Start(o, p)
      PROVE  UNCHANGED Contract!vars
  BY <1>1, <1>4 DEF Start
<1>5. ASSUME NEW o \in Owners,
             \/ CallRelease(o) \/ CallCollect(o) \/ CallCommit(o) \/ CallNode(o)
             \/ \E r \in Runs, k \in Keys \cup {NoKey}, q \in Requests : CallCreate(o, r, k, q)
      PROVE  UNCHANGED Contract!vars
  BY <1>1, <1>5 DEF CallRelease, CallCollect, CallCommit, CallNode, CallCreate, Call
<1>6. ASSUME NEW o \in Owners, NEW r \in Runs, Read(o, r)
      PROVE  UNCHANGED Contract!vars
  BY <1>1, <1>6 DEF Read
<1>7. ASSUME NEW p \in Processes, Claim(p) \/ ClaimAbandoned(p) \/ Release(p) \/ Crash(p)
      PROVE  [Contract!Next]_(Contract!vars)
  BY <1>7, OwnershipIsTheContracts DEF Contract!Next
<1>8. ASSUME NEW p \in Processes, Refuse(p)
      PROVE  UNCHANGED Contract!vars
  BY <1>1, <1>8 DEF Refuse
<1>9. ASSUME NEW p \in Processes, Duplicate(p)
      PROVE  Contract!Next
  BY <1>9, DuplicateIsTheContracts DEF Contract!Next
<1>10. ASSUME NEW p \in Processes, Create(p)
       PROVE  Contract!Next
  <2>1. PICK r \in Runs, ident \in Ident : Accepts(p, r, ident)
    BY <1>10, CreateMeans
  <2>2. Contract!Create(r, ident) /\ ident.born <= now /\ now \in Nat
    BY <2>1, CreateIsTheContracts DEF Accepts, IInv, TypeInv
  <2>3. PICK k \in Keys \cup {NoKey}, q \in Requests, at \in Nat :
           ident = [key |-> k, request |-> q, born |-> at]
    BY DEF Ident
  <2>4. at \in 0..now
    BY <2>2, <2>3
  <2>5. k \in Keys \cup {Contract!NoKey}
    BY SameValues
  <2> QED
    BY <2>2, <2>3, <2>4, <2>5 DEF Contract!Next
<1>11. ASSUME NEW p \in Processes, NEW r \in Runs, NEW t \in Snapshot, Rewrites(p, r, t)
       PROVE  Contract!Next
  BY <1>11, RewriteIsTheContracts DEF Contract!Next
<1>12. ASSUME NEW p \in Processes, Commit(p)
       PROVE  Contract!Next
  BY <1>11, <1>12, CommitMeans
<1>13. ASSUME NEW p \in Processes, NEW path \in Paths, NEW rec \in Records,
              CommitNode(p, path, rec)
       PROVE  Contract!Next
  BY <1>11, <1>13, CommitNodeMeans
<1>14. ASSUME NEW p \in Processes, Collect(p)
       PROVE  Contract!Next
  BY <1>14, CollectIsTheContracts DEF Contract!Next
<1> QED
  BY <1>2, <1>3, <1>4, <1>5, <1>6, <1>7, <1>8, <1>9, <1>10, <1>12, <1>13, <1>14 DEF Next

(* The file implements the contract of an execution store: with calls       *)
(* carried out after their caller gave up, processes that die between two   *)
(* transactions, claims and reloads included, what it loads to changes only *)
(* as the contract allows, in the name of its owner of the moment           *)
(* (worker.rs: the jobs; query.rs: their transactions).                     *)
THEOREM FileMeetsContract == Spec => MeetsContract
<1>1. Init => Contract!Init
  <2>1. Init => Kept = [r \in Runs |-> NoRun] /\ Owner = NoOwner
    BY DEF Init, Kept, RunOf, Owner
  <2> QED
    BY <2>1, SameValues DEF Init, Contract!Init, Kept, Owner
<1> QED
  BY <1>1, StepIsTheContracts, Invariant, PTL DEF Spec, MeetsContract, Contract!Spec
=============================================================================
