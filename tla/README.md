# Workflow Forge in TLA+

Workflow Forge is an embedded workflow engine in Rust. A host composes operations and
providers, prepares JSON workflows into immutable plans and runs them; the engine persists
every step of a run in an execution store so that a run survives timeouts, cancellations,
crashes and restarts without repeating an external effect it must not repeat and without
losing sight of one that may have happened. This directory models that core in TLA+,
model-checks it with TLC and proves its safety with TLAPS.

Paths below are relative to `src/crates/`; `runtime/` stands for `engine/src/runtime/`.

## 1. Inventory

### Components, their state and their operations

| Component | Source | State | Operations |
|---|---|---|---|
| Effect classification | `engine/src/effects.rs`, `runtime/steps.rs` | none (pure) | `classify_failure`, `merged`, the decision after the backoff |
| Operation execution | `runtime/steps.rs`, `runtime/invocation.rs` | the invocation record (state, attempt, attempts, certainty, error); in memory: the executor's place, the call, the attempt permit, late calls | intent, dispatch, confirm, `record_failure`, `observe_late` |
| Bodies and control nodes | `runtime/control.rs`, `runtime/planner.rs` | control frames (selected handler or case, loop counter and state); in memory: the walk | `execute_body`, try, decision, loop, subworkflow |
| Groups | `runtime/groups.rs` | cursor, stop marker and error in the frame; `scope_slots` | admit, collect, stop, resume |
| Waits and signals | `runtime/waits.rs`, `runtime/signals.rs`, `protocol/src/wait.rs` | the wait record (Open / Consumed / Expired / Closed, start confirmed, delivery), wake-up time | reserve, start, deliver, consume, expire, close, suspend |
| Coordinator and supervisor | `runtime/coordinator.rs` | the run's head; in memory: active tasks, tokens, plans | supervise, begin, final commit, `finish_error` |
| Commands | `runtime/application.rs`, `runtime/reconcile.rs`, `runtime/execute.rs` | receipts, audit; the admission lock, owned calls | `start`, `cancel`, `reconcile`, `execute`, `wait` |
| Lifecycle | `runtime/lifecycle.rs`, `runtime/recovery.rs` | phase, ownership of the store | `boot`, classification, drain, forced shutdown, drop |
| Execution stores | `protocol/src/checkpoint.rs`, `protocol/src/ports.rs`, `modules/src/memory.rs`, `modules/src/sqlite/` | snapshots, revisions, receipts, projections, owner; SQLite: worker, queue, lock beside the file | claim, create, commit, commit_invocation, view, collect, release |
| Artifact stores | `modules/src/memory.rs`, `modules/src/sqlite/artifacts.rs` | staged and ready artifacts with their chunks, the runs that hold them | write, read, pin, collect, cleanup |
| Schema and migration | `modules/src/sqlite/schema.rs`, `migration.rs`, `codec.rs` | the file's version, packages and records in their format | open, upgrade in one transaction |
| Backoff | `modules/src/backoff.rs` | none (pure) | `delay_ms` |
| Compiler, composition | `engine/src/compiler*`, `builder.rs` | immutable plans, the catalog, the registry of revisions | `prepare`, `recover` |
| Schemas and bindings | `engine/src/schema.rs`, `binding.rs` | none (pure) | validation, mapping |

### How they interact

The supervisor (one task) reads the heads of the unfinished runs, and spawns at most one
coordinator task per run. The coordinator walks the body; at an operation node it runs
`execute_operation`, which alternates between durable commits and one call into the
operation. Groups run several such walks at once. Commands (`cancel`, `reconcile`,
`signal`) run in the callers' tasks and meet the coordinator only in the store: every
write is a compare-and-set of the run's revision, retried on the fresh snapshot
(`runtime/state.rs`), and in memory only in the cancellation token. The SQLite provider
carries every call to one worker thread per process; a queued call is executed even when
its caller has been dropped. A crash keeps the store and whatever the calls have set off
outside.

### What is hard, and what correctness means

* **Effects.** A call that timed out, was cancelled or was cut off by a crash may have had
  its effect, may still have it, or never will. An operation says whether it may be
  repeated (`Safe`, `Keyed`, `Unsafe`); the engine must repeat no other, must never call a
  possible effect "not applied", and must never end a run over an effect it does not list.
* **Stale decisions.** An attempt is authorized on one view, waits for a permit, and is
  committed on another; a cancellation or the deadline may lie between.
* **Heads and records.** The head of the run (state, error, cancellation) and its records
  are changed by different tasks and must agree: success only over confirmed nodes, a
  block always with something to resolve, a cancellation never forgotten.
* **Recovery.** A boot classifies what a crash left `Running`, if it can recover the plan;
  otherwise it blocks the run and a later boot continues. Bodies are walked again from their
  first node, and must do what an uninterrupted walk would have done.
* **Waits.** A signal, the wait's deadline, the start operation, cancellation and the
  supervisor race for one reservation; senders repeat themselves and lose answers.
* **Groups.** Cursor, stop and cancellation are separate commits; children fail, block and
  suspend in any order, and groups share the scopes of the process.
* **Commands.** Operators act on what they saw some time ago and send a command again when
  its answer is lost; one identity is one application.
* **Lifecycle.** Callers are dropped between any two steps, heads are read before tasks are
  joined, and a shutdown must release a store that the next boot has to claim.
* **Stores.** Projections are updated incrementally; an owner that has been replaced may
  still be sending; receipts expire; a process dies between two transactions.
* **Artifacts.** An upload is several transactions, which a crash, another owner, the
  collector or the end of the run may cut.
* **Definitions.** A run recovers what it was accepted with, under another composition.
* **Progress.** A run in a live process ends, blocks, or sleeps with a wake-up due.

`PROJECT.json` lists the hazards one by one with their lines and the properties that cover
them.

## 2. Modules

| Module | Models | Notes |
|---|---|---|
| `Effects` | `effects.rs`, the certainty rules of `record_failure` | pure operators |
| `Operations` | `execute_operation`, `invoke`, `observe_late`, the world | one action per durable commit or select |
| `RunHead` | `cancel`, `reconcile`, shutdown, crash, `boot` | adds the process's phase |
| `Coordinator` | `supervise` (one run), `execute`, `finish_error` | around any body |
| `Chain` | `execute_body` over operation nodes 1..N, composed with all of the above | the core specification |
| `Waits` | `waits.rs`, `signals.rs`, the wait record, `try` in `control.rs`, composed with `Coordinator` | a body of one wait inside a `try` |
| `Control` | decision, loop and subworkflow nodes and their frames, nested bodies | with a reference meaning of a definition |
| `Groups` | `groups.rs` and the walk below it, over a tree of groups, operations and signals | attempts are one step |
| `Signals` | the `signal` command over several reservations of a run | receipts, repeated and dropped calls |
| `Reconcile` | `inspect_effect` and `reconcile` with the admission lock, the audit and late answers | one run with one write |
| `Commands` | `Signals` and `Reconcile` side by side, with the properties of both | composition |
| `Lifecycle` | `start`, `execute`, `wait`, `supervise` over several runs, `boot`, `shutdown`, `Drop` | what a job does to its run is open |
| `Snapshots` | the checkpoint as a value: head, `validate_initial`, `validate_successor`, `validate_waits`, and the edits callers send | pure operators |
| `Store` | the contract of `ports.rs` | abstract specification |
| `MemoryStore` | `memory.rs` | implements `Store` |
| `SqliteStore` | `sqlite/store.rs`, `query.rs`, `worker.rs`, `mod.rs` | implements `Store` |
| `SqliteArtifacts` | `sqlite/artifacts.rs` | uploads, pins, streams, collection |
| `Migration` | `schema.rs`, `migration.rs` | one transaction in steps |
| `Compiler`, `Revisions` | `compiler/`, `prepare_registered`, recovery of plans | traversal against an unfolding; several builds |
| `BodyOrder` | the order of a body and what a node may refer to | |
| `Backoff` | `backoff.rs`, its use in `record_failure` | words of W bits |
| `BodyProofs`, `GroupsProofs`, `CommandsProofs`, `MemoryStoreProofs`, `SqliteStoreProofs`, `SqliteFileProofs`, `LifecycleProofs` | theorems and their proofs | section 4 |
| `SnapshotsProofs` | lemmas: sums over finite sets; edits of a checkpoint | used by the proofs of the stores |
| `MC...` | instances for TLC | |

`Effects`, `Operations`, `RunHead` and `Coordinator` each EXTEND the one before; `Chain` and
`Waits` are two bodies over `Coordinator`, and both state its properties of any body
(`NoHiddenEffect` and the others at its end). `Coordinator` is written for any body: `Begin(first)`
hands over to the body's first pc, which returns through pc `output` or `error`. `Groups`,
`Control`, `Lifecycle` and `Reconcile` abstract the attempts those modules detail. `Store` is
what `state.rs` relies on: that commits of the other modules are atomic on a fresh snapshot
is the contract the two providers are shown to implement (`MeetsContract == Contract!Spec`
with `INSTANCE Store`).

### State and actions against the code

* `run` is the persisted `RunSnapshot` without its records: state, `cancel_requested`,
  `unresolved_effects`, and its error reduced to what later code asks of it (`unknown`,
  `unavailable`, `unresolved`, other). `rec[n]` is the `InvocationRecord` of node `n`; `Absent`
  is a missing key. Attempt identities (UUIDs) are numbers, issued in order per node.
* `exec[n]` is the local state of the task inside `execute_operation`: `view` (top of the
  loop), `permit` (select for capacity), `dispatch` (intent committed, call not yet spawned),
  `call`, `outcome`, `done`. `late` holds the calls that `observe_late` still watches, each
  with its permit.
* A commit through `state::update` or `update_node` re-evaluates its closure until its
  compare-and-set succeeds, so it is one atomic action whose guard is the closure's.
  What happens between a read and a later commit (view to intent, intent to confirm, body
  to final commit) is split into several actions.
* `token[n]` is the cancellation token of the task; `Cancel` sets the durable request and
  `CancelToken` the token, since the caller may be dropped in between.
* Time is two things: the monotone flag `expired` for the run's absolute deadline, and
  nondeterminism (a call may time out at any moment; a retry's delay may or may not fit
  before the deadline; the sleep until a retry is due is time spent at pc `view`).
* The world is `pending` (effects that may still happen) and `landed` (that did). A dispatched
  write may take effect at any time or never, whatever becomes of the task. `Honest` is
  the operation contract of `docs/CONTRACTS.md`: a definite certainty in an answer is true.
  A keyed destination applies a key once.
* In `Waits` node 1 is the start operation of the wait, node 2 the operation in the handler.
  `wait` is the `WaitRecord`, `act` the record of the wait node, `frame` that of the `try` node
  with its saved handler; `co.pc` walks through `run_control`, `waits::run` and
  `waits::execute`. `overdue` is the wait's own deadline, which is never after the run's.
  `next_wakeup_at_ms` is `Due`. A try has no state of its own besides its frame, so one
  handler stands for several; which errors are caught is `Catchable`, and an error that
  stands for several codes may also be one of those that are not.
* Infrastructure errors (a failing store, a lost task) end the supervisor: they are `Crash`.
* Several lines have no action because the model shows them unreachable in a run of one
  process: the `Running` branch of `execute_operation` (`runtime/steps.rs:71-97`, see
  `RunningIsOwned`), and the answer of a reservation for a terminal run
  (`runtime/waits.rs:186`), since a run ends only after its coordinator.
* `Control` keeps the walk as a stack of scopes (`scope` is the path of `ScopePath`, `frame` the
  local variables of `run_control`). `Meaning` is the definition evaluated without records or
  frames, for the answers its operations have given.
* `Groups` has one `task` per node and the local variables of `groups::execute`; the futures of
  a run share one task, so a group that saves its progress does not poll its children
  (`Polled`). Scopes are the admitted children of the run (`Held`); `Shared` says that other
  runs may hold the rest. `Below` is the scope of a group, `Above` the path of a node.
* `Signals` and `Reconcile` split a command into its read and its compare-and-set, with the
  loop over conflicts, callers that are dropped, and commits that land without them. Around
  its commands `Signals` has every commit that settles a reservation: consumption, expiry, the
  failure of the branch that waits (at the run's deadline, at a limit, by its start
  operation, by a group that stops), cancellation, the run's end and `StopTracking`; `error` is
  that of the branch's record.
* `Lifecycle` has the start future, the task of an owned call and its drop guard, the phases
  of the supervisor's loop with the heads it read, and the steps of `shutdown`. A caller is
  named as its run. `Init` covers stores that an earlier process left with runs in the states
  `Before`. An abort is a request: jobs that go with a dropped `JoinSet` become `ghosts`
  (`Abandon`), which end at some later await and may commit until then if their boot still
  owns the store (`Owns`); `DropRuntime` itself only asks for the aborts and for the release,
  and the supervisor, the owned tasks and the release follow in any order, also after the
  next `Boot`.
* `Snapshots` reduces payloads to their size and what never changes after acceptance to
  `ident`. `Edits` and `NodeWrites` are the replacements the engine asks for, `Refused` the ones
  the conformance library asks for. In the stores, `held` is the copy a runtime read some time
  ago; `accepted` and `lost` are observations that no action reads. A start reads the clock,
  collects and creates in three steps (`starting` in `MemoryStore`, the time in the queued call in
  `SqliteStore`): the receipts are judged by the time that was read.
* `SqliteStore` writes rows, records and columns as the transactions do; `Readable` is what
  `query::run` refuses to load. A claim may be queued by a caller that is gone
  (`ClaimAbandoned`); the loss of a process loses its queue, its worker and the lock.
* `SqliteArtifacts` reduces content to its number of chunks of one size. An identity has one
  writer; a dropped caller leaves its cleanup on the queue, and a cleanup may be lost
  (`CleanupLost`: no runtime to spawn it on, or an error that is discarded).
* `Migration` has the transaction one package and one run at a time under the owner lock, and
  the rows of the last two tables in one step; hashes of packages are taken to be injective.
  `Fits` is every budget of the process: of a record and of the file's pages.
* `Compiler` threads the compiler's counters through the traversal (`Workflow`, `Body`, `Item`);
  `Acceptable` is the same verdict on the unfolded tree. `Revisions` adds the catalog, the
  registry and recovery by a later build; preparations are one at a time, as the lock of
  admission is held throughout.

## 3. Runs

| Run | Instance | Properties |
|---|---|---|
| `chain_effects` | an `Unsafe` write followed by a `Keyed` write, two attempts each, two permits (161 660 states) | safety of the core, and `AlwaysSettles` |
| `waits_started` | a timer, a signal, or a signal with an `Unsafe` start write, and a read in the handler, one attempt each (643 234) | the life of a reservation, and `SettlesOrSleeps` |
| `waits_uncertain` | the same with a `Keyed` start write of two attempts (78 257) | `UncertainBypassesHandlers` is violated |
| `groups_nested` | a collecting group, one at a time, over an operation and a fail-fast group of an operation and a signal, two at a time; three scopes, shared (1 066 737) | `GroupsAgree`, `NothingStartsAfterStop`, `AlwaysSettles` |
| `groups_untracked` | a fail-fast pair of operations (2 153) | `StoppedTrackingIsVisible` is violated |
| `commands` | one operator with two command identities, two operators with one, or two senders with two messages (2 117 231) | receipts are true, and commands and signals apply once |
| `lifecycle` | a start and an owned call, one slot, two boots, with or without runs left behind (4 224 164) | one executor, limits, the shutdown's report |
| `lifecycle_served` | the same in one boot of an empty store, with fairness (216 471) | service, release |
| `memory_store` | two runtimes, two runs, one key, one path (2 301 646) | projection, lost updates, receipts, the contract |
| `sqlite_store` | two runtimes in two processes, one run, a queue of one (1 735 241) | readable rows, one writer, the contract |
| `artifact_store` | two uploads of two chunks in a budget of two, one run, two claims (6 463 155) | references, staging, budgets |
| `algorithms` | catalogs over thirteen shapes; bodies of three nodes and three edges; two builds and two runs; a program of two nested loops; retries in words of four bits; every older file of two runs over one or two packages, sound or damaged in one place, with five processes and two deaths (2 405 509) | verdicts, revisions, the program, delays, `MigratesOnce` |

`commands` and `algorithms` hold several independent instances: `subject`, chosen at the start
of a behaviour, names the one it is about, and the variables of the others stand still. The
two about operators are `Reconcile` with its steps narrowed: to one actor, to decisions that
change the run and to no crash (`Alone`), or to one command identity, to waiting or retrying
and to a shorter history (`Racing`).

### What the violations show

`waits_uncertain` shows where the code and `docs/EMBEDDING.md:65-67` part: uncertain effects
are said to bypass handlers. The first attempt of a keyed start operation times out and its
record is `RetryScheduled` with certainty `Unknown`; while the next attempt waits for a permit
or for its intent, the wait's deadline cancels it, `execute_operation` answers
`operation.cancelled` without classifying the record again, and `waits::start` turns that into
`wait.expired`, which a handler catches. The handler runs, with effects of its own, and only
then does the run block over the start (`RecoveryIsEarned` and `NoHiddenEffect` hold).

`groups_untracked` shows where the code and `docs/CONTRACTS.md:152` part: `StopTracking` is
said to preserve the unresolved effects visibly. A crash leaves one write of a group
`Unknown` and its sibling `Running`; a boot that cannot recover the plan blocks the run without
classifying (`runtime/lifecycle.rs:92`); `StopTracking` then ends the run and lists only the
record that is `Unknown` already (`runtime/reconcile.rs:263`).

Two smaller divergences are described here and checked by no run. A group that was stopped by
a failure and is resumed when no scope is free ends with `resource.limit` in place of the
failure it had saved (`runtime/groups.rs:137`), although the test `v2_effects.rs:1003` speaks of
the failure being preserved; `FailureIsKept` admits that error. And `modules/src/backoff.rs:3`
says full jitter, but its entropy is the low half of a version 7 UUID (`runtime/steps.rs:374`),
whose two highest bits are fixed, so that the delay is always between a half and three
quarters of its bound; `Backoff` models these entropies, and `DelaysAreExact` is about the
arithmetic.

### Bounds

* Chain and waits. Attempts are bounded by the retry budget, not by the model, and attempt
  identities by the attempts, except that a reconciliation may grant another attempt within
  the same budget. Two attempts are the least with which certainty accumulates and a late
  call meets a retry; two nodes the least with an order and a later failure over an earlier
  effect; a second permit lets a retry overlap the late call of its first attempt.
  `waits_started` uses single attempts, its question being the race for the reservation, and
  `waits_uncertain` two, its question being a start in doubt. Crashes, boots, cancellations
  and reconciliations are not bounded.
* Groups. Two levels are the least at which scopes are held by an ancestor and asked for by a
  descendant, and at which a stop reaches grandchildren. Nothing is bounded but the tree.
* Stores. `MaxRevision = 2` gives a run its creation and two edits, which is enough for a stale
  copy to meet a replaced one; `MaxTime = 1` lets one receipt expire and one run outlive its
  retention, and a start judge by a time that has passed. Two runtimes are one that has been replaced and one that replaced it; in
  `sqlite_store` each lives in a process of its own, and a queue of one is enough for a call
  to outlive its caller and its owner. The two runtimes (and the processes) are alike and
  symmetric.
* Artifacts. Two uploads and a budget one of them can exhaust; two claims, so that a writer
  may belong to an owner that has been replaced. Identities are symmetric.
* Lifecycle. One slot and one call make admission and limits bite; two boots, so that what
  outlives a runtime meets the next one of its store, and one sleep per behaviour. An earlier
  process leaves runs accepted, waiting or cancelling, one state for each way in which a
  supervisor picks a run up; a boot may block any of them. Liveness is checked in one boot
  of an empty store, since every boot begins as the first did.
* Commands. `MaxRevision` of 4 and 5, an audit of two entries, one late answer, one crash for the
  racing operators. Those of a kind are symmetric.
* Algorithms. Three nodes and three edges contain every way in which an order is refused (two
  successors, two predecessors, a cycle, an unreachable node, an unknown name); the shapes
  contain diamonds, cycles, nesting and every budget; words of four bits with seven attempts
  reach shifts past the width and saturation at both ends. The program has a loop over a
  decision, one case of which is a subworkflow with a loop of its own, and values that end a
  loop, match no case and fail a schema. Two runs over bodies of which two have one content are
  the least with which packages collapse; four of the five processes are refused, each by
  one budget: a package, a run, a receipt, or the pages of the file.

Symmetry is used where only invariants and action properties are checked, and in
`MeetsContract`, which states safety only.

### Fairness

Chain (`FairSpec`) and waits (`WaitsFairSpec`): Tokio keeps polling the tasks of a live process, so the supervisor,
the coordinator and every executor are weakly fair; an attempt has a timeout and a late
call a grace period, so `CallAbandoned` and `LateEnds` happen; a boot runs to its end.
Nothing makes the host boot, cancel or reconcile, nothing makes a caller that committed a
cancellation reach the token, nothing makes an effect happen or a deadline pass, and nothing
makes a signal arrive.

Groups: the task of a run (`RunStep`) and a boot are weakly fair; nothing makes the host boot,
signal, cancel or reconcile.

Lifecycle: tasks, jobs, the supervisor's steps, the steps of a shutdown and of a boot are weakly
fair. `Joined` and `Stops` are branches of a `select!`, which polls its branches in random
order: one that is ready again and again is taken, so they are strongly fair. The release that a drop
spawns is polled as any task is (`ReleaseDetached`), given that a Tokio runtime is there when
the drop happens. Nothing drops a caller, makes a store fail, makes a wait due, or ends
what was aborted and is joined by nobody.

### Deadlock

Deadlock is checked where a system can always go on: a settled run can crash and boot again
(`chain_effects`, both `waits`, both `groups`, `artifact_store`). The other runs say
CHECK_DEADLOCK FALSE, because they really stop: the clock, the revisions, the boots or the
deaths of the instance are used up (`memory_store`, `sqlite_store`, `lifecycle`,
`lifecycle_served`, `commands`), or an algorithm has its result (`algorithms`).

## 4. Proofs

Each theorem holds for every value of the constants under the named assumptions.

`BodyProofs`, about `Chain`: every `N`, every assignment of effect kinds, repetitions and attempt budgets
and every number of permits (`OperationsAssumption`).

| Theorem | Statement |
|---|---|
| `TypeCorrect` | `Spec => []TypeOK` |
| `UnsafeIsAtMostOnce` | an `Unsafe` write has at most one attempt that happened or may happen |
| `NotAppliedIsTruth` | a settled `NotApplied` record has nothing in the world |
| `EffectsAreAccountedFor` | a terminal run confirms or lists every possible effect |
| `HeadAlwaysAgrees` | success is earned, nodes are in order, cancellation is kept, a block is resolvable, retries are affordable |
| `RunningHasAnOwner` | a `Running` record in a live process has its executor |
| `FinalIsFinal` | terminal runs and confirmed records are frozen |
| `NothingNewIsIssued` | no attempt is issued after cancellation or the deadline |

All rest on one inductive invariant, `IInv = TypeOK /\ NodeInv(n) for every n /\ WalkInv /\
HeadInv`. None of the properties is inductive alone: that a `NotApplied` record has no
effect outside depends on which attempt the record holds while it is `Running`
(`EvidenceInv`), which depends on the executor holding the same attempt (`ExecInv`), which
depends on the view it was authorized on still being current at the permit, which holds
because only one coordinator walks the body and everything it has passed is confirmed
(`WalkInv`). The proof has one lemma per action; `HeadFrame` and `NodeFrame` carry over
what an action does not touch. `IInv` was first checked by TLC on the instances of the runs.

`BodyProofs`, about `Waits`: every effect kind, repetition and attempt budget of the start
operation and of the handler's, any number of permits, every kind of wait
(`OperationsAssumption`, `WaitsAssumption`: the two operations are nodes 1 and 2). `Waits` names its
specification `WaitsSpec`, so that the two bodies can be extended together.

| Theorem | Statement |
|---|---|
| `StoresAcceptWaits` | every step's change of the reservation is one that `validate_waits` accepts |
| `SleepIsWakeable` | a run sleeps only over an open reservation, and never over an accepted signal whose start is not confirmed |
| `HandlersEarnTheirOutcome` | a handler runs only when the reservation is closed to signals; success has a reason and leaves no effect in doubt |

`WaitsIInv` relates the reservation to its activation, its start's record and the run (`WaitInv`), says
what each step the coordinator has reached may rely on (`PlaceInv`: the commit of a suspension
still finds an open, confirmed reservation, a confirmation finds a start that succeeded, an error
that may be caught has closed the reservation), and what an executor may report (`WaitsNodeInv`). It is
needed because signals, deadlines, cancellation and crashes come between any two steps of the
coordinator. A step of an executor is reduced to what it may do to the rest (`Works`), one of the
coordinator between two operations to what the try holds (`Walk`), a boot or a reconciliation to
how the head and the records may move (`HeadMoves`).

`BodyProofs`, about `BodyOrder`: every finite set of nodes and every list of edges, entry and
selection (`OrderAssumption`: there is a node, and the unknown name is none). Its specification is
`OrderSpec`.

| Theorem | Statement |
|---|---|
| `OrderIsExact` | `OrderSpec => [](OrderIsTheChain /\ WalkNeverReturns)`: a body is accepted, in that order, exactly when it is one chain over all its nodes whose data flows forward; the walk never comes back |

Both directions need what the index says of the edges it has read (`IndexInv`: without a
diagnostic no two of them share an end, so the index is the body's edges; with one, two do or a
name is unknown). What is accepted is a chain because the walk is one to one (`PathInv`), and has
as many edges as links because both are one to one. What is refused is none because the
walk of a body with a meaning is a prefix of it (`PrefixInv`), and its edges, which are as many as its
links, are each used once (`MeansLinks`).

`GroupsProofs`: every tree of groups over operations and signals, of any depth and width, every
concurrency, every choice of policies and any number of scopes, shared or not
(`GroupsAssumption`: a child has one place in one group, since a scope path is its parent's with
one element more; everything is in the body of the run; no node has the name of a result).

| Theorem | Statement |
|---|---|
| `GroupsStayInAgreement` | `Spec => []GroupsAgree`: the saved cursor is ahead of everything below a child; a stopped group has no open reservation; a group settles only over resolved effects, succeeds only over children that all came to an end, and keeps the failure that stopped it; a run that ends by itself leaves nothing in doubt |
| `StopIsFinal` | `Spec => NothingStartsAfterStop`: below a saved stop nothing is dispatched or reserved any more, and the stop stays as it was saved |

`TypesHold` is the type invariant. None of the parts of `GroupsAgree` is inductive: when a group
settles, all that is known of the nodes below it is what their own groups left behind, and a
group settles long after it collected a child, with commands, crashes and boots in between. `IInv` says
that a live future has live groups around it (`TreeInv`), so that a group that has ended has a
quiet subtree; what a node's record and its future may be at once (`KindInv`, `DoneInv`); what
a group at work holds in memory against its frame, its token and the children it has collected
(`CursorInv`, `StoppedInv`, `CollectedInv`); what it may write when it ends (`EndInv`); and what its
record means from then on (`SettledInv`). `CollectedInv` is the core: a child that has been collected came to
an end of its own, or the group has a reason not to succeed. The tree is given by what each
group admits, and `Below` is the least set closed under that; the lemmas about it (`BelowDown`,
`BelowUp`, `BelowAcyclic`, `AboveChild`) come from leastness, since an induction over the tree is
not available. A step belongs to the future of one node and touches at most one child of it:
`StepKeeps` shows once that such a step disturbs nothing elsewhere, and every action has a
lemma for its own node.

`CommandsProofs`: every set of senders, messages, reservations, actors, command identities and
resolutions, every audit limit and any number of crashes and late responses. No assumption.

| Theorem | Statement |
|---|---|
| `SignalsKept` | what was answered to a signal is true, correlations hold, an acknowledged signal does not expire: its reservation is consumed, or closed by a cancellation, by the run's failure or by an error of its own branch; a run that ends leaves none open |
| `SignalIsAcceptedOnce` | a reservation takes one message in its life |
| `CommandsAreAppliedOnce` | the identity of a reconcile command has one audit entry, and every answered receipt is in it |
| `CommandsResolveWhatWasObserved` | an unknown effect is resolved by a commit that audits its attempt; repetitions are answered the receipt; what was audited, confirmed or ended stays |

The strengthening says what a call that is about to commit has seen, and is the same idea twice:
a signal's call saw an open, empty reservation (`SeenInv`); a resolution, also one whose caller
was dropped, saw a run blocked on the attempt it names and an audit without its identity
(`Pending`). Both hold of the revision they name, so that an equal revision means that nothing
has changed, and any commit outdates all of them. `CommandsResolveWhatWasObserved` also needs
that a running attempt has a run in progress and that only a cancelled run is cancelling, or the
end of an attempt could reopen a finished run.

`MemoryStoreProofs`: any runs, runtimes, keys, paths, limits and copies that callers send
(`SnapshotsAssumption`; that runs and paths are finitely many is needed to count the unfinished
runs and those past `terminal_runs`, and to add up the bytes of a checkpoint; a written record
is never the absent one).

| Theorem | Statement |
|---|---|
| `ProviderMeetsContract` | `Spec => MeetsContract`: every step of the memory provider is a step of `Store`, or none |
| `ProjectionNeverDrifts` | the head that is updated incrementally is the projection of the checkpoint |
| `NoUpdateIsLost` | a commit that is accepted replaces the checkpoint its caller has read |
| `KeysMakeOneRun` | `Spec => OneRunPerReceipt`: until a receipt's time has come, no step accepts another run under its key, although starts judge by a time they read before |

The refinement is proved action by action: `Commit` and `CommitInvocation` are the contract's
`Commit`, a collection is one `Collect`, a refused acceptance forgets expired receipts, a read or
a refused commit is none. No update is lost because a held copy is never
ahead of the checkpoint, and equal to it at an equal revision; one run per receipt, because a
receipt that a collection dropped had expired by a clock that only moves on, and the one that is
kept belongs to the run last accepted under its key. Collection needs an
order: what is removed as surplus has at least `terminal_runs` others that finished no
earlier. The projection is kept because replacing one record moves the sum by the difference of
its sizes; what a sum over any finite set is, and how it moves, is in `SnapshotsProofs`. Those
lemmas cannot be proved by the library's induction theorems, which take an operator, and argue by a
least set for which the claim would fail. `SnapshotsProofs` also has what both providers need of
an edit: a successor that `validate_successor` accepts keeps the reservations with their records
and its totals within the limits.

`SqliteStoreProofs`: as above, for any processes and any capacity of the queue
(`SqliteAssumption`).

| Theorem | Statement |
|---|---|
| `OneProcessWrites` | a worker acts for an owner only under the file's lock and with the owner row |
| `RowsStayReadable` | no sequence of commits leaves a run that would be read as corrupt |
| `NoUpdateIsLost` | a commit that is carried out replaces the checkpoint its caller has read |
| `KeysMakeOneRun` | `Spec => OneRunPerReceipt`: as above, with the calls queued and carried out later; no run checks it |
| `FileMeetsContract` | `Spec => MeetsContract`: every step of the file is a step of `Store`, or none |

`IInv` conjoins the types with what each party may rely on: the lock and the owner row name the
worker (`LockInv`), columns and records agree (`RowsInv`), a held copy is never ahead of the file
(`HeldInv`), and a queued write was built from a copy its caller had read (`QueueInv`). A call
that is carried out after its caller gave up is a step of the contract because of the last two.
The mapping loads every row, so the contract sees the file only through `query::run`;
crashes, queue and worker change nothing it sees.

`SqliteFileProofs`, about the artifacts: any finite set of artifacts, any runs, budgets and graces
(`ArtifactsAssumption`; the host is not a run).

| Theorem | Statement |
|---|---|
| `ReferencesAreHeld` | what a run pins stays, what was returned is kept, a whole read is whole |
| `UploadsAreSound` | a staged row is its own call's and of the claim that holds the file, and all artifacts stay within the budgets; a lost cleanup leaves its row to the next claim |
| `PublishedContentStays` | published content goes only with its last holder, or unheld past its grace |
| `StoppedRunsWriteNothing` | nothing is staged or published for a run that has stopped |

The strengthening says, for each step a `write_artifact` call has reached, what its row may be
(`RowInv`), and that a row that was ever owned has a holder that pins it, or whose collection
removed it (`HoldInv`). The budget counts the chunks that are stored, a finite set to
which an append adds one.
Both action properties come from one lemma that says how a row may change in a step.

`SqliteFileProofs`, about the migration: any processes and budgets, any runs, records, receipts,
finitely many packages and any number of deaths (`MigrationAssumption`: "nobody" is not a process, and
no content is the damaged one). `Migration` names its specification `MigrationSpec`, so that
the two components of the file can be extended together.

| Theorem | Statement |
|---|---|
| `MigrationIsOnce` | `MigrationSpec => []MigratesOnce`: the file is the old one or a whole new one, a refusal has its cause in the file, a foreign file is left alone |

`MigrationInv` says that the file is as it was found, or whole (`FileInv`); that whoever does not hold
the lock does nothing (`LockInv`); and what the transaction of the lock's holder has done so far
(`Transaction`). Its core is `PackagesInv`: every package of the file that the pass has visited
was converted or is of the new format, the others are untouched, whatever was inserted lies
beyond the last one to visit, and every run has the package it had, or what that one
became (`Now`). Without the row numbers the walk could meet its own output; without the
identities being those of the runs' packages, a deletion could strand a run. That packages
of one content and two spellings collapse into one is the case that makes `PackageReplaced` long.

`LifecycleProofs`: any callers, owned calls and limits (`LifecycleAssumption`), any number of
boots and sleeps.

| Theorem | Statement |
|---|---|
| `ExecutorsAreUnique` | of all executors of a run, aborted ones and those of earlier boots included, at most one has its commits accepted; limits hold |
| `ShutdownKeepsItsWord` | nothing is accepted after close but a queued create; the report is complete; an unforced drain finished every call |

Jobs exist only under a live supervisor (`SuperInv`), and the store is given back under one only
by a drop (`PhaseInv`). What was aborted and not joined is of an earlier boot, whose commits the
store refuses, or of this one once its supervisor has ended, with one ghost for a run and no
more of them than there were jobs (`GhostInv`); whoever creates a run in this boot holds the admission lock, which close waits for
(`AdmitInv`); an owned call stays among the calls until its run has settled (`CallsInv`,
`FateInv`); and what the report leaves out had settled when it was written (`ReportInv`). None is
inductive without the others, as a shutdown races with calls that are dropped at any step.

Each inductive invariant was checked by TLC before it was proved: those of the stores on the
instances of their runs, those of `Waits`, `Commands`, `Migration` and `BodyOrder` on their runs, that of `Lifecycle` on one starter
and one owned call over two boots, and that of `Groups` on the tree of `groups_nested` (1 066 737
states), on three levels (1 695 007) and on one wide group (561 604).

Only model-checked: liveness under fairness (`AlwaysSettles`, `SettlesOrSleeps`, `RunsAreServed`,
`ShutdownReleases`), and ENABLED, which TLAPS does not reach; and what recursively computed data is
for every input (`Compiler`, `Revisions`, `Control` and `Backoff`, the properties of
`MCAlgorithms` but for the order of a body).

## 5. Not modelled, and why

* Evaluation of bindings and JSON Schema validation (`binding.rs`, `schema.rs`): pure data
  functions. Where a model depends on them, their failure is one more outcome. Which sources
  a binding may name is in `BodyOrder`.
* The compiler's checks of single nodes (policies, bounds, schema compatibility): each is a
  comparison of data with no state, an input of `Compiler` and `BodyOrder`.
* The bytes of a plan (`Compiler` counts its nodes, which are counted and limited the same way), the
  budgets of a host that recovers a package and the resources of its run (`Revisions`), and
  the growth of a file by its own migration against the page budget (`Migration`).
* A runtime that is dropped outside of a Tokio runtime, or whose detached release fails too: the
  store then stays claimed until its process ends (`runtime/lifecycle.rs:16-24`), and
  `ShutdownReleases` says nothing of it.
* The staging of a registration in the builder: data validation before any run exists.
* The in-memory artifact store: one insertion into a map under a mutex.
* HTTP, CSV, file and JSON operations: adapters behind the Operation trait. Their contract, a
  definite certainty in an answer is true, is the external part of `Operations` (`Honest`).
* SQL as such: a transaction is one atomic step, a failed one leaves nothing, and a lock
  beside the file is exclusive among processes.
* The conformance library, which exercises the store contract (its requests are among the
  edits of `Snapshots`), the measuring and demonstrating examples, and the manual.

Composed at a distance rather than in one model: the stores with the engine (through
`Store`), groups and nested bodies with the detail of attempts (through the outcomes of an
operation), and several runs with the detail of one (through the outcomes of a job).
