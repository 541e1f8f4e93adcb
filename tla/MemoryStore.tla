---------------------------- MODULE MemoryStore ----------------------------
(***************************************************************************)
(* MemoryExecutionStore (memory.rs) and the runtimes that call it.  Every  *)
(* call is one critical section.  A run is kept with two values derived    *)
(* from it, its retained bytes and the index of its unresolved records,    *)
(* which commits update incrementally.                                     *)
(*                                                                         *)
(* A runtime edits a copy it read earlier; what it sends may be stale, and *)
(* a runtime that released the store may still be sending.  A start reads  *)
(* the clock once, before it collects and creates: the run is born at that *)
(* time, and the receipts are judged by it, while the supervisor collects  *)
(* by later clocks.                                                        *)
(***************************************************************************)
EXTENDS Snapshots

VARIABLES
    owner, runs, receipts, now, by,   \* as in Store
    bytes,       \* StoredRun.bytes
    unresolved,  \* StoredRun.unresolved
    held,        \* the copy each runtime read last: a run and its snapshot
    starting,    \* the time the start under way read (Shared::admission), or NoTime
    claimed,     \* the runtimes that have claimed the store
    accepted,    \* observed: what each run was accepted as
    lost         \* observed: a commit replaced what its caller never read

storeVars == <<owner, runs, receipts, now, by, bytes, unresolved>>
vars      == <<storeVars, held, starting, claimed, accepted, lost>>

Contract == INSTANCE Store

Nothing == [run |-> "none"]
Monus(a, b) == IF a > b THEN a - b ELSE 0

Init ==
    /\ owner = NoOwner /\ by = NoOwner /\ now = 0
    /\ runs = [r \in Runs |-> NoRun]
    /\ receipts = [k \in Keys |-> NoReceipt]
    /\ bytes = [r \in Runs |-> 0]
    /\ unresolved = [r \in Runs |-> {}]
    /\ held = [o \in Owners |-> Nothing]
    /\ starting = NoTime
    /\ claimed = {} /\ lost = FALSE
    /\ accepted = [r \in Runs |-> NoIdent]

-----------------------------------------------------------------------------
(* Mutant: any runtime that ever claimed the store may write. *)
Authorized_Ever(o) == o \in claimed

Authorized(o) == owner = o

Called(o) == Authorized(o) /\ by' = o

Claim(o) ==
    /\ owner = NoOwner /\ o \notin claimed
    /\ owner' = o /\ claimed' = claimed \cup {o}
    /\ UNCHANGED <<runs, receipts, now, by, bytes, unresolved, held, starting, accepted, lost>>

(* A start that is left when its runtime releases can only be refused. *)
Release(o) ==
    /\ Authorized(o)
    /\ owner' = NoOwner
    /\ starting' = NoTime
    /\ UNCHANGED <<runs, receipts, now, by, bytes, unresolved, held, claimed, accepted, lost>>

(* get, for any holder of the handle *)
Read(o, r) ==
    /\ o \in claimed /\ runs[r] # NoRun
    /\ held' = [held EXCEPT ![o] = [run |-> r, snapshot |-> runs[r]]]
    /\ UNCHANGED <<storeVars, starting, claimed, accepted, lost>>

-----------------------------------------------------------------------------
Live(at) == [k \in Keys |-> IF receipts[k] # NoReceipt /\ receipts[k].expires > at
                            THEN receipts[k] ELSE NoReceipt]

Unfinished == {r \in Runs : runs[r] # NoRun /\ runs[r].state \notin Terminal}
Count(rs)  == Cardinality({k \in Keys : rs[k] # NoReceipt})

(* Mutant: a key in use admits a second run. *)
Admits_Reuse(rs, k) == Cardinality(Unfinished) < Capacity

Admits(rs, k) ==
    /\ k # NoKey => rs[k] = NoReceipt /\ Count(rs) < ReceiptCount
    /\ Cardinality(Unfinished) < Capacity

(* The start that read the clock ends. *)
StartEnds == starting # NoTime /\ starting' = NoTime

(* create refused, or answered with the receipt kept: only the expired
   receipts are dropped. *)
CreateRefused(o, k) ==
    /\ Called(o) /\ StartEnds
    /\ ~Admits(Live(starting), k)
    /\ receipts' = Live(starting)
    /\ UNCHANGED <<owner, runs, now, bytes, unresolved, held, claimed, accepted, lost>>

Create(o, r, k, q) ==
    LET at    == starting
        ident == [key |-> k, request |-> q, born |-> at] IN
    /\ Called(o) /\ StartEnds
    /\ Admits(Live(at), k)
    /\ runs[r] = NoRun /\ accepted[r] = NoIdent    \* a fresh UUID
    /\ receipts' = IF k = NoKey THEN Live(at)
                   ELSE [Live(at) EXCEPT ![k] = [run |-> r, request |-> q, expires |-> at + TTL]]
    /\ runs' = [runs EXCEPT ![r] = Initial(ident)]
    /\ bytes' = [bytes EXCEPT ![r] = DataBytes(Initial(ident))]
    /\ unresolved' = [unresolved EXCEPT ![r] = Unresolved(Initial(ident))]
    /\ accepted' = [accepted EXCEPT ![r] = ident]
    /\ UNCHANGED <<owner, now, held, claimed, lost>>

(* The start fails before the store answers, or its caller drops it. *)
StartFails == StartEnds /\ UNCHANGED <<storeVars, held, claimed, accepted, lost>>

-----------------------------------------------------------------------------
(* StoredRun::after: a commit that leaves the records alone only exchanges
   the bytes of the result. *)
(* Mutant: the size of the result replaced is not taken off. *)
BytesAfter_Added(r, t) == IF t.nodes = runs[r].nodes THEN bytes[r] + ResultBytes(t) ELSE DataBytes(t)

BytesAfter(r, t) ==
    IF t.nodes = runs[r].nodes
    THEN Monus(bytes[r], ResultBytes(runs[r])) + ResultBytes(t) ELSE DataBytes(t)

UnresolvedAfter(r, t) ==
    IF t.nodes = runs[r].nodes THEN unresolved[r] ELSE Unresolved(t)

Observe(o) == lost' = (lost \/ held[o].snapshot # runs[held[o].run])

Commit(o) ==
    /\ held[o] # Nothing /\ Called(o)
    /\ LET r == held[o].run IN
       /\ runs[r] # NoRun
       /\ \E t \in Edits(held[o].snapshot, now) :
             /\ ValidSuccessor(runs[r], t)
             /\ runs' = [runs EXCEPT ![r] = t]
             /\ bytes' = [bytes EXCEPT ![r] = BytesAfter(r, t)]
             /\ unresolved' = [unresolved EXCEPT ![r] = UnresolvedAfter(r, t)]
    /\ Observe(o)
    /\ UNCHANGED <<owner, receipts, now, held, starting, claimed, accepted>>

(* Mutant: the record is replaced whatever the revision. *)
SameRevision_Any(r, expected) == TRUE

SameRevision(r, expected) == runs[r].revision = expected

Reindexed(r, p, rec) ==
    IF IsUnresolved(rec) THEN unresolved[r] \cup {p} ELSE unresolved[r] \ {p}

CommitInvocation(o, p, rec) ==
    /\ held[o] # Nothing /\ Called(o)
    /\ LET r == held[o].run IN
       /\ runs[r] # NoRun
       /\ SameRevision(r, held[o].snapshot.revision)
       /\ Replaceable(runs[r], p, rec)
       /\ runs' = [runs EXCEPT ![r].nodes[p] = rec, ![r].revision = @ + 1]
       /\ bytes' = [bytes EXCEPT ![r] = Monus(@, runs[r].nodes[p].bytes) + rec.bytes]
       /\ unresolved' = [unresolved EXCEPT ![r] = Reindexed(r, p, rec)]
    /\ Observe(o)
    /\ UNCHANGED <<owner, receipts, now, held, starting, claimed, accepted>>

-----------------------------------------------------------------------------
Finished == {r \in Runs : runs[r] # NoRun /\ runs[r].state \in Terminal}

(* Sorted by the time they finished, the oldest excess first; Order breaks
   ties as the ids do. *)
Order == CHOOSE f \in [Runs -> 1..Cardinality(Runs)] : \A q, r \in Runs : f[q] = f[r] => q = r

Later(q, r) == \/ runs[q].finished > runs[r].finished
               \/ runs[q].finished = runs[r].finished /\ Order[q] > Order[r]

Surplus(r) == Cardinality({q \in Finished : Later(q, r)}) >= TerminalRuns

Old(r) == r \in Finished /\ now - runs[r].finished >= Retention

Collected == {r \in Runs : Old(r) \/ (r \in Finished /\ Surplus(r))}

Removes ==
    /\ receipts' = Live(now)
    /\ runs' = [r \in Runs |-> IF r \in Collected THEN NoRun ELSE runs[r]]
    /\ bytes' = [r \in Runs |-> IF r \in Collected THEN 0 ELSE bytes[r]]
    /\ unresolved' = [r \in Runs |-> IF r \in Collected THEN {} ELSE unresolved[r]]
    /\ UNCHANGED <<owner, now, held, claimed, accepted, lost>>

Collect(o) == Called(o) /\ Removes /\ UNCHANGED starting

(* start, once admission is its own: the clock, and the collection by it. *)
StartReads(o) ==
    /\ starting = NoTime
    /\ Called(o) /\ Removes
    /\ starting' = now

Tick ==
    /\ now < MaxTime
    /\ now' = now + 1
    /\ UNCHANGED <<owner, runs, receipts, by, bytes, unresolved, held, starting, claimed, accepted, lost>>

InBound(o) == held[o] # Nothing /\ held[o].snapshot.revision < MaxRevision

Next ==
    \/ Tick
    \/ StartFails
    \/ \E o \in Owners :
        \/ Claim(o)
        \/ Release(o)
        \/ Collect(o)
        \/ StartReads(o)
        \/ \E r \in Runs : Read(o, r)
        \/ \E k \in Keys \cup {NoKey} : CreateRefused(o, k)
        \/ \E r \in Runs, k \in Keys \cup {NoKey}, q \in Requests : Create(o, r, k, q)
        \/ InBound(o) /\ Commit(o)
        \/ InBound(o) /\ \E p \in Paths, rec \in Records : CommitInvocation(o, p, rec)

Spec == Init /\ [][Next]_vars

-----------------------------------------------------------------------------
Copy == [run: Runs, snapshot: Snapshot]

(* Types of the provider's state and of the copies its callers hold. *)
TypeOK ==
    /\ owner \in Owners \cup {NoOwner} /\ by \in Owners \cup {NoOwner}
    /\ runs \in [Runs -> Snapshot \cup {NoRun}]
    /\ receipts \in [Keys -> Receipt \cup {NoReceipt}]
    /\ bytes \in [Runs -> Nat] /\ unresolved \in [Runs -> SUBSET Paths]
    /\ held \in [Owners -> Copy \cup {Nothing}]
    /\ starting \in Nat \cup {NoTime}
    /\ claimed \subseteq Owners /\ now \in Nat /\ lost \in BOOLEAN
    /\ accepted \in [Runs -> Ident \cup {NoIdent}]

(* The incremental projection (StoredRun::after, commit_invocation) never
   drifts from what RunSnapshot::head would derive from the checkpoint. *)
HeadIsProjection ==
    \A r \in Runs : runs[r] # NoRun =>
        bytes[r] = DataBytes(runs[r]) /\ unresolved[r] = Unresolved(runs[r])

(* No accepted write, whole or of one record, replaces a checkpoint that its
   caller has not read: concurrent tasks and late runtimes lose, visibly. *)
NothingLost == ~lost

(* A reservation and the record of its wait node never part, although records
   are also replaced one at a time: a pair that parted would make every later
   commit of the run invalid. *)
WaitsMatchRecords ==
    \A r \in Runs : runs[r] # NoRun =>
        \A p \in Paths : runs[r].waits[p] # "none" <=> runs[r].nodes[p].kind = "wait"

(* A run stays what it was accepted as, whatever the copies sent. *)
AcceptedIdentity == \A r \in Runs : runs[r] # NoRun => runs[r].ident = accepted[r]

(* Until the time a receipt names has come (deduplicated_until_ms), no other
   run is accepted under its key: whatever clock the start has read before it
   waited, whoever collected the receipt or the run in between, and whichever
   runtime asks. *)
OneRunPerReceipt ==
    [][\A q, r \in Runs :
          /\ accepted[q] # NoIdent /\ accepted[q].key # NoKey
          /\ accepted[r] = NoIdent /\ accepted'[r] # NoIdent
          /\ accepted'[r].key = accepted[q].key
          => accepted[q].born + TTL <= now]_vars

(* The provider is a store: each of its calls is one the contract allows, made
   by the owner of the moment. *)
MeetsContract == Contract!Spec
=============================================================================
