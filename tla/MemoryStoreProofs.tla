-------------------------- MODULE MemoryStoreProofs --------------------------
(***************************************************************************)
(* Proofs about MemoryStore, for any number of runs, runtimes, receipt keys *)
(* and invocation paths and any limits: the provider implements the store   *)
(* contract, no commit replaces what its caller has not read, and a receipt *)
(* key makes no second run before the time the receipt names.               *)
(*                                                                          *)
(* The argument: a copy that a runtime holds is never ahead of the          *)
(* checkpoint, and is the checkpoint when their revisions agree; the time a *)
(* start has read is not after the clock, so the receipt of an accepted run *)
(* is kept until the clock has reached the time it names.                   *)
(***************************************************************************)
EXTENDS MemoryStore, SnapshotsProofs

(* TypeOK without the projection. *)
TypeInv ==
    /\ owner \in Owners \cup {NoOwner}
    /\ runs \in [Runs -> Snapshot \cup {NoRun}]
    /\ receipts \in [Keys -> Receipt \cup {NoReceipt}]
    /\ held \in [Owners -> Copy \cup {Nothing}]
    /\ now \in Nat
    /\ starting \in Nat \cup {NoTime}
    /\ accepted \in [Runs -> Ident \cup {NoIdent}]

(* A run that is stored, or that some runtime has a copy of, was accepted. *)
KnownInv ==
    /\ \A r \in Runs : runs[r] # NoRun => accepted[r] # NoIdent
    /\ \A o \in Owners : held[o] # Nothing => accepted[held[o].run] # NoIdent

(* A copy is what the checkpoint was at the copy's revision. *)
CopyInv ==
    \A o \in Owners :
        held[o] # Nothing /\ runs[held[o].run] # NoRun =>
            /\ held[o].snapshot.revision <= runs[held[o].run].revision
            /\ held[o].snapshot.revision = runs[held[o].run].revision =>
                  held[o].snapshot = runs[held[o].run]

WaitsInv == \A r \in Runs : runs[r] # NoRun => WaitsHold(runs[r])

(* The receipt of an accepted run is kept for its life. *)
ReceiptInv ==
    \A r \in Runs : accepted[r] # NoIdent /\ accepted[r].key # NoKey =>
        \/ accepted[r].born + TTL <= now
        \/ /\ receipts[accepted[r].key] # NoReceipt
           /\ receipts[accepted[r].key].run = r
           /\ receipts[accepted[r].key].expires = accepted[r].born + TTL

(* The clock a start has read. *)
StartInv == starting # NoTime => starting <= now

IInv == /\ TypeInv /\ KnownInv /\ CopyInv /\ WaitsInv /\ ReceiptInv /\ StartInv
        /\ NothingLost

-----------------------------------------------------------------------------
(* Values *)

LEMMA NothingIsNoCopy == Nothing \notin Copy
<1>1. \A c \in Copy : "snapshot" \in DOMAIN c
  BY DEF Copy
<1>2. "snapshot" \notin DOMAIN Nothing
  BY DEF Nothing
<1> QED
  BY <1>1, <1>2

(* A checkpoint is kept apart from the absence of one. *)
LEMMA Stored ==
    ASSUME TypeInv, NEW r \in Runs, runs[r] # NoRun
    PROVE  runs[r] \in Snapshot
  BY DEF TypeInv

LEMMA HeldCopy ==
    ASSUME TypeInv, NEW o \in Owners, held[o] # Nothing
    PROVE  held[o] \in Copy /\ held[o].run \in Runs /\ held[o].snapshot \in Snapshot
<1>1. held[o] \in Copy
  BY DEF TypeInv
<1> QED
  BY <1>1 DEF Copy

(* Both commits: what the run becomes is a legal successor of what it was,  *)
(* made of the caller's copy.                                               *)
LEMMA CommitMeans ==
    ASSUME IInv, NEW o \in Owners, Commit(o)
    PROVE  \E t \in Snapshot :
              /\ held[o] # Nothing /\ runs[held[o].run] # NoRun
              /\ ValidSuccessor(runs[held[o].run], t)
              /\ t.revision = held[o].snapshot.revision + 1
              /\ runs' = [runs EXCEPT ![held[o].run] = t]
<1>1. /\ held[o] # Nothing /\ runs[held[o].run] # NoRun
      /\ \E t \in Edits(held[o].snapshot, now) :
            /\ ValidSuccessor(runs[held[o].run], t)
            /\ runs' = [runs EXCEPT ![held[o].run] = t]
  BY DEF Commit
<1>2. held[o].snapshot \in Snapshot /\ now \in Nat
  BY <1>1, HeldCopy DEF IInv, TypeInv
<1> QED
  BY <1>1, <1>2, EditsTyped

LEMMA CommitInvocationMeans ==
    ASSUME IInv, NEW o \in Owners, NEW p \in Paths, NEW rec \in Records,
           CommitInvocation(o, p, rec)
    PROVE  LET r == held[o].run
               t == Replaced(runs[r], p, rec)
           IN  /\ held[o] # Nothing /\ r \in Runs /\ runs[r] # NoRun
               /\ runs[r] \in Snapshot /\ rec \in Record /\ t \in Snapshot
               /\ ValidSuccessor(runs[r], t)
               /\ t.revision = held[o].snapshot.revision + 1
               /\ runs' = [runs EXCEPT ![r] = t]
<1> DEFINE r == held[o].run
           t == Replaced(runs[r], p, rec)
<1>1. /\ held[o] # Nothing /\ runs[r] # NoRun
      /\ runs[r].revision = held[o].snapshot.revision
      /\ Replaceable(runs[r], p, rec)
      /\ runs' = [runs EXCEPT ![r].nodes[p] = rec, ![r].revision = @ + 1]
  BY DEF CommitInvocation, SameRevision
<1>2. r \in Runs /\ runs[r] \in Snapshot /\ WaitsHold(runs[r])
  BY <1>1, HeldCopy, Stored DEF IInv, WaitsInv
<1>3. runs' = [runs EXCEPT ![r] = t]
  BY <1>1, <1>2 DEF IInv, TypeInv, Replaced
<1>4. rec \in Record
  BY SnapshotsAssumption
<1>5. t \in Snapshot /\ t.revision = runs[r].revision + 1
  BY <1>2, <1>4, ReplacedFields
<1>6. ValidSuccessor(runs[r], t)
  BY <1>1, <1>2, <1>4, ReplacedIsSuccessor
<1> QED
  BY <1>1, <1>2, <1>3, <1>4, <1>5, <1>6

-----------------------------------------------------------------------------
(* The invariant *)

(* A commit replaces what its caller holds: revisions say so. *)
LEMMA CommitKeeps ==
    ASSUME IInv, NEW o \in Owners, NEW t \in Snapshot,
           held[o] # Nothing, runs[held[o].run] # NoRun,
           ValidSuccessor(runs[held[o].run], t),
           t.revision = held[o].snapshot.revision + 1,
           runs' = [runs EXCEPT ![held[o].run] = t],
           Observe(o), UNCHANGED <<owner, receipts, now, held, starting, accepted>>
    PROVE  IInv'
<1> DEFINE r == held[o].run
<1>1. /\ r \in Runs /\ runs[r] \in Snapshot /\ held[o].snapshot \in Snapshot
  BY HeldCopy, Stored DEF IInv
<1>2. /\ runs[r].revision \in Nat /\ held[o].snapshot.revision \in Nat
      /\ t.revision = runs[r].revision + 1
  BY <1>1, SnapshotFields DEF ValidSuccessor
<1>3. held[o].snapshot = runs[r]
  BY <1>1, <1>2 DEF IInv, CopyInv
<1>4. TypeInv'
  BY <1>1 DEF IInv, TypeInv
<1>5. /\ runs'[r] = t /\ t # NoRun
      /\ \A q \in Runs \ {r} : runs'[q] = runs[q]
  BY <1>1, Absence DEF IInv, TypeInv
<1>6. KnownInv'
  BY <1>1, <1>5 DEF IInv, KnownInv
<1>7. CopyInv'
  <2> SUFFICES ASSUME NEW h \in Owners, held[h] # Nothing, runs'[held[h].run] # NoRun
               PROVE  /\ held[h].snapshot.revision <= runs'[held[h].run].revision
                      /\ held[h].snapshot.revision = runs'[held[h].run].revision =>
                            held[h].snapshot = runs'[held[h].run]
    BY DEF CopyInv
  <2>1. held[h].run \in Runs /\ held[h].snapshot.revision \in Nat
    BY HeldCopy, SnapshotFields DEF IInv
  <2>2. CASE held[h].run = r
    <3>1. held[h].snapshot.revision <= runs[r].revision
      BY <2>2 DEF IInv, CopyInv
    <3> QED
      BY <1>2, <1>5, <2>1, <2>2, <3>1
  <2>3. CASE held[h].run # r
    BY <1>5, <2>1, <2>3 DEF IInv, CopyInv
  <2> QED
    BY <2>2, <2>3
<1>8. WaitsInv'
  <2>1. WaitsHold(t)
    BY SuccessorWaits
  <2> QED
    BY <1>5, <2>1 DEF IInv, WaitsInv
<1>9. NothingLost'
  BY <1>3 DEF IInv, NothingLost, Observe
<1>10. ReceiptInv' /\ StartInv'
  BY DEF IInv, ReceiptInv, StartInv
<1> QED
  BY <1>4, <1>6, <1>7, <1>8, <1>9, <1>10 DEF IInv

(* Dropping what has expired forgets no life that still counts. *)
LEMMA LiveKeeps ==
    ASSUME TypeInv, ReceiptInv, NEW at \in Nat, at <= now
    PROVE  /\ Live(at) \in [Keys -> Receipt \cup {NoReceipt}]
           /\ \A k \in Keys : \/ Live(at)[k] = receipts[k]
                              \/ /\ Live(at)[k] = NoReceipt /\ receipts[k] # NoReceipt
                                 /\ receipts[k].expires <= at
           /\ \A r \in Runs : accepted[r] # NoIdent /\ accepted[r].key # NoKey =>
                 \/ accepted[r].born + TTL <= now
                 \/ /\ Live(at)[accepted[r].key] # NoReceipt
                    /\ Live(at)[accepted[r].key].run = r
                    /\ Live(at)[accepted[r].key].expires = accepted[r].born + TTL
<1>1. Live(at) \in [Keys -> Receipt \cup {NoReceipt}]
  BY DEF Live, TypeInv
<1>2. ASSUME NEW k \in Keys
      PROVE  \/ Live(at)[k] = receipts[k]
             \/ /\ Live(at)[k] = NoReceipt /\ receipts[k] # NoReceipt
                /\ receipts[k].expires <= at
  <2>1. receipts[k] = NoReceipt \/ receipts[k].expires \in Nat
    BY DEF TypeInv, Receipt
  <2> QED
    BY <2>1 DEF Live, TypeInv
<1>3. ASSUME NEW r \in Runs, accepted[r] # NoIdent, accepted[r].key # NoKey
      PROVE  \/ accepted[r].born + TTL <= now
             \/ /\ Live(at)[accepted[r].key] # NoReceipt
                /\ Live(at)[accepted[r].key].run = r
                /\ Live(at)[accepted[r].key].expires = accepted[r].born + TTL
  <2>1. accepted[r].key \in Keys /\ accepted[r].born \in Nat /\ now \in Nat /\ TTL \in Nat
    BY <1>3, SnapshotsAssumption DEF TypeInv, Ident
  <2> QED
    BY <1>2, <1>3, <2>1 DEF ReceiptInv
<1> QED
  BY <1>1, <1>2, <1>3

LEMMA CreateKeeps ==
    ASSUME IInv, NEW o \in Owners, NEW r \in Runs, NEW k \in Keys \cup {NoKey},
           NEW q \in Requests, Create(o, r, k, q)
    PROVE  IInv'
<1> DEFINE at == starting
           ident == [key |-> k, request |-> q, born |-> at]
           receipt == [run |-> r, request |-> q, expires |-> at + TTL]
<1>1. /\ runs[r] = NoRun /\ accepted[r] = NoIdent
      /\ k # NoKey => Live(at)[k] = NoReceipt
      /\ receipts' = IF k = NoKey THEN Live(at) ELSE [Live(at) EXCEPT ![k] = receipt]
      /\ runs' = [runs EXCEPT ![r] = Initial(ident)]
      /\ accepted' = [accepted EXCEPT ![r] = ident]
      /\ starting' = NoTime /\ UNCHANGED <<owner, now, held, lost>>
  BY DEF Create, StartEnds, Admits
<1>2. TTL \in Nat /\ now \in Nat /\ at \in Nat /\ at <= now
  BY SnapshotsAssumption DEF IInv, TypeInv, StartInv, Create, StartEnds
<1>3. ident \in Ident /\ ident # NoIdent
  BY <1>2, Absence DEF Ident
<1>4. receipt \in Receipt /\ receipt # NoReceipt
  BY <1>2, Absence DEF Receipt
<1>5. Initial(ident) \in Snapshot /\ Initial(ident) # NoRun /\ WaitsHold(Initial(ident))
  BY <1>3, InitialTyped, Absence
<1>6. ident.key = k /\ ident.born = at
  OBVIOUS
<1>7. receipt.run = r /\ receipt.expires = at + TTL
  OBVIOUS
<1> HIDE DEF at, ident, receipt
<1>8. /\ Live(at) \in [Keys -> Receipt \cup {NoReceipt}]
      /\ \A a \in Runs : accepted[a] # NoIdent /\ accepted[a].key # NoKey =>
            \/ accepted[a].born + TTL <= now
            \/ /\ Live(at)[accepted[a].key] # NoReceipt
               /\ Live(at)[accepted[a].key].run = a
               /\ Live(at)[accepted[a].key].expires = accepted[a].born + TTL
  BY <1>2, LiveKeeps DEF IInv
<1>9. TypeInv'
  BY <1>1, <1>2, <1>3, <1>4, <1>5, <1>8 DEF IInv, TypeInv
<1>10. /\ accepted'[r] = ident /\ runs'[r] = Initial(ident)
       /\ \A a \in Runs \ {r} : accepted'[a] = accepted[a] /\ runs'[a] = runs[a]
  BY <1>1 DEF IInv, TypeInv
<1>11. \A h \in Owners : held[h] # Nothing => held[h].run \in Runs /\ held[h].run # r
  BY <1>1, HeldCopy DEF IInv, KnownInv
<1>12. KnownInv'
  BY <1>1, <1>3, <1>10, <1>11 DEF IInv, KnownInv
<1>13. CopyInv'
  BY <1>1, <1>10, <1>11 DEF IInv, CopyInv
<1>14. WaitsInv'
  BY <1>5, <1>10 DEF IInv, WaitsInv
<1>15. NothingLost'
  BY <1>1 DEF IInv, NothingLost
<1>16. ReceiptInv'
  <2> SUFFICES ASSUME NEW a \in Runs, accepted'[a] # NoIdent, accepted'[a].key # NoKey
               PROVE  \/ accepted'[a].born + TTL <= now
                      \/ /\ receipts'[accepted'[a].key] # NoReceipt
                         /\ receipts'[accepted'[a].key].run = a
                         /\ receipts'[accepted'[a].key].expires = accepted'[a].born + TTL
    BY <1>1 DEF ReceiptInv
  <2>1. CASE a = r
    <3>1. k \in Keys /\ receipts'[k] = receipt
      BY <1>1, <1>6, <1>8, <1>10, <2>1
    <3> QED
      BY <1>4, <1>6, <1>7, <1>10, <2>1, <3>1
  <2>2. CASE a # r
    <3>1. accepted[a].key \in Keys
      BY <1>10, <2>2 DEF IInv, TypeInv, Ident
    <3>2. accepted[a].born + TTL <= now \/ accepted[a].key # k
      BY <1>1, <1>8, <1>10, <2>2
    <3> QED
      BY <1>1, <1>8, <1>10, <2>2, <3>1, <3>2
  <2> QED
    BY <2>1, <2>2
<1>17. StartInv'
  BY <1>1 DEF StartInv
<1> QED
  BY <1>9, <1>12, <1>13, <1>14, <1>15, <1>16, <1>17 DEF IInv

(* Collection removes runs and expired receipts, and nothing it knows of    *)
(* acceptances.                                                             *)
LEMMA CollectKeeps ==
    ASSUME IInv, Removes
    PROVE  starting' \in {starting, now, NoTime} => IInv'
<1>1. /\ receipts' = Live(now)
      /\ runs' = [r \in Runs |-> IF r \in Collected THEN NoRun ELSE runs[r]]
      /\ UNCHANGED <<owner, now, held, accepted, lost>>
  BY DEF Removes
<1>2. \A r \in Runs : runs'[r] = NoRun \/ runs'[r] = runs[r]
  BY <1>1
<1>3. /\ Live(now) \in [Keys -> Receipt \cup {NoReceipt}]
      /\ \A r \in Runs : accepted[r] # NoIdent /\ accepted[r].key # NoKey =>
            \/ accepted[r].born + TTL <= now
            \/ /\ Live(now)[accepted[r].key] # NoReceipt
               /\ Live(now)[accepted[r].key].run = r
               /\ Live(now)[accepted[r].key].expires = accepted[r].born + TTL
  BY LiveKeeps DEF IInv, TypeInv
<1>4. starting' \in {starting, now, NoTime} => TypeInv' /\ StartInv'
  BY <1>1, <1>3 DEF IInv, TypeInv, StartInv
<1>5. KnownInv' /\ WaitsInv'
  BY <1>1, <1>2 DEF IInv, KnownInv, WaitsInv
<1>6. CopyInv'
  <2>1. \A h \in Owners : held[h] # Nothing => held[h].run \in Runs
    BY HeldCopy DEF IInv
  <2> QED
    BY <1>1, <1>2, <2>1 DEF IInv, CopyInv
<1>7. ReceiptInv'
  BY <1>1, <1>3 DEF ReceiptInv
<1>8. NothingLost'
  BY <1>1 DEF IInv, NothingLost
<1> QED
  BY <1>4, <1>5, <1>6, <1>7, <1>8 DEF IInv

LEMMA ReadKeeps ==
    ASSUME IInv, NEW o \in Owners, NEW r \in Runs, Read(o, r)
    PROVE  IInv'
<1> DEFINE copy == [run |-> r, snapshot |-> runs[r]]
<1>1. /\ runs[r] # NoRun /\ held' = [held EXCEPT ![o] = copy]
      /\ UNCHANGED <<owner, runs, receipts, now, starting, accepted, lost>>
  BY DEF Read, storeVars
<1>2. runs[r] \in Snapshot
  BY <1>1, Stored DEF IInv
<1>3. copy \in Copy /\ copy.run = r /\ copy.snapshot = runs[r]
  BY <1>2 DEF Copy
<1> HIDE DEF copy
<1>4. held'[o] = copy /\ \A h \in Owners \ {o} : held'[h] = held[h]
  BY <1>1 DEF IInv, TypeInv
<1>5. TypeInv'
  BY <1>1, <1>3 DEF IInv, TypeInv
<1>6. KnownInv'
  BY <1>1, <1>3, <1>4 DEF IInv, KnownInv
<1>7. runs[r].revision \in Nat
  BY <1>2, SnapshotFields
<1>8. CopyInv'
  BY <1>1, <1>3, <1>4, <1>7 DEF IInv, CopyInv
<1>9. WaitsInv' /\ ReceiptInv' /\ StartInv' /\ NothingLost'
  BY <1>1 DEF IInv, WaitsInv, ReceiptInv, StartInv, NothingLost
<1> QED
  BY <1>5, <1>6, <1>8, <1>9 DEF IInv

LEMMA RefusalKeeps ==
    ASSUME IInv, NEW o \in Owners, NEW k \in Keys \cup {NoKey}, CreateRefused(o, k)
    PROVE  IInv'
<1>1. /\ starting # NoTime /\ receipts' = Live(starting) /\ starting' = NoTime
      /\ UNCHANGED <<owner, runs, now, held, accepted, lost>>
  BY DEF CreateRefused, StartEnds
<1>2. starting \in Nat /\ starting <= now
  BY <1>1 DEF IInv, TypeInv, StartInv
<1>3. TypeInv' /\ ReceiptInv' /\ StartInv'
  BY <1>1, <1>2, LiveKeeps DEF IInv, TypeInv, ReceiptInv, StartInv
<1>4. KnownInv' /\ CopyInv' /\ WaitsInv' /\ NothingLost'
  BY <1>1 DEF IInv, KnownInv, CopyInv, WaitsInv, NothingLost
<1> QED
  BY <1>3, <1>4 DEF IInv

(* A start that ends without the store keeps everything. *)
LEMMA StartFailsKeeps ==
    ASSUME IInv, StartFails
    PROVE  IInv'
<1>1. starting' = NoTime /\ UNCHANGED <<owner, runs, receipts, now, held, accepted, lost>>
  BY DEF StartFails, StartEnds, storeVars
<1> QED
  BY <1>1 DEF IInv, TypeInv, KnownInv, CopyInv, WaitsInv, ReceiptInv, StartInv, NothingLost

LEMMA TickKeeps ==
    ASSUME IInv, Tick
    PROVE  IInv'
<1>1. now' = now + 1 /\ UNCHANGED <<owner, runs, receipts, held, starting, accepted, lost>>
  BY DEF Tick
<1>2. now \in Nat /\ TTL \in Nat
  BY SnapshotsAssumption DEF IInv, TypeInv
<1>3. TypeInv'
  BY <1>1, <1>2 DEF IInv, TypeInv
<1>4. ReceiptInv'
  <2>1. \A r \in Runs : accepted[r] # NoIdent => accepted[r].born \in Nat
    BY DEF IInv, TypeInv, Ident
  <2> QED
    BY <1>1, <1>2, <2>1 DEF IInv, ReceiptInv
<1>5. KnownInv' /\ CopyInv' /\ WaitsInv' /\ NothingLost'
  BY <1>1 DEF IInv, KnownInv, CopyInv, WaitsInv, NothingLost
<1>6. StartInv'
  BY <1>1, <1>2 DEF IInv, TypeInv, StartInv, NoTime
<1> QED
  BY <1>3, <1>4, <1>5, <1>6 DEF IInv

LEMMA OwnerKeeps ==
    ASSUME IInv, NEW o \in Owners, Claim(o) \/ Release(o)
    PROVE  IInv'
<1>1. /\ owner' \in {o, NoOwner} /\ starting' \in {starting, NoTime}
      /\ UNCHANGED <<runs, receipts, now, held, accepted, lost>>
  BY DEF Claim, Release
<1>2. TypeInv'
  BY <1>1 DEF IInv, TypeInv
<1>3. /\ KnownInv' /\ CopyInv' /\ WaitsInv' /\ ReceiptInv' /\ StartInv' /\ NothingLost'
  BY <1>1 DEF IInv, KnownInv, CopyInv, WaitsInv, ReceiptInv, StartInv, NothingLost
<1> QED
  BY <1>2, <1>3 DEF IInv

LEMMA Initially == Init => IInv
<1> SUFFICES ASSUME Init PROVE IInv
  OBVIOUS
<1>1. TypeInv /\ KnownInv /\ CopyInv
  BY DEF Init, TypeInv, KnownInv, CopyInv
<1>2. WaitsInv /\ ReceiptInv /\ StartInv /\ NothingLost
  BY DEF Init, WaitsInv, ReceiptInv, StartInv, NothingLost
<1> QED
  BY <1>1, <1>2 DEF IInv

LEMMA Inductive == IInv /\ [Next]_vars => IInv'
<1> SUFFICES ASSUME IInv, [Next]_vars PROVE IInv'
  OBVIOUS
<1>1. CASE UNCHANGED vars
  BY <1>1 DEF vars, storeVars, IInv, TypeInv, KnownInv, CopyInv, WaitsInv, ReceiptInv,
              StartInv, NothingLost
<1>2. CASE Tick
  BY <1>2, TickKeeps
<1>3. ASSUME NEW o \in Owners, Claim(o) \/ Release(o)
      PROVE  IInv'
  BY <1>3, OwnerKeeps
<1>4. ASSUME NEW o \in Owners, Collect(o) \/ StartReads(o)
      PROVE  IInv'
  <2>1. Removes /\ starting' \in {starting, now}
    BY <1>4 DEF Collect, StartReads
  <2> QED
    BY <2>1, CollectKeeps
<1>10. CASE StartFails
  BY <1>10, StartFailsKeeps
<1>5. ASSUME NEW o \in Owners, NEW r \in Runs, Read(o, r)
      PROVE  IInv'
  BY <1>5, ReadKeeps
<1>6. ASSUME NEW o \in Owners, NEW k \in Keys \cup {NoKey}, CreateRefused(o, k)
      PROVE  IInv'
  BY <1>6, RefusalKeeps
<1>7. ASSUME NEW o \in Owners, NEW r \in Runs, NEW k \in Keys \cup {NoKey},
             NEW q \in Requests, Create(o, r, k, q)
      PROVE  IInv'
  BY <1>7, CreateKeeps
<1>8. ASSUME NEW o \in Owners, Commit(o)
      PROVE  IInv'
  <2>1. Observe(o) /\ UNCHANGED <<owner, receipts, now, held, starting, accepted>>
    BY <1>8 DEF Commit
  <2> QED
    BY <1>8, <2>1, CommitMeans, CommitKeeps
<1>9. ASSUME NEW o \in Owners, NEW p \in Paths, NEW rec \in Records,
             CommitInvocation(o, p, rec)
      PROVE  IInv'
  <2>1. Observe(o) /\ UNCHANGED <<owner, receipts, now, held, starting, accepted>>
    BY <1>9 DEF CommitInvocation
  <2> QED
    BY <1>9, <2>1, CommitInvocationMeans, CommitKeeps
<1> QED
  BY <1>1, <1>2, <1>3, <1>4, <1>5, <1>6, <1>7, <1>8, <1>9, <1>10 DEF Next

LEMMA Invariant == Spec => []IInv
  BY Initially, Inductive, PTL DEF Spec

(* A commit that is accepted replaces exactly what its caller has read      *)
(* (memory.rs: the revision check of commit and commit_invocation).         *)
THEOREM NoUpdateIsLost == Spec => []NothingLost
<1>1. IInv => NothingLost
  BY DEF IInv
<1> QED
  BY <1>1, Invariant, PTL

(* No acceptance meets the receipt of an earlier one before its time. *)
LEMMA AcceptanceWaits ==
    ASSUME IInv, NEW o \in Owners, NEW r \in Runs, NEW k \in Keys \cup {NoKey},
           NEW x \in Requests, Create(o, r, k, x),
           NEW q \in Runs, accepted[q] # NoIdent, accepted[q].key = k, k # NoKey
    PROVE  accepted[q].born + TTL <= now
<1>1. starting \in Nat /\ starting <= now /\ Live(starting)[k] = NoReceipt
  BY DEF Create, StartEnds, Admits, IInv, TypeInv, StartInv
<1> QED
  BY <1>1, LiveKeeps DEF IInv

(* Only create accepts. *)
LEMMA AcceptanceIsCreate ==
    ASSUME [Next]_vars, NEW r \in Runs, accepted[r] # accepted'[r]
    PROVE  \E o \in Owners, a \in Runs, k \in Keys \cup {NoKey}, x \in Requests :
              Create(o, a, k, x)
<1>1. CASE UNCHANGED vars
  BY <1>1 DEF vars
<1>2. CASE Tick \/ StartFails
  BY <1>2 DEF Tick, StartFails
<1>3. ASSUME NEW o \in Owners, Claim(o) \/ Release(o) \/ Collect(o) \/ StartReads(o)
      PROVE  FALSE
  BY <1>3 DEF Claim, Release, Collect, StartReads, Removes
<1>4. ASSUME NEW o \in Owners, NEW a \in Runs, Read(o, a)
      PROVE  FALSE
  BY <1>4 DEF Read
<1>5. ASSUME NEW o \in Owners, NEW k \in Keys \cup {NoKey}, CreateRefused(o, k)
      PROVE  FALSE
  BY <1>5 DEF CreateRefused
<1>6. ASSUME NEW o \in Owners, Commit(o)
      PROVE  FALSE
  BY <1>6 DEF Commit
<1>7. ASSUME NEW o \in Owners, NEW p \in Paths, NEW rec \in Records,
             CommitInvocation(o, p, rec)
      PROVE  FALSE
  BY <1>7 DEF CommitInvocation
<1> QED
  BY <1>1, <1>2, <1>3, <1>4, <1>5, <1>6, <1>7 DEF Next

(* Until the time its receipt names, a key makes no second run, whatever    *)
(* clock the start read, whoever collected in between (memory.rs: create,   *)
(* collect; application.rs: start).                                         *)
THEOREM KeysMakeOneRun == Spec => OneRunPerReceipt
<1> DEFINE Once == \A q, r \in Runs :
                      /\ accepted[q] # NoIdent /\ accepted[q].key # NoKey
                      /\ accepted[r] = NoIdent /\ accepted'[r] # NoIdent
                      /\ accepted'[r].key = accepted[q].key
                      => accepted[q].born + TTL <= now
<1>1. IInv /\ [Next]_vars => [Once]_vars
  <2> SUFFICES ASSUME IInv, [Next]_vars,
                      NEW q \in Runs, NEW r \in Runs,
                      accepted[q] # NoIdent, accepted[q].key # NoKey,
                      accepted[r] = NoIdent, accepted'[r] # NoIdent,
                      accepted'[r].key = accepted[q].key
               PROVE  accepted[q].born + TTL <= now
    OBVIOUS
  <2>1. PICK o \in Owners, a \in Runs, k \in Keys \cup {NoKey}, x \in Requests :
            Create(o, a, k, x)
    BY AcceptanceIsCreate
  <2>2. accepted' = [accepted EXCEPT ![a] = [key |-> k, request |-> x, born |-> starting]]
    BY <2>1 DEF Create
  <2>3. accepted \in [Runs -> Ident \cup {NoIdent}]
    BY DEF IInv, TypeInv
  <2>4. accepted'[r].key = k
    BY <2>2, <2>3
  <2> QED
    BY <2>1, <2>4, AcceptanceWaits
<1> QED
  BY <1>1, Invariant, PTL DEF Spec, OneRunPerReceipt

-----------------------------------------------------------------------------
(* The projection *)

ProjectionInv ==
    /\ bytes \in [Runs -> Nat] /\ unresolved \in [Runs -> SUBSET Paths]
    /\ HeadIsProjection

(* One run is rewritten, and its projection with it. *)
LEMMA ProjectionMoves ==
    ASSUME IInv, ProjectionInv, NEW r \in Runs, NEW t \in Snapshot,
           runs' = [runs EXCEPT ![r] = t],
           bytes' = [bytes EXCEPT ![r] = DataBytes(t)],
           unresolved' = [unresolved EXCEPT ![r] = Unresolved(t)]
    PROVE  ProjectionInv'
<1>1. DataBytes(t) \in Nat
  BY BytesTyped
<1>2. Unresolved(t) \in SUBSET Paths
  BY DEF Unresolved
<1>3. /\ runs'[r] = t /\ bytes'[r] = DataBytes(t) /\ unresolved'[r] = Unresolved(t)
      /\ \A q \in Runs \ {r} : /\ runs'[q] = runs[q] /\ bytes'[q] = bytes[q]
                               /\ unresolved'[q] = unresolved[q]
  BY DEF IInv, TypeInv, ProjectionInv
<1>4. HeadIsProjection'
  BY <1>3 DEF ProjectionInv, HeadIsProjection
<1> QED
  BY <1>1, <1>2, <1>4 DEF ProjectionInv

(* The incremental values of a commit are those of its replacement. *)
LEMMA AfterIsProjection ==
    ASSUME IInv, ProjectionInv, NEW r \in Runs, runs[r] # NoRun, NEW t \in Snapshot
    PROVE  BytesAfter(r, t) = DataBytes(t) /\ UnresolvedAfter(r, t) = Unresolved(t)
<1>1. runs[r] \in Snapshot
  BY Stored DEF IInv
<1>2. bytes[r] = DataBytes(runs[r]) /\ unresolved[r] = Unresolved(runs[r])
  BY DEF ProjectionInv, HeadIsProjection
<1>3. CASE t.nodes = runs[r].nodes
  <2>1. /\ DataBytes(runs[r]) \in Nat /\ ResultBytes(runs[r]) \in Nat /\ ResultBytes(t) \in Nat
        /\ DataBytes(runs[r]) >= ResultBytes(runs[r])
    BY <1>1, BytesTyped
  <2>2. DataBytes(t) = DataBytes(runs[r]) - ResultBytes(runs[r]) + ResultBytes(t)
    BY <1>1, <1>3, BytesRebased
  <2>3. Monus(bytes[r], ResultBytes(runs[r])) = DataBytes(runs[r]) - ResultBytes(runs[r])
    BY <1>2, <2>1 DEF Monus
  <2>4. Unresolved(t) = Unresolved(runs[r])
    BY <1>3 DEF Unresolved
  <2> QED
    BY <1>2, <1>3, <2>2, <2>3, <2>4 DEF BytesAfter, UnresolvedAfter
<1>4. CASE t.nodes # runs[r].nodes
  BY <1>4 DEF BytesAfter, UnresolvedAfter
<1> QED
  BY <1>3, <1>4

LEMMA CommitProjects ==
    ASSUME IInv, ProjectionInv, NEW o \in Owners, Commit(o)
    PROVE  ProjectionInv'
<1> DEFINE r == held[o].run
<1>1. held[o] # Nothing /\ runs[r] # NoRun
  BY DEF Commit
<1>2. PICK t \in Edits(held[o].snapshot, now) :
          /\ runs' = [runs EXCEPT ![r] = t]
          /\ bytes' = [bytes EXCEPT ![r] = BytesAfter(r, t)]
          /\ unresolved' = [unresolved EXCEPT ![r] = UnresolvedAfter(r, t)]
  BY DEF Commit
<1>3. r \in Runs /\ held[o].snapshot \in Snapshot /\ now \in Nat
  BY <1>1, HeldCopy DEF IInv, TypeInv
<1>4. t \in Snapshot
  BY <1>3, EditsTyped
<1>5. BytesAfter(r, t) = DataBytes(t) /\ UnresolvedAfter(r, t) = Unresolved(t)
  BY <1>1, <1>3, <1>4, AfterIsProjection
<1> QED
  BY <1>2, <1>3, <1>4, <1>5, ProjectionMoves

LEMMA CommitInvocationProjects ==
    ASSUME IInv, ProjectionInv, NEW o \in Owners, NEW p \in Paths, NEW rec \in Records,
           CommitInvocation(o, p, rec)
    PROVE  ProjectionInv'
<1> DEFINE r == held[o].run
           s == runs[r]
           t == Replaced(s, p, rec)
<1>1. /\ r \in Runs /\ s # NoRun /\ s \in Snapshot /\ rec \in Record /\ t \in Snapshot
      /\ runs' = [runs EXCEPT ![r] = t]
  BY CommitInvocationMeans
<1>2. /\ bytes' = [bytes EXCEPT ![r] = Monus(bytes[r], s.nodes[p].bytes) + rec.bytes]
      /\ unresolved' = [unresolved EXCEPT ![r] = Reindexed(r, p, rec)]
  BY <1>1 DEF CommitInvocation, ProjectionInv
<1>3. bytes[r] = DataBytes(s) /\ unresolved[r] = Unresolved(s)
  BY <1>1 DEF ProjectionInv, HeadIsProjection
<1> HIDE DEF s, t
<1>4. Monus(bytes[r], s.nodes[p].bytes) + rec.bytes = DataBytes(t)
  <2>1. DataBytes(s) \in Nat /\ ResultBytes(s) \in Nat /\ DataBytes(s) >= ResultBytes(s) + s.nodes[p].bytes
    BY <1>1, BytesTyped
  <2>2. s.nodes[p].bytes \in Nat
    BY <1>1, SnapshotFields DEF Record
  <2>3. DataBytes(t) = DataBytes(s) - s.nodes[p].bytes + rec.bytes
    BY <1>1, BytesReplaced DEF t
  <2>4. Monus(bytes[r], s.nodes[p].bytes) = DataBytes(s) - s.nodes[p].bytes
    BY <1>3, <2>1, <2>2 DEF Monus
  <2> QED
    BY <2>3, <2>4
<1>5. Reindexed(r, p, rec) = Unresolved(t)
  BY <1>1, <1>3, SetsReplaced DEF Reindexed, t
<1> QED
  BY <1>1, <1>2, <1>4, <1>5, ProjectionMoves

LEMMA ProjectionKeeps ==
    IInv /\ ProjectionInv /\ [Next]_vars => ProjectionInv'
<1> SUFFICES ASSUME IInv, ProjectionInv, [Next]_vars PROVE ProjectionInv'
  OBVIOUS
<1>1. ASSUME UNCHANGED <<runs, bytes, unresolved>> PROVE ProjectionInv'
  BY <1>1 DEF ProjectionInv, HeadIsProjection
<1>2. CASE UNCHANGED vars
  BY <1>1, <1>2 DEF vars, storeVars
<1>3. CASE Tick \/ StartFails
  BY <1>1, <1>3 DEF Tick, StartFails, storeVars
<1>8. ASSUME NEW o \in Owners, Claim(o) \/ Release(o)
      PROVE  ProjectionInv'
  BY <1>1, <1>8 DEF Claim, Release
<1>9. ASSUME NEW o \in Owners, NEW r \in Runs, Read(o, r)
      PROVE  ProjectionInv'
  BY <1>1, <1>9 DEF Read, storeVars
<1>10. ASSUME NEW o \in Owners, NEW k \in Keys \cup {NoKey}, CreateRefused(o, k)
       PROVE  ProjectionInv'
  BY <1>1, <1>10 DEF CreateRefused
<1>4. ASSUME NEW o \in Owners, Collect(o) \/ StartReads(o) PROVE ProjectionInv'
  <2>1. /\ runs' = [r \in Runs |-> IF r \in Collected THEN NoRun ELSE runs[r]]
        /\ bytes' = [r \in Runs |-> IF r \in Collected THEN 0 ELSE bytes[r]]
        /\ unresolved' = [r \in Runs |-> IF r \in Collected THEN {} ELSE unresolved[r]]
    BY <1>4 DEF Collect, StartReads, Removes
  <2> QED
    BY <2>1 DEF ProjectionInv, HeadIsProjection
<1>5. ASSUME NEW o \in Owners, NEW r \in Runs, NEW k \in Keys \cup {NoKey},
             NEW q \in Requests, Create(o, r, k, q)
      PROVE  ProjectionInv'
  <2> DEFINE t == Initial([key |-> k, request |-> q, born |-> starting])
  <2>1. /\ runs' = [runs EXCEPT ![r] = t]
        /\ bytes' = [bytes EXCEPT ![r] = DataBytes(t)]
        /\ unresolved' = [unresolved EXCEPT ![r] = Unresolved(t)]
    BY <1>5 DEF Create
  <2>2. t \in Snapshot
    BY <1>5, InitialTyped DEF IInv, TypeInv, Ident, Create, StartEnds
  <2> HIDE DEF t
  <2> QED
    BY <2>1, <2>2, ProjectionMoves
<1>6. ASSUME NEW o \in Owners, Commit(o) PROVE ProjectionInv'
  BY <1>6, CommitProjects
<1>7. ASSUME NEW o \in Owners, NEW p \in Paths, NEW rec \in Records,
             CommitInvocation(o, p, rec)
      PROVE  ProjectionInv'
  BY <1>7, CommitInvocationProjects
<1> QED
  BY <1>2, <1>3, <1>4, <1>5, <1>6, <1>7, <1>8, <1>9, <1>10 DEF Next

(* The retained bytes and the index of unresolved records that commits      *)
(* update in place are those RunSnapshot::head would derive from the        *)
(* checkpoint (memory.rs: StoredRun::after and commit_invocation).          *)
THEOREM ProjectionNeverDrifts == Spec => []HeadIsProjection
<1>1. Init => ProjectionInv
  BY DEF Init, ProjectionInv, HeadIsProjection
<1>2. ProjectionInv => HeadIsProjection
  BY DEF ProjectionInv
<1> QED
  BY <1>1, <1>2, ProjectionKeeps, Invariant, PTL DEF Spec

-----------------------------------------------------------------------------
(* The contract *)

LEMMA SuccessorIsTheContracts ==
    ASSUME NEW s, NEW t, ValidSuccessor(s, t)
    PROVE  Contract!ValidSuccessor(s, t)
<1>1. Contract!ValidWaits(s, t)
  BY DEF ValidSuccessor, ValidWaits, Contract!ValidWaits, Terminal, Contract!Terminal
<1>2. Contract!IsPrefix(s.audit, t.audit)
  BY DEF ValidSuccessor, IsPrefix, Contract!IsPrefix
<1> QED
  BY <1>1, <1>2 DEF ValidSuccessor, Contract!ValidSuccessor, Terminal, Contract!Terminal

LEMMA CommitIsTheContracts ==
    ASSUME IInv, NEW o \in Owners, NEW t \in Snapshot, Called(o),
           held[o] # Nothing, runs[held[o].run] # NoRun,
           ValidSuccessor(runs[held[o].run], t),
           runs' = [runs EXCEPT ![held[o].run] = t],
           UNCHANGED <<owner, receipts, now>>
    PROVE  \E r \in Runs : Contract!Commit(r)
<1> DEFINE r == held[o].run
<1>1. r \in Runs
  BY HeldCopy DEF IInv
<1>2. owner # NoOwner /\ by' = owner
  BY SnapshotsAssumption DEF Called, Authorized
<1>3. runs'[r] = t /\ runs'[r] # NoRun
  BY <1>1, Absence DEF IInv, TypeInv
<1>4. Contract!ValidSuccessor(runs[r], runs'[r])
  BY <1>3, SuccessorIsTheContracts
<1> QED
  BY <1>1, <1>2, <1>3, <1>4
     DEF Contract!Commit, NoOwner, Contract!NoOwner, NoRun, Contract!NoRun,
         NoTime, Contract!NoTime

LEMMA OrderRanks == Order \in [Runs -> 1..Cardinality(Runs)]
  BY RunsAreRanked, Zenon DEF Order

(* A surplus run is older than the terminal runs that are kept. *)
LEMMA SurplusIsOld ==
    ASSUME IInv, NEW r \in Finished, Surplus(r)
    PROVE  Cardinality({q \in Contract!Stored :
              /\ runs[q].state \in Contract!Terminal
              /\ runs[q].finished >= runs[r].finished}) > TerminalRuns
<1> DEFINE later == {q \in Finished : Later(q, r)}
           kept  == {q \in Contract!Stored : /\ runs[q].state \in Contract!Terminal
                                             /\ runs[q].finished >= runs[r].finished}
<1>1. \A q \in Finished : q \in Runs /\ runs[q].finished \in Int
  BY Stored, SnapshotFields DEF Finished, IInv, NoTime
<1>2. \A q \in Finished : q \in Contract!Stored /\ runs[q].state \in Contract!Terminal
  BY DEF Finished, Contract!Stored, NoRun, Contract!NoRun, NoTime, Contract!NoTime,
         Terminal, Contract!Terminal
<1>3. r \notin later
  <2>1. Order[r] \in Int
    BY <1>1, OrderRanks
  <2> QED
    BY <1>1, <2>1 DEF Later
<1>4. later \cup {r} \subseteq kept
  BY <1>1, <1>2 DEF Later
<1>5. kept \subseteq Runs /\ later \subseteq Runs
  BY <1>1 DEF Contract!Stored
<1> HIDE DEF later, kept
<1>6. IsFiniteSet(later) /\ IsFiniteSet(kept)
  BY <1>5, FS_Subset, SnapshotsAssumption
<1>7. Cardinality(later \cup {r}) = Cardinality(later) + 1
  BY <1>3, <1>6, FS_AddElement
<1>8. Cardinality(later \cup {r}) <= Cardinality(kept)
  BY <1>4, <1>6, FS_Subset
<1>9. Cardinality(later) >= TerminalRuns
  BY DEF Surplus, later
<1>10. TerminalRuns \in Nat /\ Cardinality(later) \in Nat /\ Cardinality(kept) \in Nat
  BY <1>6, FS_CardinalityType, SnapshotsAssumption
<1>11. Cardinality(kept) > TerminalRuns
  BY <1>7, <1>8, <1>9, <1>10
<1> QED
  BY <1>11 DEF kept

LEMMA SameCardinality == \A S : Contract!Cardinality(S) = Cardinality(S)
  BY Zenon DEF Cardinality, Contract!Cardinality

(* The values of the contract are those of the provider. *)
LEMMA SameValues ==
    /\ Contract!NoRun = NoRun /\ Contract!NoReceipt = NoReceipt
    /\ Contract!NoOwner = NoOwner /\ Contract!NoKey = NoKey
    /\ Contract!Terminal = Terminal
    /\ \A ident : Contract!Initial(ident) = Initial(ident)
  BY DEF NoRun, Contract!NoRun, NoReceipt, Contract!NoReceipt, NoTime, Contract!NoTime,
         NoOwner, Contract!NoOwner, NoKey, Contract!NoKey, Terminal, Contract!Terminal,
         Initial, Contract!Initial, Absent, Contract!Absent

LEMMA CallIsTheOwners ==
    ASSUME NEW o \in Owners, Called(o)
    PROVE  owner # Contract!NoOwner /\ by' = owner
  BY SnapshotsAssumption, SameValues DEF Called, Authorized

LEMMA LiveDrops ==
    ASSUME IInv, NEW at \in Nat, at <= now, receipts' = Live(at)
    PROVE  Contract!Drops(now, {})
<1>1. /\ Live(at) \in [Keys -> Receipt \cup {NoReceipt}]
      /\ \A k \in Keys : \/ Live(at)[k] = receipts[k]
                         \/ /\ Live(at)[k] = NoReceipt /\ receipts[k] # NoReceipt
                            /\ receipts[k].expires <= at
  BY LiveKeeps DEF IInv
<1>2. now \in Nat /\ \A k \in Keys : receipts[k] # NoReceipt => receipts[k].expires \in Nat
  BY DEF IInv, TypeInv, Receipt
<1> QED
  BY <1>1, <1>2, SameValues DEF Contract!Drops, Contract!Outdated

LEMMA CreateIsTheContracts ==
    ASSUME IInv, NEW o \in Owners, NEW r \in Runs, NEW k \in Keys \cup {NoKey},
           NEW q \in Requests, Create(o, r, k, q)
    PROVE  Contract!Create(r, [key |-> k, request |-> q, born |-> starting])
<1> DEFINE at == starting
           ident == [key |-> k, request |-> q, born |-> at]
           receipt == [run |-> r, request |-> q, expires |-> at + TTL]
<1>0. at \in Nat /\ at <= now
  BY DEF Create, StartEnds, IInv, TypeInv, StartInv
<1>1. /\ runs[r] = NoRun /\ Called(o)
      /\ k # NoKey => Live(at)[k] = NoReceipt
      /\ Cardinality(Unfinished) < Capacity
      /\ receipts' = IF k = NoKey THEN Live(at) ELSE [Live(at) EXCEPT ![k] = receipt]
      /\ runs' = [runs EXCEPT ![r] = Initial(ident)]
      /\ UNCHANGED <<owner, now>>
  BY DEF Create, Admits
<1>2. /\ Live(at) \in [Keys -> Receipt \cup {NoReceipt}]
      /\ \A j \in Keys : \/ Live(at)[j] = receipts[j]
                         \/ /\ Live(at)[j] = NoReceipt /\ receipts[j] # NoReceipt
                            /\ receipts[j].expires <= at
  BY <1>0, LiveKeeps DEF IInv
<1>3. ident.key = k /\ ident.request = q /\ ident.born = at
  OBVIOUS
<1>4. k \in Keys => k # NoKey
  BY SnapshotsAssumption
<1>5. Contract!Unfinished = Unfinished
  BY SameValues DEF Contract!Unfinished, Contract!Stored, Unfinished
<1>6. owner # Contract!NoOwner /\ by' = owner
  BY <1>1, CallIsTheOwners
<1> HIDE DEF ident, at
<1>7. Contract!Drops(ident.born, {ident.key})
  <2>1. DOMAIN receipts' = Keys
    BY <1>1, <1>2
  <2>2. \A j \in Keys \ {k} : receipts'[j] = Live(at)[j]
    BY <1>1, <1>2
  <2> QED
    BY <1>2, <1>3, <2>1, <2>2, SameValues DEF Contract!Drops, Contract!Outdated
<1>8. ASSUME k \in Keys
      PROVE  /\ receipts[k] = Contract!NoReceipt \/ Contract!Outdated(k, ident.born)
             /\ receipts'[k] = receipt
  <2>1. k # NoKey
    BY <1>8, SnapshotsAssumption
  <2> QED
    BY <1>1, <1>2, <1>3, <1>8, <2>1, SameValues DEF Contract!Outdated
<1>9. ident.born <= now
  BY <1>0, <1>3
<1>10. Contract!Create(r, ident)
  BY <1>1, <1>3, <1>5, <1>6, <1>7, <1>8, <1>9, SameValues, SameCardinality
     DEF Contract!Create
<1> QED
  BY <1>10 DEF ident, at

LEMMA CollectIsTheContracts ==
    ASSUME IInv, NEW o \in Owners, Called(o), Removes
    PROVE  Contract!Collect
<1>1. /\ Called(o) /\ receipts' = Live(now)
      /\ runs' = [r \in Runs |-> IF r \in Collected THEN NoRun ELSE runs[r]]
      /\ UNCHANGED <<owner, now>>
  BY DEF Removes
<1>2. ASSUME NEW r \in Collected
      PROVE  Contract!Collectable(r)
  <2>1. r \in Finished /\ (Old(r) \/ Surplus(r))
    BY DEF Collected, Old
  <2>2. runs[r] # Contract!NoRun /\ runs[r].state \in Contract!Terminal
    BY <2>1, SameValues DEF Finished
  <2>3. CASE Old(r)
    BY <2>2, <2>3 DEF Old, Contract!Collectable
  <2>4. CASE Surplus(r)
    BY <2>1, <2>2, <2>4, SurplusIsOld, SameCardinality DEF Contract!Collectable
  <2> QED
    BY <2>1, <2>3, <2>4
<1>3. \A r \in Runs : runs'[r] = runs[r] \/ (Contract!Collectable(r) /\ runs'[r] = Contract!NoRun)
  BY <1>1, <1>2, SameValues
<1>4. DOMAIN runs' = Runs
  BY <1>1
<1>5. Contract!Drops(now, {})
  BY <1>1, LiveDrops DEF IInv, TypeInv
<1> QED
  BY <1>1, <1>3, <1>4, <1>5, CallIsTheOwners DEF Contract!Collect

(* Every step of the provider is a step of the contract, or none of it. *)
LEMMA StepIsTheContracts ==
    IInv /\ [Next]_vars => [Contract!Next]_(Contract!vars)
<1> SUFFICES ASSUME IInv, [Next]_vars PROVE [Contract!Next]_(Contract!vars)
  OBVIOUS
<1>1. CASE UNCHANGED vars
  BY <1>1 DEF vars, storeVars, Contract!vars
<1>2. CASE Tick
  BY <1>2 DEF Tick, Contract!Tick, Contract!Next
<1>3. ASSUME NEW o \in Owners, Claim(o)
      PROVE  Contract!Next
  <2>1. Contract!Claim(o)
    BY <1>3, SameValues DEF Claim, Contract!Claim
  <2> QED
    BY <2>1 DEF Contract!Next
<1>4. ASSUME NEW o \in Owners, Release(o)
      PROVE  Contract!Next
  <2>1. Contract!Release
    BY <1>4, SameValues, SnapshotsAssumption DEF Release, Authorized, Contract!Release
  <2> QED
    BY <2>1 DEF Contract!Next
<1>5. ASSUME NEW o \in Owners, Collect(o) \/ StartReads(o)
      PROVE  Contract!Next
  <2>1. Called(o) /\ Removes
    BY <1>5 DEF Collect, StartReads
  <2> QED
    BY <2>1, CollectIsTheContracts DEF Contract!Next
<1>11. CASE StartFails
  BY <1>11 DEF StartFails, storeVars, Contract!vars
<1>6. ASSUME NEW o \in Owners, NEW r \in Runs, Read(o, r)
      PROVE  UNCHANGED Contract!vars
  BY <1>6 DEF Read, storeVars, Contract!vars
<1>7. ASSUME NEW o \in Owners, NEW k \in Keys \cup {NoKey}, CreateRefused(o, k)
      PROVE  Contract!Next
  <2>1. Called(o) /\ receipts' = Live(starting) /\ UNCHANGED <<owner, runs, now>>
    BY <1>7 DEF CreateRefused
  <2>2. starting \in Nat /\ starting <= now
    BY <1>7 DEF CreateRefused, StartEnds, IInv, TypeInv, StartInv
  <2>3. Contract!Forget
    BY <2>1, <2>2, CallIsTheOwners, LiveDrops DEF Contract!Forget
  <2> QED
    BY <2>3 DEF Contract!Next
<1>8. ASSUME NEW o \in Owners, NEW r \in Runs, NEW k \in Keys \cup {NoKey},
             NEW q \in Requests, Create(o, r, k, q)
      PROVE  Contract!Next
  <2>1. Contract!Create(r, [key |-> k, request |-> q, born |-> starting])
    BY <1>8, CreateIsTheContracts
  <2>2. starting \in 0..now
    BY <1>8 DEF Create, StartEnds, IInv, TypeInv, StartInv
  <2> QED
    BY <2>1, <2>2, SameValues DEF Contract!Next
<1>9. ASSUME NEW o \in Owners, Commit(o)
      PROVE  Contract!Next
  <2>1. Called(o) /\ UNCHANGED <<owner, receipts, now>>
    BY <1>9 DEF Commit
  <2> QED
    BY <1>9, <2>1, CommitMeans, CommitIsTheContracts DEF Contract!Next
<1>10. ASSUME NEW o \in Owners, NEW p \in Paths, NEW rec \in Records,
              CommitInvocation(o, p, rec)
       PROVE  Contract!Next
  <2>1. Called(o) /\ UNCHANGED <<owner, receipts, now>>
    BY <1>10 DEF CommitInvocation
  <2> QED
    BY <1>10, <2>1, CommitInvocationMeans, CommitIsTheContracts DEF Contract!Next
<1> QED
  BY <1>1, <1>2, <1>3, <1>4, <1>5, <1>6, <1>7, <1>8, <1>9, <1>10, <1>11 DEF Next

(* The memory provider implements the contract of an execution store: every *)
(* claim, release, acceptance, commit and collection it carries out is one  *)
(* the contract allows, in every interleaving of runtimes (memory.rs:116).  *)
THEOREM ProviderMeetsContract == Spec => MeetsContract
<1>1. Init => Contract!Init
  BY SameValues DEF Init, Contract!Init
<1> QED
  BY <1>1, StepIsTheContracts, Invariant, PTL DEF Spec, MeetsContract, Contract!Spec
=============================================================================
