-------------------------- MODULE SqliteArtifacts --------------------------
(***************************************************************************)
(* The artifact store of the SQLite provider: content is staged in chunks, *)
(* published once, pinned by the runs that declare it, and removed when no *)
(* run holds it any more.  Every call is one transaction on the worker's   *)
(* queue; a caller may be dropped at any time, a process may die at any    *)
(* time, a cleanup may be lost, and another runtime may claim the file.    *)
(*                                                                         *)
(* An identity is used by one writer only; its content is its number of    *)
(* chunks, all of one size.  Scopes and media types never differ.          *)
(***************************************************************************)
EXTENDS Naturals, FiniteSets

CONSTANTS
    Ids, Runs,
    MaxArtifacts, MaxBytes,    \* SqliteOptions
    Grace,                     \* SqliteOptions::artifact_grace_ms
    MaxTime, MaxChunks,        \* bounds of the instance
    MaxClaims

NoId == "no artifact"
Host == "host"    \* a writer or a reader that is not an operation of a run

ASSUME ArtifactsAssumption ==
    /\ Host \notin Runs /\ IsFiniteSet(Ids)
    /\ {MaxArtifacts, MaxBytes, Grace, MaxTime, MaxChunks, MaxClaims} \subseteq Nat

VARIABLES
    art,      \* persisted: wf_artifacts with their wf_artifact_chunks
    pins,     \* persisted: wf_artifact_owners, the runs of every artifact
    runs,     \* persisted: the runs and the artifacts they declare
    owner,    \* the runtime that has claimed the file, 0 when it is released
    claims,   \* the runtimes that have claimed it so far; every boot is a new one
    writer,   \* the write_artifact call of every identity
    reader,   \* one read_artifact stream
    now

vars == <<art, pins, runs, owner, claims, writer, reader, now>>

NoArtifact == [state |-> "none", bytes |-> 0, expires |-> 0, everOwned |-> FALSE]
NoRun      == [state |-> "none", cancelled |-> FALSE, declared |-> {}]
NoWriter   == [pc |-> "none", by |-> 0, run |-> Host, bytes |-> 0, expires |-> 0,
               dropped |-> FALSE]
NoReader   == [pc |-> "none", id |-> NoId, by |-> 0, run |-> Host,
               total |-> 0, read |-> 0]

Init ==
    /\ art = [a \in Ids |-> NoArtifact]
    /\ pins = [a \in Ids |-> {}]
    /\ runs = [r \in Runs |-> NoRun]
    /\ owner = 0 /\ claims = 0
    /\ writer = [a \in Ids |-> NoWriter]
    /\ reader = NoReader
    /\ now = 0

Exists(a) == art[a].state # "none"
(* The bytes of every row, counted in chunks. *)
Stored    == {c \in Ids \X (1..MaxChunks) : c[2] <= art[c[1]].bytes}
Used      == Cardinality(Stored)
Ended(r)  == runs[r].state = "ended"

-----------------------------------------------------------------------------
(* check_reference: ready, and held by a run or still within its grace. *)
Readable(a) ==
    /\ art[a].state = "ready"
    /\ pins[a] # {} \/ (~art[a].everOwned /\ now < art[a].expires)

(* Mutant: a cancelled run may still write. *)
MayWrite_Cancelled(r) == r # Host => runs[r].state = "active"

(* authorize_run *)
MayWrite(r) == r # Host => runs[r].state = "active" /\ ~runs[r].cancelled
MayRead(r, a) ==
    Readable(a) /\ (r # Host => runs[r].state # "none" /\ r \in pins[a])

(* Mutant: what expired is collected although a run holds it. *)
Collected_Pinned(held) ==
    [a \in Ids |-> IF art[a].state = "ready" /\ art[a].expires <= now
                   THEN NoArtifact ELSE art[a]]

(* collect: what nobody holds and nobody may still pin. *)
Collected(held) ==
    [a \in Ids |-> IF /\ art[a].state = "ready" /\ held[a] = {}
                      /\ art[a].everOwned \/ art[a].expires <= now
                   THEN NoArtifact ELSE art[a]]

-----------------------------------------------------------------------------
(* write_artifact.  Whatever fails, the removal of the staged row is tried; *)
(* a call that was queued when its caller was dropped is still executed.    *)
Step(a, pc) ==
    writer' = [writer EXCEPT ![a].pc = IF writer[a].dropped THEN "cleanup" ELSE pc]
Refuse(a) == writer' = [writer EXCEPT ![a].pc = "cleanup"] /\ UNCHANGED <<art, pins>>
Writing(a, pc) == writer[a].pc = pc
Over(a) == [NoWriter EXCEPT !.pc = "done", !.bytes = writer[a].bytes, !.by = writer[a].by]
Owned(a) == owner # 0 /\ owner = writer[a].by    \* Session::write

Open(a) ==
    /\ Writing(a, "none") /\ owner # 0
    /\ \E r \in Runs \cup {Host} :
          /\ MayWrite(r)
          /\ writer' = [writer EXCEPT ![a] = [NoWriter EXCEPT
                           !.pc = "begin", !.by = owner, !.run = r]]
    /\ UNCHANGED <<art, pins, runs, owner, claims, reader, now>>

Begin(a) ==
    LET left == Collected(pins)
        r    == writer[a].run
    IN  /\ Writing(a, "begin")
        /\ IF /\ Owned(a) /\ MayWrite(r)
              /\ Cardinality({b \in Ids : left[b].state # "none"}) < MaxArtifacts
           THEN /\ art' = [left EXCEPT ![a] =
                       [state |-> "staging", bytes |-> 0, expires |-> now + Grace,
                        everOwned |-> r # Host]]
                /\ pins' = [pins EXCEPT ![a] = IF r = Host THEN {} ELSE {r}]
                /\ Step(a, "append")
           ELSE Refuse(a)
        /\ UNCHANGED <<runs, owner, claims, reader, now>>

(* A chunk: compared with what this writer has stored so far. *)
Append(a) ==
    /\ Writing(a, "append") /\ writer[a].bytes < MaxChunks
    /\ IF /\ Owned(a) /\ MayWrite(writer[a].run)
          /\ Used < MaxBytes
          /\ art[a].state = "staging" /\ art[a].bytes = writer[a].bytes
       THEN /\ art' = [art EXCEPT ![a].bytes = @ + 1]
            /\ writer' = [writer EXCEPT ![a].bytes = @ + 1,
                             ![a].pc = IF writer[a].dropped THEN "cleanup" ELSE "append"]
            /\ UNCHANGED pins
       ELSE Refuse(a)
    /\ UNCHANGED <<runs, owner, claims, reader, now>>

SourceEnds(a) ==
    /\ Writing(a, "append")
    /\ \/ writer' = [writer EXCEPT ![a].pc = IF writer[a].dropped THEN "cleanup" ELSE "publish",
                                   ![a].expires = now + Grace]
       \/ writer' = [writer EXCEPT ![a].pc = "cleanup"]    \* the source failed
    /\ UNCHANGED <<art, pins, runs, owner, claims, reader, now>>

Publish(a) ==
    /\ Writing(a, "publish")
    /\ IF /\ Owned(a) /\ MayWrite(writer[a].run)
          /\ art[a].state = "staging" /\ art[a].bytes = writer[a].bytes
       THEN /\ art' = [art EXCEPT ![a].state = "ready", ![a].expires = writer[a].expires]
            /\ Step(a, "returned")
            /\ UNCHANGED pins
       ELSE Refuse(a)
    /\ UNCHANGED <<runs, owner, claims, reader, now>>

(* The caller is dropped, with a call on the queue or between two calls. *)
Drop(a) ==
    /\ writer[a].pc \in {"begin", "append", "publish"} /\ ~writer[a].dropped
    /\ \E queued \in BOOLEAN :
          writer' = [writer EXCEPT ![a].dropped = TRUE,
                                   ![a].pc = IF queued THEN @ ELSE "cleanup"]
    /\ UNCHANGED <<art, pins, runs, owner, claims, reader, now>>

(* Mutant: the late cleanup does not look at the state of the row. *)
Cleanup_Published(a) ==
    /\ Writing(a, "cleanup")
    /\ writer' = [writer EXCEPT ![a] = Over(a)]
    /\ IF Owned(a)
       THEN /\ art' = [art EXCEPT ![a] = NoArtifact]
            /\ pins' = [pins EXCEPT ![a] = {}]
       ELSE UNCHANGED <<art, pins>>
    /\ UNCHANGED <<runs, owner, claims, reader, now>>

(* Staging::cleanup, or its Drop: never erases what was published. *)
Cleanup(a) ==
    /\ Writing(a, "cleanup")
    /\ writer' = [writer EXCEPT ![a] = Over(a)]
    /\ IF Owned(a) /\ art[a].state = "staging"
       THEN /\ art' = [art EXCEPT ![a] = NoArtifact]
            /\ pins' = [pins EXCEPT ![a] = {}]
       ELSE UNCHANGED <<art, pins>>
    /\ UNCHANGED <<runs, owner, claims, reader, now>>

(* No runtime was left to spawn it on, or its transaction failed and the    *)
(* error is discarded: the row stays, and nobody attends to it any more.    *)
CleanupLost(a) ==
    /\ Writing(a, "cleanup")
    /\ writer' = [writer EXCEPT ![a] = Over(a)]
    /\ UNCHANGED <<art, pins, runs, owner, claims, reader, now>>

WriterStep(a) ==
    \/ Begin(a) \/ Append(a) \/ SourceEnds(a) \/ Publish(a) \/ Drop(a)
    \/ Cleanup(a) \/ CleanupLost(a)

-----------------------------------------------------------------------------
(* read_artifact: the reference is checked again with every chunk. *)
OpenRead(a) ==
    /\ reader.pc = "none" /\ owner # 0
    /\ \E r \in Runs \cup {Host} :
          /\ MayRead(r, a)
          /\ reader' = [pc |-> "read", id |-> a, run |-> r, by |-> owner,
                     total |-> art[a].bytes, read |-> 0]
    /\ UNCHANGED <<art, pins, runs, owner, claims, writer, now>>

ReadChunk ==
    /\ reader.pc = "read"
    /\ IF reader.read = reader.total THEN reader' = [reader EXCEPT !.pc = "whole"]
       ELSE IF /\ owner = reader.by /\ MayRead(reader.run, reader.id)
               /\ art[reader.id].bytes > reader.read
       THEN reader' = [reader EXCEPT !.read = @ + 1]
       ELSE reader' = [reader EXCEPT !.pc = "failed"]
    /\ UNCHANGED <<art, pins, runs, owner, claims, writer, now>>

-----------------------------------------------------------------------------
(* What the execution store does to artifacts, in its own transactions.     *)
Pinned(r, declared) == [a \in Ids |-> IF a \in declared THEN pins[a] \cup {r} ELSE pins[a]]
EverOwned(declared) ==
    [a \in Ids |-> IF a \in declared THEN [art[a] EXCEPT !.everOwned = TRUE] ELSE art[a]]

Accept(r, declared) ==    \* create: pin_inputs
    /\ owner # 0 /\ runs[r].state = "none"
    /\ \A a \in declared : Readable(a)
    /\ runs' = [runs EXCEPT ![r] = [NoRun EXCEPT !.state = "active", !.declared = declared]]
    /\ pins' = Pinned(r, declared)
    /\ art' = EverOwned(declared)
    /\ UNCHANGED <<owner, claims, writer, reader, now>>

DeliverSignal(r, a) ==    \* commit: pin_references of a new delivery
    /\ owner # 0 /\ runs[r].state = "active" /\ ~runs[r].cancelled
    /\ Readable(a)
    /\ runs' = [runs EXCEPT ![r].declared = @ \cup {a}]
    /\ pins' = Pinned(r, {a})
    /\ art' = EverOwned({a})
    /\ UNCHANGED <<owner, claims, writer, reader, now>>

CancelOrEnd(r) ==
    /\ owner # 0 /\ runs[r].state = "active"
    /\ \/ ~runs[r].cancelled /\ runs' = [runs EXCEPT ![r].cancelled = TRUE]
       \/ runs' = [runs EXCEPT ![r].state = "ended"]
    /\ UNCHANGED <<art, pins, owner, claims, writer, reader, now>>

(* Finished runs leave at their retention, and their pins with them. *)
Collect(gone) ==
    /\ owner # 0 /\ \A r \in gone : Ended(r)
    /\ runs' = [r \in Runs |-> IF r \in gone THEN [runs[r] EXCEPT !.state = "gone"] ELSE runs[r]]
    /\ pins' = [a \in Ids |-> pins[a] \ gone]
    /\ art' = Collected(pins')
    /\ UNCHANGED <<owner, claims, writer, reader, now>>

(* Mutant: a staging row that a run holds survives the claim. *)
Claim_KeepsHeld ==
    /\ owner = 0 /\ claims < MaxClaims
    /\ owner' = claims + 1 /\ claims' = claims + 1
    /\ art' = [a \in Ids |-> IF art[a].state = "staging" /\ pins[a] = {} THEN NoArtifact ELSE art[a]]
    /\ UNCHANGED <<pins, runs, writer, reader, now>>

Claim ==    \* a staging row was never returned to anyone
    /\ owner = 0 /\ claims < MaxClaims
    /\ owner' = claims + 1 /\ claims' = claims + 1
    /\ art' = [a \in Ids |-> IF art[a].state = "staging" THEN NoArtifact ELSE art[a]]
    /\ pins' = [a \in Ids |-> IF art[a].state = "staging" THEN {} ELSE pins[a]]
    /\ UNCHANGED <<runs, writer, reader, now>>

Release ==    \* the process goes on, with its writers
    /\ owner # 0
    /\ owner' = 0
    /\ UNCHANGED <<art, pins, runs, claims, writer, reader, now>>

Crash ==      \* or the worker stops: neither calls nor cleanups are left
    /\ owner' = 0
    /\ writer' = [a \in Ids |-> IF writer[a].pc \in {"none", "returned"} THEN writer[a]
                                ELSE Over(a)]
    /\ reader' = IF reader.pc = "read" THEN [reader EXCEPT !.pc = "failed"] ELSE reader
    /\ UNCHANGED <<art, pins, runs, claims, now>>

Tick ==
    /\ now < MaxTime
    /\ now' = now + 1
    /\ UNCHANGED <<art, pins, runs, owner, claims, writer, reader>>

StoreStep ==
    \/ \E r \in Runs, declared \in SUBSET Ids : Accept(r, declared)
    \/ \E r \in Runs : CancelOrEnd(r) \/ \E a \in Ids : DeliverSignal(r, a)
    \/ \E gone \in SUBSET Runs : Collect(gone)
    \/ Claim \/ Release \/ Crash

Next ==
    \/ \E a \in Ids : Open(a) \/ WriterStep(a) \/ OpenRead(a)
    \/ ReadChunk \/ StoreStep \/ Tick

Spec == Init /\ [][Next]_vars

-----------------------------------------------------------------------------
(* Every variable has its type. *)
TypeOK ==
    /\ art \in [Ids -> [state : {"none", "staging", "ready"}, bytes : 0..MaxChunks,
                       expires : 0..(MaxTime + Grace), everOwned : BOOLEAN]]
    /\ pins \in [Ids -> SUBSET Runs]
    /\ runs \in [Runs -> [state : {"none", "active", "ended", "gone"}, cancelled : BOOLEAN,
                         declared : SUBSET Ids]]
    /\ owner \in {0, claims} /\ claims \in 0..MaxClaims /\ now \in 0..MaxTime
    /\ writer \in [Ids -> [pc : {"none", "begin", "append", "publish", "cleanup", "returned",
                                 "done"},
                          by : 0..MaxClaims, run : Runs \cup {Host}, bytes : 0..MaxChunks,
                          expires : 0..(MaxTime + Grace), dropped : BOOLEAN]]
    /\ reader \in [pc : {"none", "read", "whole", "failed"}, id : Ids \cup {NoId}, by : 0..MaxClaims,
                   run : Runs \cup {Host}, total : 0..MaxChunks, read : 0..MaxChunks]

(* What a stored run was given stays readable for as long as the run is     *)
(* stored: pin_inputs and pin_references against collect, cleanup, claims   *)
(* and the collection of other runs (artifacts.rs:359, artifacts.rs:448).   *)
PinnedStays ==
    \A r \in Runs : runs[r].state # "gone" =>
        \A a \in runs[r].declared : Readable(a) /\ r \in pins[a]

(* write_artifact's result names content that is there, whole, until its    *)
(* grace passes or the last run that held it is collected                   *)
(* (artifacts.rs:154; the cleanup of artifacts.rs:285 may be late).         *)
ReturnedIsKept ==
    \A a \in Ids : writer[a].pc = "returned" =>
        \/ art[a].state = "ready" /\ art[a].bytes = writer[a].bytes
        \/ /\ pins[a] = {}
           /\ \/ writer[a].run = Host /\ now >= writer[a].expires
              \/ \E r \in Runs : /\ runs[r].state = "gone"
                               /\ (r = writer[a].run \/ a \in runs[r].declared)

(* A staged row holds what its own call has stored, never more, and belongs *)
(* to the runtime that holds the file: a call that was replaced stages      *)
(* nothing, no call returns before its row is published, and an upload      *)
(* whose cleanup was lost is gone with the next claim (artifacts.rs:109,    *)
(* artifacts.rs:288, artifacts.rs:294).                                     *)
StagingIsOwned ==
    \A a \in Ids : art[a].state = "staging" =>
        /\ writer[a].pc \in {"append", "publish", "cleanup", "done"}
        /\ art[a].bytes = writer[a].bytes
        /\ owner # 0 => writer[a].by = owner

(* The store's budgets hold whatever calls are in flight together and       *)
(* whatever rows were left behind (artifacts.rs:397, artifacts.rs:428).     *)
WithinBudget ==
    /\ Cardinality({a \in Ids : Exists(a)}) <= MaxArtifacts
    /\ Used <= MaxBytes

(* A stream that ends without an error has delivered all its writer wrote:  *)
(* content collected between two chunks is an error, never a shorter        *)
(* stream (artifacts.rs:219).                                               *)
ReadIsWhole ==
    reader.pc = "whole" => reader.read = writer[reader.id].bytes

(* A reference keeps its promise to the run, the writer and the reader that *)
(* hold it (artifacts.rs:154, artifacts.rs:219, artifacts.rs:448).          *)
ReferencesHold == PinnedStays /\ ReturnedIsKept /\ ReadIsWhole

(* Uploads, attended to or left behind, belong to the present owner of the  *)
(* file and are together within the budgets (artifacts.rs:109, :428).       *)
StagingIsSound == StagingIsOwned /\ WithinBudget

(* Published content is removed only when the last run that holds it is     *)
(* collected, or when it was never held and its grace has passed: an        *)
(* acknowledgement that was lost is no reason (artifacts.rs:297).           *)
PublishedIsKept ==
    [][\A a \in Ids : art[a].state = "ready" /\ ~Exists(a)' =>
          /\ \A r \in pins[a] : runs[r]'.state = "gone"
          /\ art[a].everOwned \/ art[a].expires <= now]_vars

(* No step adds to, or publishes, an artifact of a run that is cancelled,   *)
(* ended or gone (authorize_run, artifacts.rs:313).                         *)
NothingWrittenAfterStop ==
    [][\A a \in Ids : \A r \in Runs :
          /\ writer[a].run = r /\ Exists(a)'
          /\ art[a]'.bytes > art[a].bytes \/ (art[a]'.state # art[a].state)
          => runs[r].state = "active" /\ ~runs[r].cancelled]_vars
=============================================================================
