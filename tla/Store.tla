------------------------------- MODULE Store -------------------------------
(***************************************************************************)
(* The contract of an execution store (ports.rs): one owner at a time,     *)
(* acceptance of a run and of its receipt in one step, replacement of a    *)
(* run only by a legal successor of the snapshot kept, removal of finished *)
(* runs only.  There is one way to change a run, Commit: that a provider's *)
(* commit_invocation, collection, crash and reload are steps of this       *)
(* module is what its refinement shows.                                    *)
(***************************************************************************)
EXTENDS Snapshots

VARIABLES
    owner,     \* the runtime that holds the store, or NoOwner
    runs,      \* the checkpoint of each run, or NoRun
    receipts,  \* the receipt kept under each key, or NoReceipt
    now,       \* the host's clock
    by         \* observed: whose call the store last carried out

vars == <<owner, runs, receipts, now, by>>

Stored      == {r \in Runs : runs[r] # NoRun}
Unfinished  == {r \in Stored : runs[r].state \notin Terminal}
Outdated(k, at) == receipts[k] # NoReceipt /\ receipts[k].expires <= at

Init ==
    /\ owner = NoOwner /\ by = NoOwner /\ now = 0
    /\ runs = [r \in Runs |-> NoRun]
    /\ receipts = [k \in Keys |-> NoReceipt]

-----------------------------------------------------------------------------
Claim(o) == owner = NoOwner /\ owner' = o /\ UNCHANGED <<runs, receipts, now, by>>

(* A released store, or one whose holder died, has no owner. *)
Release == owner # NoOwner /\ owner' = NoOwner /\ UNCHANGED <<runs, receipts, now, by>>

(* A receipt may be dropped when it has expired, and only then. *)
Drops(at, kept) ==
    /\ DOMAIN receipts' = Keys
    /\ \A k \in Keys \ kept : \/ receipts'[k] = receipts[k]
                             \/ (Outdated(k, at) /\ receipts'[k] = NoReceipt)

Forget ==
    /\ owner # NoOwner /\ by' = owner
    /\ Drops(now, {})
    /\ UNCHANGED <<owner, runs, now>>

(* The run and its receipt appear in one step; the key was free at birth. *)
Create(r, ident) ==
    /\ owner # NoOwner /\ by' = owner
    /\ runs[r] = NoRun /\ ident.born <= now
    /\ Cardinality(Unfinished) < Capacity
    /\ runs' = [runs EXCEPT ![r] = Initial(ident)]
    /\ LET k == ident.key IN
       /\ Drops(ident.born, {k})
       /\ k \in Keys =>
            /\ receipts[k] = NoReceipt \/ Outdated(k, ident.born)
            /\ receipts'[k] = [run |-> r, request |-> ident.request, expires |-> ident.born + TTL]
    /\ UNCHANGED <<owner, now>>

Commit(r) ==
    /\ owner # NoOwner /\ by' = owner
    /\ runs[r] # NoRun /\ runs'[r] # NoRun
    /\ ValidSuccessor(runs[r], runs'[r])
    /\ runs' = [runs EXCEPT ![r] = runs'[r]]
    /\ UNCHANGED <<owner, receipts, now>>

(* Old enough, or older than the terminal_runs most recently finished. *)
Collectable(r) ==
    /\ runs[r] # NoRun /\ runs[r].state \in Terminal
    /\ \/ now - runs[r].finished >= Retention
       \/ Cardinality({q \in Stored : /\ runs[q].state \in Terminal
                                      /\ runs[q].finished >= runs[r].finished}) > TerminalRuns

Collect ==
    /\ owner # NoOwner /\ by' = owner
    /\ Drops(now, {})
    /\ DOMAIN runs' = Runs
    /\ \A r \in Runs : runs'[r] = runs[r] \/ (Collectable(r) /\ runs'[r] = NoRun)
    /\ UNCHANGED <<owner, now>>

Tick == now' = now + 1 /\ UNCHANGED <<owner, runs, receipts, by>>

Next ==
    \/ \E o \in Owners : Claim(o)
    \/ Release \/ Forget \/ Collect \/ Tick
    \/ \E r \in Runs : Commit(r)
    \/ \E r \in Runs, k \in Keys \cup {NoKey}, q \in Requests, at \in 0..now :
          Create(r, [key |-> k, request |-> q, born |-> at])

Spec == Init /\ [][Next]_vars
=============================================================================
