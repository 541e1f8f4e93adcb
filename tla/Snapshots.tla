----------------------------- MODULE Snapshots -----------------------------
(***************************************************************************)
(* The checkpoint of a run as a value: what a store keeps, what is derived *)
(* from it, which replacement of it is legal, and the replacements callers *)
(* ask for.  Payloads are abstracted to their size; the fields fixed at    *)
(* acceptance (scope, actor, definition, package, input, artifacts,        *)
(* deadline) are one value, ident.                                         *)
(***************************************************************************)
EXTENDS Integers, Sequences, SequencesExt, FiniteSets

CONSTANTS
    Runs,         \* run identities
    Owners,       \* identities of runtimes; a runtime claims under a fresh one
    Keys,         \* receipt keys, each with its scope
    Requests,     \* the contents a receipt key may be used with
    Paths,        \* invocation paths
    Inside,       \* Inside[p]: the paths below p
    Records,      \* the invocation records callers write
    Capacity,     \* limits.active_runs + limits.pending_runs
    ReceiptCount, \* limits.receipt_count
    TerminalRuns, \* limits.terminal_runs
    Retention,    \* limits.retention_ms
    TTL,          \* limits.receipt_ttl_ms
    MaxRevision,  \* bound: callers stop editing a run at this revision
    MaxTime       \* bound: the clock stops here

NoTime    == -1
NoRun     == [revision |-> NoTime]
NoReceipt == [expires |-> NoTime]
NoIdent   == [born |-> NoTime]
NoOwner   == "no owner"
NoKey     == "no key"

Terminal  == {"Succeeded", "Failed", "Cancelled"}
Active    == {"Accepted", "Running", "Waiting", "Blocked", "Cancelling"}
RunStates == Active \cup Terminal

NodeStates == {"Pending", "Running", "RetryScheduled", "Succeeded", "Failed",
               "Cancelled", "Unknown"}
NodeKinds  == {"none", "operation", "control", "wait"}
Record     == [kind: NodeKinds, state: NodeStates, applied: BOOLEAN, bytes: Nat]
Absent     == [kind |-> "none", state |-> "Pending", applied |-> FALSE, bytes |-> 0]
WaitStates == {"none", "Open", "Consumed", "Closed"}   \* Closed: or expired

Ident    == [key: Keys \cup {NoKey}, request: Requests, born: Nat]
Receipt  == [run: Runs, request: Requests, expires: Nat]
Snapshot == [ident: Ident, revision: Nat, state: RunStates, cancel: BOOLEAN,
             finished: Nat \cup {NoTime}, result: Nat, audit: Seq({"entry"}),
             nodes: [Paths -> Record], waits: [Paths -> WaitStates]]

ASSUME SnapshotsAssumption ==
    /\ Records \subseteq {rec \in Record : rec.kind # "none"}
    /\ Inside \in [Paths -> SUBSET Paths]
    /\ {Capacity, ReceiptCount, TerminalRuns, Retention, TTL} \subseteq Nat
    /\ MaxRevision \in Nat /\ MaxTime \in Nat /\ IsFiniteSet(Runs) /\ IsFiniteSet(Paths)
    /\ NoOwner \notin Owners /\ NoKey \notin Keys

-----------------------------------------------------------------------------
(* Derived values *)

Present(s) == {p \in Paths : s.nodes[p] # Absent}

(* "applied": the certainty of an operation is anything but NotApplied. *)
IsUnresolved(rec) == \/ rec.state = "Unknown"
                     \/ rec.kind = "operation" /\ rec.state # "Succeeded" /\ rec.applied

Unresolved(s)  == {p \in Paths : IsUnresolved(s.nodes[p])}
ResultBytes(s) == s.result + Len(s.audit) + Cardinality({p \in Paths : s.waits[p] # "none"})
DataBytes(s)   == MapThenFoldSet(+, ResultBytes(s), LAMBDA p : s.nodes[p].bytes,
                                 LAMBDA D : CHOOSE p \in D : TRUE, Paths)

(* next_wakeup_at_ms, as which of its alternatives applies. *)
Wakeup(s) == IF s.state # "Waiting" THEN "never"
             ELSE IF \E p \in Paths : s.waits[p] = "Open" THEN "reservation" ELSE "deadline"

HeadOf(s) == [revision |-> s.revision, state |-> s.state, cancel |-> s.cancel,
              wakeup |-> Wakeup(s), count |-> Cardinality(Present(s)),
            bytes |-> DataBytes(s), unresolved |-> Cardinality(Unresolved(s))]

-----------------------------------------------------------------------------
(* checkpoint.rs: the checks a provider makes before its atomic write *)

Initial(ident) ==
    [ident |-> ident, revision |-> 0, state |-> "Accepted", cancel |-> FALSE,
     finished |-> NoTime, result |-> 0, audit |-> <<>>,
     nodes |-> [p \in Paths |-> Absent], waits |-> [p \in Paths |-> "none"]]

ValidInitial(s) == s = Initial(s.ident)

(* validate_waits: a reservation and the record of its node go together, a
   decided one is final, and none stays open on a terminal run. *)
ValidWaits(s, t) ==
    \A p \in Paths :
        /\ s.waits[p] # "none" => t.waits[p] # "none"
        /\ s.waits[p] \in {"Consumed", "Closed"} => t.waits[p] = s.waits[p]
        /\ s.waits[p] = "none" => t.waits[p] \in {"none", "Open"}
        /\ t.state \in Terminal => t.waits[p] # "Open"
        /\ t.waits[p] # "none" <=> t.nodes[p].kind = "wait"
        /\ t.nodes[p].kind = "wait" => (t.nodes[p].state = "Succeeded" <=> t.waits[p] = "Consumed")

ValidSuccessor(s, t) ==
    /\ ValidWaits(s, t)
    /\ t.revision = s.revision + 1
    /\ t.ident = s.ident
    /\ s.cancel => t.cancel
    /\ \A p \in Paths : s.nodes[p].state = "Succeeded" => t.nodes[p] = s.nodes[p]
    /\ IsPrefix(s.audit, t.audit)
    /\ s.state \in Terminal => t = [s EXCEPT !.revision = t.revision, !.audit = t.audit]

(* commit_invocation's checks, apart from the compare-and-set. *)
Replaceable(s, p, rec) ==
    /\ rec.kind # "wait" /\ s.nodes[p].kind # "wait"
    /\ s.state \notin Terminal
    /\ s.nodes[p].state = "Succeeded" => s.nodes[p] = rec

-----------------------------------------------------------------------------
(* The replacements a caller derives from a snapshot it has read at time
   now: those the runtime makes (start, suspend, cancel, finish, audit, write
   one record, consume a wait) and those a store is there to refuse. *)

Revised(s)     == [s EXCEPT !.revision = @ + 1]
ClosedWaits(s) == [p \in Paths |-> IF s.waits[p] = "Open" THEN "Closed" ELSE s.waits[p]]

Transitions(s, now) ==
    {[Revised(s) EXCEPT !.state = st] : st \in {"Running", "Waiting"}}
    \cup {[Revised(s) EXCEPT !.cancel = TRUE, !.state = "Cancelling", !.waits = ClosedWaits(s)],
          [Revised(s) EXCEPT !.state = "Succeeded", !.result = 1, !.finished = now,
                             !.waits = ClosedWaits(s)],
          [Revised(s) EXCEPT !.audit = Append(@, "entry")]}

Written(s, p, rec) ==
    [Revised(s) EXCEPT !.nodes[p] = rec, !.waits[p] = IF rec.kind = "wait" THEN "Open" ELSE @]
NodeWrites(s) == {Written(s, p, rec) : p \in Paths, rec \in Records}

OpenWaits(s)    == {p \in Paths : s.waits[p] = "Open"}
Consumptions(s) ==
    {[Revised(s) EXCEPT !.nodes[p].state = "Succeeded", !.waits[p] = "Consumed"] : p \in OpenWaits(s)}

Refused(s) ==
    {[Revised(s) EXCEPT !.cancel = FALSE, !.state = "Running"],
     [Revised(s) EXCEPT !.audit = <<>>, !.state = "Running"],
     [Revised(s) EXCEPT !.result = @ + 1],
     [Revised(s) EXCEPT !.ident.born = @ + 1]}
    \cup {[Revised(s) EXCEPT !.nodes[p] = Absent] : p \in Paths}
    \cup {[Revised(s) EXCEPT !.nodes[p].state = "Succeeded"] : p \in OpenWaits(s)}
    \cup {[Revised(s) EXCEPT !.waits[p] = "Consumed"] : p \in OpenWaits(s)}

Edits(s, now) == Transitions(s, now) \cup NodeWrites(s) \cup Consumptions(s) \cup Refused(s)
=============================================================================
