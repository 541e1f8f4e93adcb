---------------------------- MODULE BodyProofs -----------------------------
(***************************************************************************)
(* Proofs about bodies: the order in which the compiler puts the nodes of  *)
(* a body (BodyOrder), and two bodies whose nodes run one after another,   *)
(* Chain, a sequence of operations of any length, and Waits, a wait for a  *)
(* signal under a try.                                                     *)
(*                                                                         *)
(* Chain.  The inductive invariant ties, for every node, what the record   *)
(* claims to what the world holds (NodeInv), and the place of the          *)
(* coordinator to the records it has passed (WalkInv).                     *)
(*                                                                         *)
(* Waits, for every effect kind, repetition and attempt budget of its two  *)
(* operations, any number of permits and every kind of wait: the stores    *)
(* accept every change of the reservation, a run sleeps only over a        *)
(* reservation that something can still end, and a handler recovers what   *)
(* it may recover.  The step the coordinator has reached says what the     *)
(* reservation, the try's frame and the two records may be; nothing else   *)
(* reopens a reservation or takes a confirmed record back.                 *)
(*                                                                         *)
(* BodyOrder, for every set of nodes and list of edges.  What the index    *)
(* says of the edges it has read (IndexInv) makes the walk one to one      *)
(* (PathInv), and a prefix of whatever the body means (PrefixInv).         *)
(***************************************************************************)
EXTENDS Chain, Waits, BodyOrder, FiniteSetTheorems, TLAPS

(***************************************************************************)
(* Chain                                                                   *)
(***************************************************************************)

(* Attempt identities: the world knows only identities that were issued. *)
IdentityInv(n) ==
    /\ Possible(n) \subseteq 1..issued[n]
    /\ rec[n].attempt <= issued[n]
    /\ rec[n].state = "Running" => rec[n].attempt # 0

(* What the record says of the world. *)
EvidenceInv(n) ==
    /\ ~IsWrite(n) => Possible(n) = {} /\ rec[n].certainty = "NotApplied"
    /\ rec[n].certainty = "NotApplied" =>
          /\ rec[n].state \notin {"Running", "Succeeded"} => Possible(n) = {}
          /\ rec[n].state = "Running" => Possible(n) \subseteq {rec[n].attempt}
    /\ IsWrite(n) /\ rec[n].state = "Succeeded" => landed[n] # {}
    /\ Repetition[n] = "Unsafe" =>
          /\ rec[n].state \in {"Absent", "Pending", "RetryScheduled", "Running"}
                => rec[n].certainty = "NotApplied"
          /\ \A a, b \in Possible(n) : a = b
    /\ rec[n].state \in {"Absent", "Pending"} => rec[n].certainty = "NotApplied"
    /\ rec[n].state \in {"RetryScheduled", "Failed", "Cancelled"} =>
          rec[n].error # "none"

(* What the executor holds of the record and of the world. *)
ExecInv(n) ==
    /\ exec[n].pc \in {"dispatch", "call", "outcome"} =>
          rec[n].state = "Running" /\ rec[n].attempt = exec[n].attempt
    /\ exec[n].pc = "permit" =>
          /\ exec[n].previous = rec[n]
          /\ rec[n].state \in {"Absent", "Pending", "RetryScheduled"}
          /\ rec[n].attempts < MaxAttempts[n]
    /\ exec[n].pc = "dispatch" => exec[n].attempt \notin Possible(n)
    /\ exec[n].pc = "outcome" =>
          /\ exec[n].out.certainty = "NotApplied" => exec[n].attempt \notin Possible(n)
          /\ exec[n].out.kind = "failed" => exec[n].out.error # "none"
          /\ exec[n].out.kind # "failed" /\ IsWrite(n) => landed[n] # {}
    /\ exec[n].pc = "done" /\ exec[n].result = "none" => rec[n].state = "Succeeded"
    /\ exec[n].pc # "idle" => co.pc = "op" /\ co.node = n

NodeInv(n) == IdentityInv(n) /\ EvidenceInv(n) /\ ExecInv(n)

(* Where the coordinator and the process are, and what the records say. *)
WalkInv ==
    /\ co.pc # "none" =>
          /\ available /\ phase \in {"ready", "stopping"}
          /\ ~IsTerminal(run.state) /\ run.state # "Blocked"
    /\ co.pc = "begin" => co.node = 1
    /\ co.pc \in {"node", "op"} =>
          \A m \in Nodes : m < co.node => rec[m].state = "Succeeded"
    /\ co.pc \in {"output", "commit"} => \A m \in Nodes : rec[m].state = "Succeeded"
    /\ available /\ phase \in {"ready", "stopping"} =>
          \A n \in Nodes : rec[n].state = "Running" =>
              exec[n].pc \in {"dispatch", "call", "outcome"}
    /\ IsTerminal(run.state) => \A n \in Nodes : rec[n].state # "Running"

HeadInv == /\ NoHiddenEffect /\ SuccessIsEarned /\ CancelIsKept
           /\ InOrder /\ BlockedIsResolvable /\ RetriesAreAffordable

IInv == TypeOK /\ (\A n \in Nodes : NodeInv(n)) /\ WalkInv /\ HeadInv

-----------------------------------------------------------------------------
(* Lemmas about the effect decisions. *)

(* What is known after a failure is a certainty, and it is NotApplied only  *)
(* for an effect-free operation, or when neither the earlier attempts nor   *)
(* this one can have had an effect.                                         *)
LEMMA KnownAfterLemma ==
    ASSUME NEW effect \in EffectKinds, NEW earlier \in Certainties,
           NEW failure \in [class : ErrorClasses, certainty : Certainties,
                            invalid : BOOLEAN]
    PROVE  /\ KnownAfter(effect, earlier, failure) \in Certainties
           /\ effect # "Write" => KnownAfter(effect, earlier, failure) = "NotApplied"
           /\ effect = "Write" /\ KnownAfter(effect, earlier, failure) = "NotApplied" =>
                 /\ earlier = "NotApplied" /\ failure.certainty = "NotApplied"
                 /\ ~failure.invalid
    BY DEF KnownAfter, Merged, Certainties, EffectKinds

(* A retry is authorized only within the attempt budget, before the         *)
(* deadline and without a cancellation, and only if the effect is known not *)
(* to have happened or may be repeated.                                     *)
LEMMA ClassifyLemma ==
    ASSUME NEW effect \in EffectKinds, NEW repetition \in Repetitions,
           NEW failure \in [class : ErrorClasses, certainty : Certainties,
                            invalid : BOOLEAN],
           NEW budget \in [attemptsLeft : BOOLEAN, beforeDeadline : BOOLEAN,
                           cancelled : BOOLEAN]
    PROVE  LET decision == ClassifyFailure(effect, repetition, failure, budget)
           IN  /\ decision \in Decisions
               /\ decision = "Retry" =>
                    /\ budget.attemptsLeft /\ budget.beforeDeadline
                    /\ ~budget.cancelled
                    /\ failure.class = "Transient"
                    /\ \/ effect # "Write"
                       \/ failure.certainty = "NotApplied"
                       \/ repetition # "Unsafe"
               /\ decision \in {"Fail", "Cancel"} /\ effect = "Write" =>
                    failure.certainty = "NotApplied"
    BY DEF ClassifyFailure, Decisions, Certainties, EffectKinds, Repetitions,
           ErrorClasses
(* What record_failure writes: the same attempt, settled or scheduled. *)
LEMMA ClassifiedLemma ==
    ASSUME OperationsAssumption, TypeOK, NEW n \in Nodes,
           NEW error \in Errors, NEW certainty \in Certainties,
           NEW invalid \in BOOLEAN, NEW cancelled \in BOOLEAN,
           NEW fits \in BOOLEAN
    PROVE  LET r == Classified(n, error, certainty, invalid, cancelled, fits)
           IN  /\ r \in Records
               /\ r.attempt = rec[n].attempt /\ r.attempts = rec[n].attempts
               /\ r.error = error
               /\ r.state \in {"RetryScheduled", "Unknown", "Failed", "Cancelled"}
               /\ r.state = "RetryScheduled" =>
                    /\ rec[n].attempts < MaxAttempts[n]
                    /\ IsWrite(n) /\ r.certainty # "NotApplied" =>
                          Repetition[n] # "Unsafe"
               /\ r.state \in {"Failed", "Cancelled"} => r.certainty = "NotApplied"
               /\ ~IsWrite(n) => r.certainty = "NotApplied"
               /\ IsWrite(n) /\ r.certainty = "NotApplied" =>
                    /\ rec[n].certainty = "NotApplied" /\ certainty = "NotApplied"
                    /\ ~invalid
<1> DEFINE reported == [class |-> ErrorClass(error), certainty |-> certainty,
                        invalid |-> invalid]
           known  == KnownAfter(Effect[n], rec[n].certainty, reported)
           judged == [reported EXCEPT !.certainty = known]
           budget == [attemptsLeft   |-> rec[n].attempts < MaxAttempts[n],
                      beforeDeadline |-> ~expired,
                      cancelled      |-> cancelled \/ run.cancelRequested]
           decision == ClassifyFailure(Effect[n], Repetition[n], judged, budget)
           final  == AfterBackoff(decision, known, fits)
<1>1. rec[n] \in Records /\ rec[n].certainty \in Certainties
    BY DEF TypeOK, Records
<1>2. Effect[n] \in EffectKinds /\ Repetition[n] \in Repetitions
    BY DEF OperationsAssumption
<1>3. reported \in [class : ErrorClasses, certainty : Certainties, invalid : BOOLEAN]
    BY DEF ErrorClass, ErrorClasses
<1>4. /\ known \in Certainties
      /\ Effect[n] # "Write" => known = "NotApplied"
      /\ Effect[n] = "Write" /\ known = "NotApplied" =>
            rec[n].certainty = "NotApplied" /\ certainty = "NotApplied" /\ ~invalid
    <2> HIDE DEF reported
    <2>1. reported.certainty = certainty /\ reported.invalid = invalid
        BY DEF reported
    <2> QED BY <1>1, <1>2, <1>3, <2>1, KnownAfterLemma
<1>5. judged \in [class : ErrorClasses, certainty : Certainties, invalid : BOOLEAN]
      /\ judged.certainty = known
    <2> HIDE DEF known
    <2> QED BY <1>3, <1>4
<1>6. budget \in [attemptsLeft : BOOLEAN, beforeDeadline : BOOLEAN, cancelled : BOOLEAN]
      /\ budget.attemptsLeft = (rec[n].attempts < MaxAttempts[n])
    BY DEF TypeOK, Runs
<1>7. /\ decision \in Decisions
      /\ decision = "Retry" =>
            /\ rec[n].attempts < MaxAttempts[n]
            /\ \/ Effect[n] # "Write" \/ known = "NotApplied"
               \/ Repetition[n] # "Unsafe"
      /\ decision \in {"Fail", "Cancel"} /\ Effect[n] = "Write" => known = "NotApplied"
    <2> HIDE DEF judged, budget, known
    <2> QED BY <1>2, <1>5, <1>6, ClassifyLemma
<1>8. /\ final \in Decisions
      /\ final = "Retry" => decision = "Retry"
      /\ final \in {"Fail", "Cancel"} /\ Effect[n] = "Write" => known = "NotApplied"
    <2> HIDE DEF decision, known
    <2> QED BY <1>7 DEF AfterBackoff, Decisions
<1>9. Classified(n, error, certainty, invalid, cancelled, fits)
        = [rec[n] EXCEPT !.state = StateOf(final), !.certainty = known, !.error = error]
    BY DEF Classified
<1>10. /\ StateOf(final) \in {"RetryScheduled", "Unknown", "Failed", "Cancelled"}
       /\ StateOf(final) = "RetryScheduled" => final = "Retry"
       /\ StateOf(final) \in {"Failed", "Cancelled"} => final \in {"Fail", "Cancel"}
    <2> HIDE DEF final
    <2> QED BY <1>8 DEF StateOf, Decisions
<1> HIDE DEF final, known, decision
<1> QED
    BY <1>1, <1>2, <1>4, <1>7, <1>8, <1>9, <1>10
    DEF Records, RecordStates, IsWrite

(* The records that the actions build have the types of the variables. *)
LEMMA IdleType ==
    ASSUME NEW pc \in Pcs, NEW result \in Errors, NEW attempt \in Nat,
           NEW earlier \in Records
    PROVE  /\ [Idle EXCEPT !.pc = pc] \in Execs
           /\ [Idle EXCEPT !.pc = pc, !.result = result] \in Execs
           /\ [Idle EXCEPT !.pc = pc, !.attempt = attempt] \in Execs
           /\ [Idle EXCEPT !.pc = pc, !.previous = earlier] \in Execs
           /\ Idle \in Execs
<1>1. NoOutcome \in Outcomes
    BY DEF NoOutcome, Outcomes, Errors, Certainties
<1>2. NoRecord \in Records
    BY DEF NoRecord, Records, RecordStates, Certainties, Errors
<1>3. "idle" \in Pcs /\ "none" \in Errors
    BY DEF Pcs, Errors
<1> QED BY <1>1, <1>2, <1>3 DEF Idle, Execs

(* A fresh executor state, as Return and Finish leave it, is well typed. *)
LEMMA IdleSteps ==
    ASSUME NEW pc \in Pcs, NEW result \in Errors
    PROVE  /\ [Idle EXCEPT !.pc = pc, !.result = result] \in Execs
           /\ [Idle EXCEPT !.pc = pc, !.result = result].pc = pc
           /\ [Idle EXCEPT !.pc = pc, !.result = result].result = result
           /\ [Idle EXCEPT !.pc = pc] \in Execs
           /\ [Idle EXCEPT !.pc = pc].pc = pc
           /\ Idle \in Execs
<1>1. NoRecord \in Records /\ 0 \in Nat
    BY DEF NoRecord, Records, RecordStates, Certainties, Errors
<1>2. /\ [Idle EXCEPT !.pc = pc, !.result = result] \in Execs
      /\ [Idle EXCEPT !.pc = pc] \in Execs /\ Idle \in Execs
    BY <1>1, IdleType
<1> QED BY <1>2 DEF Idle

(* The answer an executor holds at pc outcome is well typed. *)
LEMMA ExecOutcome ==
    ASSUME NEW e \in Execs, NEW out \in Outcomes
    PROVE  /\ [e EXCEPT !.pc = "outcome", !.out = out] \in Execs
           /\ [e EXCEPT !.pc = "outcome", !.out = out].attempt = e.attempt
BY DEF Execs, Pcs

(* Replacing one record by another record keeps the records well typed. *)
LEMMA RecordUpdate ==
    ASSUME NEW r \in Records, NEW state \in RecordStates,
           NEW certainty \in Certainties, NEW error \in Errors
    PROVE  /\ [r EXCEPT !.state = state, !.certainty = certainty] \in Records
           /\ [r EXCEPT !.certainty = certainty, !.state = state,
                        !.error = error] \in Records
           /\ [r EXCEPT !.state = state] \in Records
BY DEF Records

-----------------------------------------------------------------------------
(* Each step preserves the invariant.  HeadInv depends only on the store    *)
(* and the world, and NodeInv(m) only on what concerns m.                   *)

(* The head's invariants depend on run, rec and the possible effects alone. *)
LEMMA HeadFrame ==
    ASSUME HeadInv, UNCHANGED <<run, rec, pending, landed>>
    PROVE  HeadInv'
BY DEF HeadInv, NoHiddenEffect, SuccessIsEarned, CancelIsKept, InOrder,
       BlockedIsResolvable, RetriesAreAffordable, Possible, HasUnknown

(* A node's invariant survives a step that leaves its own state alone. *)
LEMMA NodeFrame ==
    ASSUME NEW m, NodeInv(m), rec'[m] = rec[m], exec'[m] = exec[m], co' = co,
           issued'[m] = issued[m], pending'[m] = pending[m], landed'[m] = landed[m]
    PROVE  NodeInv(m)'
BY DEF NodeInv, IdentityInv, EvidenceInv, ExecInv, Possible

(* While a coordinator is active, a step that leaves the head alone has     *)
(* only the order of the nodes and their budgets to preserve.               *)
LEMMA HeadActive ==
    ASSUME HeadInv, WalkInv, co.pc # "none", run' = run,
           InOrder', RetriesAreAffordable'
    PROVE  HeadInv'
BY DEF HeadInv, WalkInv, NoHiddenEffect, SuccessIsEarned, CancelIsKept,
       BlockedIsResolvable, IsTerminal

(* The node the coordinator is at may change: all earlier ones are          *)
(* confirmed, and nothing exists of the later ones.                         *)
LEMMA OrderActive ==
    ASSUME InOrder, NEW n \in Nodes, rec[n].state # "Succeeded",
           \A m \in Nodes : m < n => rec[m].state = "Succeeded",
           \A m \in Nodes : m # n =>
               /\ rec'[m] = rec[m]
               /\ pending'[m] = pending[m] /\ landed'[m] = landed[m]
    PROVE  InOrder'
<1>1. \A k \in Nodes : \A m \in 1..k - 1 : m \in Nodes /\ m < k
    BY OperationsAssumption DEF Nodes, OperationsAssumption
<1>2. \A m \in 1..n - 1 : rec'[m].state = "Succeeded"
    BY <1>1
<1>3. ASSUME NEW k \in Nodes, k # n,
             rec'[k].state # "Absent" \/ Possible(k)' # {},
             NEW m \in 1..k - 1
      PROVE  rec'[m].state = "Succeeded"
    <2>1. rec[m].state = "Succeeded"
        BY <1>3 DEF InOrder, Possible
    <2> QED BY <1>1, <1>3, <2>1
<1> QED BY <1>2, <1>3 DEF InOrder

(* The loop of execute_operation that ends on a settled record. *)
LEMMA ViewSettledInv ==
    ASSUME OperationsAssumption, IInv, NEW n \in Nodes,
           ViewSettled(n), UNCHANGED <<headVars, co>>
    PROVE  IInv'
<1> USE DEF IInv, ViewSettled, At, Finish, world, headVars
<1>1. TypeOK'
    BY ZenonT(60) DEF TypeOK, Execs, Idle, NoRecord, NoOutcome, Pcs, Errors, Records, RecordStates, Certainties, Outcomes
<1>2. NodeInv(n)'
    BY DEF NodeInv, IdentityInv, EvidenceInv, ExecInv, Possible, TypeOK, Execs, Idle
<1>3. ASSUME NEW m \in Nodes, m # n PROVE NodeInv(m)'
    BY <1>3, NodeFrame DEF TypeOK
<1>4. WalkInv'
    BY DEF WalkInv, TypeOK, Idle
<1>5. HeadInv'
    BY HeadFrame
<1> QED BY <1>1, <1>2, <1>3, <1>4, <1>5

(* The refusal before dispatch: cancelled, late or out of attempts. *)
LEMMA ViewRefusedInv ==
    ASSUME OperationsAssumption, IInv, NEW n \in Nodes,
           ViewRefused(n), UNCHANGED <<headVars, co>>
    PROVE  IInv'
<1> USE DEF IInv, ViewRefused, At, Finish, world, headVars
<1>1. TypeOK'
    BY DEF TypeOK, Execs, Idle, NoRecord, NoOutcome, Pcs, Errors, Records, RecordStates, Certainties, Outcomes
<1>2. NodeInv(n)'
    BY DEF NodeInv, IdentityInv, EvidenceInv, ExecInv, Possible, TypeOK, Execs, Idle
<1>3. ASSUME NEW m \in Nodes, m # n PROVE NodeInv(m)'
    BY <1>3, NodeFrame DEF TypeOK
<1>4. WalkInv'
    BY DEF WalkInv, TypeOK, Idle
<1>5. HeadInv'
    BY HeadFrame
<1> QED BY <1>1, <1>2, <1>3, <1>4, <1>5

(* The view that authorizes an attempt. *)
LEMMA ViewReadyInv ==
    ASSUME OperationsAssumption, IInv, NEW n \in Nodes,
           ViewReady(n), UNCHANGED <<headVars, co>>
    PROVE  IInv'
<1> USE DEF IInv, ViewReady, At, world, headVars
<1>1. TypeOK'
    BY DEF TypeOK, Execs, Idle, NoRecord, NoOutcome, Pcs, Errors, Records, RecordStates, Certainties, Outcomes
<1>2. NodeInv(n)'
    BY DEF NodeInv, IdentityInv, EvidenceInv, ExecInv, Possible, TypeOK, Execs, Idle
<1>3. ASSUME NEW m \in Nodes, m # n PROVE NodeInv(m)'
    BY <1>3, NodeFrame DEF TypeOK
<1>4. WalkInv'
    BY DEF WalkInv, TypeOK, Idle
<1>5. HeadInv'
    BY HeadFrame
<1> QED BY <1>1, <1>2, <1>3, <1>4, <1>5

(* The refusal while waiting for a permit. *)
LEMMA PermitRefusedInv ==
    ASSUME OperationsAssumption, IInv, NEW n \in Nodes,
           PermitRefused(n), UNCHANGED <<headVars, co>>
    PROVE  IInv'
<1> USE DEF IInv, PermitRefused, At, Finish, world, headVars
<1>1. TypeOK'
    BY DEF TypeOK, Execs, Idle, NoRecord, NoOutcome, Pcs, Errors, Records, RecordStates, Certainties, Outcomes
<1>2. NodeInv(n)'
    BY DEF NodeInv, IdentityInv, EvidenceInv, ExecInv, Possible, TypeOK, Execs, Idle
<1>3. ASSUME NEW m \in Nodes, m # n PROVE NodeInv(m)'
    BY <1>3, NodeFrame DEF TypeOK
<1>4. WalkInv'
    BY DEF WalkInv, TypeOK, Idle
<1>5. HeadInv'
    BY HeadFrame
<1> QED BY <1>1, <1>2, <1>3, <1>4, <1>5

(* The intent that its commit declines. *)
LEMMA IntentRefusedInv ==
    ASSUME OperationsAssumption, IInv, NEW n \in Nodes,
           IntentRefused(n), UNCHANGED <<headVars, co>>
    PROVE  IInv'
<1> USE DEF IInv, IntentRefused, At, Finish, world, headVars
<1>1. TypeOK'
    BY DEF TypeOK, Execs, Idle, NoRecord, NoOutcome, Pcs, Errors, Records, RecordStates, Certainties, Outcomes
<1>2. NodeInv(n)'
    BY DEF NodeInv, IdentityInv, EvidenceInv, ExecInv, Possible, TypeOK, Execs, Idle
<1>3. ASSUME NEW m \in Nodes, m # n PROVE NodeInv(m)'
    BY <1>3, NodeFrame DEF TypeOK
<1>4. WalkInv'
    BY DEF WalkInv, TypeOK, Idle
<1>5. HeadInv'
    BY HeadFrame
<1> QED BY <1>1, <1>2, <1>3, <1>4, <1>5

(* The durable intent: the one step that issues an attempt. *)
LEMMA IntentInv ==
    ASSUME OperationsAssumption, IInv, NEW n \in Nodes,
           Intent(n), UNCHANGED <<headVars, co>>
    PROVE  IInv'
<1> USE DEF IInv, Intent, At, IntentRecord, CancelSeen, world, headVars
<1>1. TypeOK'
    <2>1. exec[n].previous \in Records /\ issued[n] + 1 \in Nat
        BY DEF TypeOK, Execs
    <2>2. IntentRecord(n) \in Records
        BY <2>1 DEF Records, RecordStates, Errors, Certainties
    <2>3. [Idle EXCEPT !.pc = "dispatch", !.attempt = issued[n] + 1] \in Execs
        BY <2>1 DEF Execs, Idle, NoRecord, NoOutcome, Pcs, Errors, Records,
                    RecordStates, Certainties, Outcomes
    <2> QED BY <2>1, <2>2, <2>3 DEF TypeOK
<1>2. NodeInv(n)'
    <2>1. exec[n].previous = rec[n] /\ co.pc = "op" /\ co.node = n
        BY DEF NodeInv, ExecInv
    <2>2. /\ rec'[n].state = "Running" /\ rec'[n].attempt = issued[n] + 1
          /\ rec'[n].certainty = rec[n].certainty
          /\ issued'[n] = issued[n] + 1 /\ issued[n] \in Nat
          /\ exec'[n].pc = "dispatch" /\ exec'[n].attempt = issued[n] + 1
          /\ Possible(n)' = Possible(n)
        BY <2>1 DEF TypeOK, Idle, Possible
    <2>3. IdentityInv(n)'
        BY <2>2 DEF NodeInv, IdentityInv
    <2>4. EvidenceInv(n)'
        BY <2>1, <2>2 DEF NodeInv, EvidenceInv, ExecInv
    <2>5. issued[n] + 1 \notin Possible(n)
        BY <2>2 DEF NodeInv, IdentityInv
    <2>6. ExecInv(n)'
        BY <2>1, <2>2, <2>5 DEF ExecInv
    <2> QED BY <2>3, <2>4, <2>6 DEF NodeInv
<1>3. ASSUME NEW m \in Nodes, m # n PROVE NodeInv(m)'
    BY <1>3, NodeFrame DEF TypeOK
<1>4. WalkInv'
    <2>1. rec'[n].state = "Running" /\ exec'[n].pc = "dispatch"
        BY DEF TypeOK, Idle
    <2>2. \A m \in Nodes : m # n => rec'[m] = rec[m] /\ exec'[m] = exec[m]
        BY DEF TypeOK
    <2>3. co.pc = "op" /\ co.node = n
        BY DEF NodeInv, ExecInv
    <2>4. \A m \in Nodes : m < co.node => m # n
        BY <2>3 DEF Nodes
    <2> QED BY <2>1, <2>2, <2>3, <2>4 DEF WalkInv
<1>5. HeadInv'
    <2>1. /\ rec[n].state # "Succeeded" /\ co.pc = "op" /\ co.node = n
          /\ exec[n].previous = rec[n] /\ rec[n].attempts < MaxAttempts[n]
        BY DEF NodeInv, ExecInv
    <2>2. \A m \in Nodes : m # n => rec'[m] = rec[m]
        BY DEF TypeOK
    <2>3. InOrder'
        BY <2>1, <2>2, OrderActive DEF HeadInv, WalkInv
    <2>4. rec'[n].state = "Running" /\ rec'[n].attempts = rec[n].attempts + 1
        BY <2>1 DEF TypeOK
    <2>5. RetriesAreAffordable'
        BY <2>1, <2>2, <2>4 DEF HeadInv, RetriesAreAffordable, TypeOK, Records,
                                OperationsAssumption
    <2> QED BY <2>1, <2>3, <2>5, HeadActive
<1> QED BY <1>1, <1>2, <1>3, <1>4, <1>5

(* The dispatch: the one step that makes an effect possible. *)
LEMMA DispatchInv ==
    ASSUME OperationsAssumption, IInv, NEW n \in Nodes,
           Dispatch(n), UNCHANGED <<headVars, co>>
    PROVE  IInv'
<1> USE DEF IInv, Dispatch, At, world, headVars
<1>1. TypeOK'
    <2>1. [exec[n] EXCEPT !.pc = "call"] \in Execs /\ exec[n].attempt \in Nat
        BY DEF TypeOK, Execs, Pcs
    <2> QED BY <2>1 DEF TypeOK
<1>2. NodeInv(n)'
    <2>1. /\ exec'[n].pc = "call" /\ exec'[n].attempt = exec[n].attempt
          /\ rec'[n] = rec[n] /\ landed'[n] = landed[n] /\ issued'[n] = issued[n]
        BY DEF TypeOK, Execs
    <2>2. Possible(n)' = Possible(n) \cup (IF IsWrite(n) THEN {exec[n].attempt} ELSE {})
        BY DEF TypeOK, Possible
    <2>3. rec[n].state = "Running" /\ rec[n].attempt = exec[n].attempt
        BY DEF NodeInv, ExecInv
    <2>4. IdentityInv(n)'
        BY <2>1, <2>2, <2>3 DEF NodeInv, IdentityInv, TypeOK, Records
    <2>5. EvidenceInv(n)'
        BY <2>1, <2>2, <2>3 DEF NodeInv, EvidenceInv
    <2>6. ExecInv(n)'
        BY <2>1, <2>3 DEF NodeInv, ExecInv
    <2> QED BY <2>4, <2>5, <2>6 DEF NodeInv
<1>3. ASSUME NEW m \in Nodes, m # n PROVE NodeInv(m)'
    BY <1>3, NodeFrame DEF TypeOK
<1>4. WalkInv'
    BY DEF WalkInv, TypeOK, Idle
<1>5. HeadInv'
    <2>1. co.pc = "op" /\ co.node = n /\ rec[n].state = "Running"
        BY DEF NodeInv, ExecInv
    <2>2. InOrder'
        BY <2>1, OrderActive DEF HeadInv, WalkInv, TypeOK
    <2> QED BY <2>1, <2>2, HeadActive DEF HeadInv, RetriesAreAffordable
<1> QED BY <1>1, <1>2, <1>3, <1>4, <1>5

(* An answer in time, which the operation's contract keeps honest. *)
LEMMA CallReturnsInv ==
    ASSUME OperationsAssumption, IInv, NEW n \in Nodes,
           CallReturns(n), UNCHANGED <<headVars, co>>
    PROVE  IInv'
<1> USE DEF IInv, CallReturns, At, CallEnds, Honest, world, headVars
<1>1. TypeOK'
    <2>1. PICK out \in Outcomes : CallEnds(n, out)
        OBVIOUS
    <2>2. exec[n] \in Execs
        BY DEF TypeOK
    <2>3. exec' \in [Nodes -> Execs]
        BY <2>1, <2>2, ExecOutcome DEF TypeOK
    <2>4. pending' \in [Nodes -> SUBSET Nat]
        BY DEF TypeOK
    <2> QED BY <2>3, <2>4 DEF TypeOK
<1>2. NodeInv(n)'
    BY DEF NodeInv, IdentityInv, EvidenceInv, ExecInv, Possible, TypeOK, Execs, Idle
<1>3. ASSUME NEW m \in Nodes, m # n PROVE NodeInv(m)'
    BY <1>3, NodeFrame DEF TypeOK
<1>4. WalkInv'
    BY DEF WalkInv, TypeOK, Idle
<1>5. HeadInv'
    BY DEF HeadInv, NoHiddenEffect, SuccessIsEarned, CancelIsKept, InOrder,
           BlockedIsResolvable, RetriesAreAffordable, Possible, HasUnknown,
           NodeInv, EvidenceInv, ExecInv, TypeOK
<1> QED BY <1>1, <1>2, <1>3, <1>4, <1>5

(* A call given up to observe_late after a timeout or a cancellation. *)
LEMMA CallAbandonedInv ==
    ASSUME OperationsAssumption, IInv, NEW n \in Nodes,
           CallAbandoned(n), UNCHANGED <<headVars, co>>
    PROVE  IInv'
<1> USE DEF IInv, CallAbandoned, At, CallEnds, LostCertainty, world, headVars
<1>1. TypeOK'
    <2> DEFINE out == [kind |-> "failed", certainty |-> LostCertainty(n),
                       error |-> IF token[n] THEN "cancelled" ELSE "transient"]
    <2>1. out \in Outcomes
        BY DEF Outcomes, Errors, Certainties
    <2>2. exec[n] \in Execs /\ exec[n].attempt \in Nat
        BY DEF TypeOK, Execs
    <2>3. exec' \in [Nodes -> Execs]
        BY <2>1, <2>2, ExecOutcome DEF TypeOK
    <2>4. late' \subseteq Nodes \X Nat
        BY <2>2 DEF TypeOK
    <2> QED BY <2>3, <2>4 DEF TypeOK
<1>2. NodeInv(n)'
    BY DEF NodeInv, IdentityInv, EvidenceInv, ExecInv, Possible, TypeOK, Execs, Idle
<1>3. ASSUME NEW m \in Nodes, m # n PROVE NodeInv(m)'
    BY <1>3, NodeFrame DEF TypeOK
<1>4. WalkInv'
    BY DEF WalkInv, TypeOK, Idle
<1>5. HeadInv'
    BY HeadFrame
<1> QED BY <1>1, <1>2, <1>3, <1>4, <1>5

(* The three steps by which an executor settles its record: only node n is  *)
(* concerned, and the coordinator is at it.                                 *)
LEMMA SettleStep ==
    ASSUME OperationsAssumption, IInv, NEW n \in Nodes,
           NEW r \in Records, NEW e \in Execs,
           rec' = [rec EXCEPT ![n] = r], exec' = [exec EXCEPT ![n] = e],
           UNCHANGED <<run, expired, token, late, world, headVars, co>>,
           co.pc = "op", co.node = n,
           rec[n].state # "Succeeded",
           r.state \notin {"Running", "Pending"},
           r.attempts = rec[n].attempts,
           r.state = "RetryScheduled" => rec[n].attempts < MaxAttempts[n],
           NodeInv(n)'
    PROVE  IInv'
<1> USE DEF IInv, world, headVars
<1>1. TypeOK'
    BY DEF TypeOK
<1>2. ASSUME NEW m \in Nodes, m # n PROVE NodeInv(m)'
    BY <1>2, NodeFrame DEF TypeOK
<1>3. /\ \A m \in Nodes : m # n => rec'[m] = rec[m] /\ exec'[m] = exec[m]
      /\ rec'[n] = r
    BY DEF TypeOK
<1>4. WalkInv'
    <2>1. \A m \in Nodes : m < co.node => m # n
        BY DEF Nodes
    <2> QED BY <1>3, <2>1 DEF WalkInv
<1>5. HeadInv'
    <2>1. InOrder'
        BY <1>3, OrderActive DEF HeadInv, WalkInv
    <2>2. RetriesAreAffordable'
        BY <1>3 DEF HeadInv, RetriesAreAffordable
    <2> QED BY <2>1, <2>2, HeadActive
<1> QED BY <1>1, <1>2, <1>4, <1>5

(* The confirmation of a valid output. *)
LEMMA ConfirmInv ==
    ASSUME OperationsAssumption, IInv, NEW n \in Nodes,
           Confirm(n), UNCHANGED <<headVars, co>>
    PROVE  IInv'
<1> DEFINE e == [Idle EXCEPT !.pc = "done", !.result = "none"]
<1>1. /\ co.pc = "op" /\ co.node = n
      /\ rec[n].state = "Running" /\ rec[n].attempt = exec[n].attempt
      /\ ~IsTerminal(run.state)
      /\ IsWrite(n) => landed[n] # {}
    BY DEF IInv, NodeInv, ExecInv, WalkInv, Confirm, At
<1>2. /\ rec' = [rec EXCEPT ![n] = Confirmed(n)]
      /\ exec' = [exec EXCEPT ![n] = e]
      /\ UNCHANGED <<run, expired, token, late, world>>
    BY <1>1 DEF Confirm, Finish
<1>3. e \in Execs /\ e.pc = "done" /\ e.result = "none"
    BY IdleSteps DEF Pcs, Errors
<1>4. rec[n] \in Records
    BY DEF IInv, TypeOK
<1>5. /\ Confirmed(n) \in Records
      /\ Confirmed(n).state = "Succeeded" /\ Confirmed(n).error = rec[n].error
      /\ Confirmed(n).attempt = rec[n].attempt
      /\ Confirmed(n).attempts = rec[n].attempts
      /\ Confirmed(n).certainty = IF IsWrite(n) THEN "Applied" ELSE "NotApplied"
    BY <1>4 DEF Confirmed, Records, RecordStates, Certainties
<1> HIDE DEF e
<1>6. rec'[n] = Confirmed(n) /\ exec'[n] = e
    BY <1>2 DEF IInv, TypeOK
<1>7. NodeInv(n)'
    <2>1. IdentityInv(n)'
        BY <1>2, <1>5, <1>6 DEF IInv, NodeInv, IdentityInv, Possible, world
    <2>2. EvidenceInv(n)'
        BY <1>1, <1>2, <1>5, <1>6 DEF IInv, NodeInv, EvidenceInv, Possible, world
    <2>3. ExecInv(n)'
        BY <1>1, <1>3, <1>5, <1>6 DEF ExecInv
    <2> QED BY <2>1, <2>2, <2>3 DEF NodeInv
<1> QED BY <1>1, <1>2, <1>3, <1>5, <1>7, SettleStep

(* A failure is classified only while the executor still owns the record. *)
LEMMA FailInv ==
    ASSUME OperationsAssumption, IInv, NEW n \in Nodes,
           Fail(n), UNCHANGED <<headVars, co>>
    PROVE  IInv'
<1> DEFINE e       == [Idle EXCEPT !.pc = "view"]
           out     == exec[n].out
           invalid == out.kind # "failed"
           error   == IF invalid THEN "other" ELSE out.error
<1>1. /\ co.pc = "op" /\ co.node = n
      /\ rec[n].state = "Running" /\ rec[n].attempt = exec[n].attempt
      /\ ~IsTerminal(run.state)
      /\ exec[n].pc = "outcome" /\ error # "none"
      /\ IsWrite(n) /\ out.certainty = "NotApplied" =>
            exec[n].attempt \notin Possible(n)
    BY DEF IInv, NodeInv, ExecInv, WalkInv, Fail, At
<1>2. /\ out \in Outcomes /\ out.certainty \in Certainties /\ error \in Errors
      /\ token[n] \in BOOLEAN /\ rec[n] \in Records
    BY DEF IInv, TypeOK, Execs, Outcomes, Errors
<1>3. PICK fits \in BOOLEAN :
          rec' = [rec EXCEPT ![n] = Classified(n, error, out.certainty, invalid,
                                               token[n], fits)]
    BY <1>1 DEF Fail, RecordFailure
<1> DEFINE r == Classified(n, error, out.certainty, invalid, token[n], fits)
<1>4. /\ exec' = [exec EXCEPT ![n] = e]
      /\ UNCHANGED <<run, expired, token, late, world>>
    BY DEF Fail, Return
<1>5. e \in Execs /\ e.pc = "view"
    BY IdleSteps DEF Pcs, Errors
<1>6. invalid \in BOOLEAN
    OBVIOUS
<1> HIDE DEF e, error, out, invalid
<1>7. /\ r \in Records
      /\ r.attempt = rec[n].attempt /\ r.attempts = rec[n].attempts
      /\ r.error = error
      /\ r.state \in {"RetryScheduled", "Unknown", "Failed", "Cancelled"}
      /\ r.state = "RetryScheduled" =>
           /\ rec[n].attempts < MaxAttempts[n]
           /\ IsWrite(n) /\ r.certainty # "NotApplied" => Repetition[n] # "Unsafe"
      /\ r.state \in {"Failed", "Cancelled"} => r.certainty = "NotApplied"
      /\ ~IsWrite(n) => r.certainty = "NotApplied"
      /\ IsWrite(n) /\ r.certainty = "NotApplied" =>
           rec[n].certainty = "NotApplied" /\ out.certainty = "NotApplied"
    BY <1>2, <1>6, ClassifiedLemma DEF IInv
<1>8. rec' = [rec EXCEPT ![n] = r]
    BY <1>3
<1> HIDE DEF r
<1>9. rec'[n] = r /\ exec'[n] = e
    BY <1>4, <1>8 DEF IInv, TypeOK
<1>10. NodeInv(n)'
    <2>1. IdentityInv(n)'
        BY <1>4, <1>7, <1>9 DEF IInv, NodeInv, IdentityInv, Possible, world
    <2>2. r.certainty = "NotApplied" => Possible(n) = {}
        BY <1>1, <1>7 DEF IInv, NodeInv, EvidenceInv
    <2>3. EvidenceInv(n)'
        <3>1. Possible(n)' = Possible(n)
            BY <1>4 DEF Possible, world
        <3>2. /\ ~IsWrite(n) => Possible(n) = {}
              /\ Repetition[n] = "Unsafe" => \A a, b \in Possible(n) : a = b
            BY DEF IInv, NodeInv, EvidenceInv
        <3>3. Repetition[n] = "Unsafe" /\ r.state = "RetryScheduled" =>
                  r.certainty = "NotApplied"
            BY <1>7
        <3> QED BY <1>1, <1>7, <1>9, <2>2, <3>1, <3>2, <3>3 DEF EvidenceInv
    <2>4. ExecInv(n)'
        BY <1>1, <1>4, <1>5, <1>9 DEF ExecInv
    <2> QED BY <2>1, <2>3, <2>4 DEF NodeInv
<1> QED BY <1>1, <1>4, <1>5, <1>7, <1>8, <1>10, SettleStep

(* Giving a retry up settles the record or schedules it again. *)
LEMMA ViewRetryAbandonedInv ==
    ASSUME OperationsAssumption, IInv, NEW n \in Nodes,
           ViewRetryAbandoned(n), UNCHANGED <<headVars, co>>
    PROVE  IInv'
<1> DEFINE invalid == FALSE
<1>1. /\ co.pc = "op" /\ co.node = n
      /\ rec[n].state = "RetryScheduled" /\ exec[n].pc = "view"
      /\ ~IsTerminal(run.state) /\ rec[n].error # "none"
      /\ rec[n].certainty = "NotApplied" => Possible(n) = {}
    BY DEF IInv, NodeInv, ExecInv, EvidenceInv, WalkInv, ViewRetryAbandoned, At
<1>2. /\ rec[n] \in Records /\ rec[n].certainty \in Certainties
      /\ rec[n].error \in Errors /\ token[n] \in BOOLEAN
      /\ exec[n] \in Execs /\ invalid \in BOOLEAN
    BY DEF IInv, TypeOK, Records
<1>3. PICK fits \in BOOLEAN :
          rec' = [rec EXCEPT ![n] = Classified(n, rec[n].error, rec[n].certainty,
                                               invalid, token[n], fits)]
    BY <1>1 DEF ViewRetryAbandoned, RecordFailure
<1> DEFINE r == Classified(n, rec[n].error, rec[n].certainty, invalid, token[n], fits)
<1>4. /\ exec' = [exec EXCEPT ![n] = exec[n]]
      /\ UNCHANGED <<run, expired, token, late, world>>
    BY DEF ViewRetryAbandoned, IInv, TypeOK
<1> HIDE DEF invalid
<1>5. /\ r \in Records
      /\ r.attempt = rec[n].attempt /\ r.attempts = rec[n].attempts
      /\ r.error = rec[n].error
      /\ r.state \in {"RetryScheduled", "Unknown", "Failed", "Cancelled"}
      /\ r.state = "RetryScheduled" =>
           /\ rec[n].attempts < MaxAttempts[n]
           /\ IsWrite(n) /\ r.certainty # "NotApplied" => Repetition[n] # "Unsafe"
      /\ r.state \in {"Failed", "Cancelled"} => r.certainty = "NotApplied"
      /\ ~IsWrite(n) => r.certainty = "NotApplied"
      /\ IsWrite(n) /\ r.certainty = "NotApplied" =>
           rec[n].certainty = "NotApplied"
    BY <1>2, ClassifiedLemma DEF IInv
<1>6. rec' = [rec EXCEPT ![n] = r]
    BY <1>3
<1> HIDE DEF r
<1>7. rec'[n] = r /\ exec'[n] = exec[n]
    BY <1>4, <1>6 DEF IInv, TypeOK
<1>8. NodeInv(n)'
    <2>1. IdentityInv(n)'
        BY <1>4, <1>5, <1>7 DEF IInv, NodeInv, IdentityInv, Possible, world
    <2>2. EvidenceInv(n)'
        <3>1. Possible(n)' = Possible(n)
            BY <1>4 DEF Possible, world
        <3>2. /\ ~IsWrite(n) => Possible(n) = {}
              /\ Repetition[n] = "Unsafe" => \A a, b \in Possible(n) : a = b
            BY DEF IInv, NodeInv, EvidenceInv
        <3>3. Repetition[n] = "Unsafe" /\ r.state = "RetryScheduled" =>
                  r.certainty = "NotApplied"
            BY <1>5
        <3> QED BY <1>1, <1>5, <1>7, <3>1, <3>2, <3>3 DEF EvidenceInv
    <2>3. ExecInv(n)'
        BY <1>1, <1>4, <1>7 DEF ExecInv
    <2> QED BY <2>1, <2>2, <2>3 DEF NodeInv
<1> QED BY <1>1, <1>2, <1>4, <1>5, <1>6, <1>8, SettleStep


(* Steps that touch neither the store nor the world nor the executors. *)
LEMMA QuietStep ==
    ASSUME OperationsAssumption, IInv, TypeOK',
           UNCHANGED <<run, rec, exec, world, available, co>>,
           phase \in {"ready", "stopping"} <=> phase' \in {"ready", "stopping"}
    PROVE  IInv'
<1> USE DEF IInv, world
<1>1. ASSUME NEW m \in Nodes PROVE NodeInv(m)'
    BY NodeFrame
<1>2. WalkInv'
    BY DEF WalkInv
<1>3. HeadInv'
    BY HeadFrame
<1> QED BY <1>1, <1>2, <1>3

(* The end of a late call. *)
LEMMA LateEndsInv ==
    ASSUME OperationsAssumption, IInv, NEW call \in late,
           LateEnds(call), UNCHANGED <<headVars, co>>
    PROVE  IInv'
<1>1. TypeOK'
    BY DEF IInv, TypeOK, LateEnds, world, headVars
<1> QED BY <1>1, QuietStep DEF LateEnds, headVars

(* The passing of the run's deadline. *)
LEMMA DeadlinePassesInv ==
    ASSUME OperationsAssumption, IInv,
           DeadlinePasses, UNCHANGED <<headVars, co>>
    PROVE  IInv'
<1>1. TypeOK'
    BY DEF IInv, TypeOK, DeadlinePasses, world, headVars
<1> QED BY <1>1, QuietStep DEF DeadlinePasses, headVars

(* The cancellation reaching the token. *)
LEMMA CancelTokenInv ==
    ASSUME OperationsAssumption, IInv, CancelToken, UNCHANGED co
    PROVE  IInv'
<1>1. TypeOK'
    BY DEF IInv, TypeOK, CancelToken, world
<1> QED BY <1>1, QuietStep DEF CancelToken

(* A shutdown that cancels every token. *)
LEMMA ForceShutdownInv ==
    ASSUME OperationsAssumption, IInv, ForceShutdown, UNCHANGED co
    PROVE  IInv'
<1>1. TypeOK'
    BY DEF IInv, TypeOK, ForceShutdown, world, Phases
<1> QED BY <1>1, QuietStep DEF ForceShutdown

(* The world only gets an attempt out of flight, and a keyed destination    *)
(* keeps the effect it has.                                                 *)
LEMMA WorldStepInv ==
    ASSUME OperationsAssumption, IInv, NEW n \in Nodes, NEW a \in pending[n],
           EffectHappens(n, a) \/ EffectLost(n, a), UNCHANGED <<headVars, co>>
    PROVE  IInv'
<1>1. /\ UNCHANGED <<run, rec, expired, exec, token, late, issued, headVars, co>>
      /\ Possible(n)' \subseteq Possible(n)
      /\ landed[n] # {} => landed'[n] # {}
      /\ \A m \in Nodes : m # n => pending'[m] = pending[m] /\ landed'[m] = landed[m]
      /\ pending' \in [Nodes -> SUBSET Nat] /\ landed' \in [Nodes -> SUBSET Nat]
    BY DEF EffectHappens, EffectLost, Possible, IInv, TypeOK
<1> USE DEF IInv, headVars
<1>2. TypeOK'
    BY <1>1 DEF TypeOK
<1>3. ASSUME NEW m \in Nodes PROVE NodeInv(m)'
    <2>1. CASE m # n
        BY <1>1, <2>1, NodeFrame
    <2>2. CASE m = n
        <3>1. IdentityInv(n)'
            BY <1>1 DEF NodeInv, IdentityInv
        <3>2. EvidenceInv(n)'
            BY <1>1 DEF NodeInv, EvidenceInv
        <3>3. ExecInv(n)'
            BY <1>1 DEF NodeInv, ExecInv
        <3> QED BY <2>2, <3>1, <3>2, <3>3 DEF NodeInv
    <2> QED BY <2>1, <2>2
<1>4. WalkInv'
    BY <1>1 DEF WalkInv
<1>5. HeadInv'
    <2>1. \A m \in Nodes : Possible(m)' # {} => Possible(m) # {}
        BY <1>1 DEF Possible
    <2>2. \A m \in Nodes : landed[m] # {} => landed'[m] # {}
        BY <1>1
    <2>3. NoHiddenEffect' /\ InOrder'
        BY <1>1, <2>1 DEF HeadInv, NoHiddenEffect, InOrder
    <2>4. SuccessIsEarned'
        BY <1>1, <2>2 DEF HeadInv, SuccessIsEarned
    <2>5. CancelIsKept' /\ BlockedIsResolvable' /\ RetriesAreAffordable'
        BY <1>1 DEF HeadInv, CancelIsKept, BlockedIsResolvable, HasUnknown,
                    RetriesAreAffordable
    <2> QED BY <2>3, <2>4, <2>5 DEF HeadInv
<1> QED BY <1>2, <1>3, <1>4, <1>5

(* A cancellation changes the head only, and never of a finished run. *)
LEMMA CancelInv ==
    ASSUME OperationsAssumption, IInv, Cancel, UNCHANGED co
    PROVE  IInv'
<1> USE DEF IInv, Cancel, world
<1>1. /\ run' \in Runs /\ run'.state = "Cancelling" /\ run'.unresolved = run.unresolved
      /\ run'.cancelRequested = TRUE
    BY DEF TypeOK, Runs, RunStates
<1>2. TypeOK'
    BY <1>1 DEF TypeOK
<1>3. ASSUME NEW m \in Nodes PROVE NodeInv(m)'
    BY NodeFrame
<1>4. WalkInv'
    BY <1>1 DEF WalkInv, IsTerminal
<1>5. HeadInv'
    BY <1>1 DEF HeadInv, NoHiddenEffect, SuccessIsEarned, CancelIsKept, InOrder,
                BlockedIsResolvable, RetriesAreAffordable, Possible, IsTerminal
<1> QED BY <1>2, <1>3, <1>4, <1>5

-----------------------------------------------------------------------------
(* Commands, lifecycle and coordinator steps. *)

(* For a run that is not finished after the step. *)
LEMMA HeadUnfinished ==
    ASSUME ~IsTerminal(run'.state), CancelIsKept', BlockedIsResolvable',
           InOrder', RetriesAreAffordable'
    PROVE  HeadInv'
BY DEF HeadInv, NoHiddenEffect, SuccessIsEarned, IsTerminal

(* Without a coordinator at an operation every executor is idle. *)
LEMMA AllIdle ==
    ASSUME IInv, co.pc # "op"
    PROVE  \A n \in Nodes : exec[n].pc = "idle"
BY DEF IInv, NodeInv, ExecInv

(* A run that is blocked, ended or not runnable here has no coordinator task. *)
LEMMA BlockedQuiet ==
    ASSUME IInv, run.state = "Blocked" \/ phase \notin {"ready", "stopping"}
                 \/ IsTerminal(run.state) \/ ~available
    PROVE  co.pc = "none"
BY DEF IInv, WalkInv

(* A resolution settles one unknown record and perhaps wakes the run. *)
LEMMA ResolveStep ==
    ASSUME OperationsAssumption, IInv, NEW n \in Nodes, NEW r \in Records,
           Resolvable(n), Resolve(n, r), UNCHANGED co,
           r.state \in {"Succeeded", "Unknown", "Pending", "Failed"},
           r.attempt = rec[n].attempt, r.attempts = rec[n].attempts,
           r.state = "Pending" => rec[n].attempts < MaxAttempts[n],
           EvidenceInv(n)'
    PROVE  IInv'
<1>1. /\ rec' = [rec EXCEPT ![n] = r] /\ run' = Unblocked(rec')
      /\ UNCHANGED <<expired, exec, token, late, world, headVars, co>>
      /\ rec[n].state = "Unknown" /\ run.state = "Blocked" /\ phase = "ready"
    BY DEF Resolve, Resolvable
<1>2. co.pc = "none" /\ \A m \in Nodes : exec[m].pc = "idle"
    BY <1>1, AllIdle, BlockedQuiet
<1>3. rec'[n] = r /\ \A m \in Nodes : m # n => rec'[m] = rec[m]
    BY <1>1 DEF IInv, TypeOK
<1>4. /\ run' \in Runs /\ ~IsTerminal(run'.state)
      /\ run'.cancelRequested = run.cancelRequested
      /\ run'.state = "Blocked" => HasUnknown'
      /\ run'.cancelRequested => run'.state \in {"Cancelling", "Blocked"}
    BY <1>1 DEF Unblocked, IInv, TypeOK, Runs, RunStates, RunErrors, IsTerminal,
                HasUnknown
<1> USE DEF IInv, world, headVars
<1>5. TypeOK'
    BY <1>1, <1>4 DEF TypeOK
<1>6. ASSUME NEW m \in Nodes PROVE NodeInv(m)'
    <2>1. CASE m # n
        BY <1>1, <1>3, <2>1, NodeFrame
    <2>2. CASE m = n
        <3>1. IdentityInv(n)'
            BY <1>1, <1>3 DEF NodeInv, IdentityInv, Possible
        <3>2. ExecInv(n)'
            BY <1>1, <1>2 DEF ExecInv
        <3> QED BY <2>2, <3>1, <3>2 DEF NodeInv
    <2> QED BY <2>1, <2>2
<1>7. WalkInv'
    BY <1>1, <1>2, <1>3, <1>4 DEF WalkInv
<1>8. HeadInv'
    <2>1. CancelIsKept' /\ BlockedIsResolvable'
        BY <1>4 DEF CancelIsKept, BlockedIsResolvable
    <2>2. RetriesAreAffordable'
        BY <1>3 DEF HeadInv, RetriesAreAffordable
    <2>3. \A m \in 1..n - 1 : rec[m].state = "Succeeded"
        BY <1>1 DEF HeadInv, InOrder
    <2>4. \A m \in Nodes : m < n => rec[m].state = "Succeeded"
        BY <2>3 DEF Nodes, OperationsAssumption
    <2>5. InOrder'
        BY <1>1, <1>3, <2>4, OrderActive DEF HeadInv
    <2> QED BY <1>4, <2>1, <2>2, <2>5, HeadUnfinished
<1> QED BY <1>5, <1>6, <1>7, <1>8

(* The resolution that confirms an effect. *)
LEMMA ConfirmAppliedInv ==
    ASSUME OperationsAssumption, IInv, NEW n \in Nodes,
           ConfirmApplied(n), UNCHANGED co
    PROVE  IInv'
<1>1. PICK validOutput \in BOOLEAN :
          Resolve(n, [rec[n] EXCEPT
              !.certainty = "Applied",
              !.state = IF validOutput THEN "Succeeded" ELSE "Unknown",
              !.error = IF validOutput THEN "none" ELSE "other"])
    BY DEF ConfirmApplied
<1> DEFINE r == [rec[n] EXCEPT
              !.certainty = "Applied",
              !.state = IF validOutput THEN "Succeeded" ELSE "Unknown",
              !.error = IF validOutput THEN "none" ELSE "other"]
<1>2. rec[n] \in Records
    BY DEF IInv, TypeOK
<1>3. /\ r \in Records /\ r.attempt = rec[n].attempt /\ r.attempts = rec[n].attempts
      /\ r.certainty = "Applied" /\ r.state \in {"Succeeded", "Unknown"}
    BY <1>2 DEF Records, RecordStates, Certainties, Errors
<1>4. Resolvable(n) /\ landed[n] # {} /\ Resolve(n, r)
    BY <1>1 DEF ConfirmApplied
<1> HIDE DEF r
<1>5. rec'[n] = r /\ UNCHANGED <<pending, landed>>
    BY <1>4 DEF Resolve, IInv, TypeOK, world
<1>6. EvidenceInv(n)'
    BY <1>3, <1>4, <1>5 DEF IInv, NodeInv, EvidenceInv, Possible
<1> QED BY <1>3, <1>4, <1>6, ResolveStep

(* The resolution that excludes an effect, with or without a retry. *)
LEMMA ConfirmNotAppliedInv ==
    ASSUME OperationsAssumption, IInv, NEW n \in Nodes,
           ConfirmNotApplied(n), UNCHANGED co
    PROVE  IInv'
<1> DEFINE r(again) == [rec[n] EXCEPT
               !.certainty = "NotApplied",
               !.state = IF again THEN "Pending" ELSE "Failed",
               !.error = IF again THEN "none" ELSE "other"]
<1>1. PICK again \in BOOLEAN :
          /\ again => rec[n].attempts < MaxAttempts[n]
          /\ Resolve(n, r(again))
    <2>1. PICK retry \in BOOLEAN :
            LET again == /\ retry
                      /\ rec[n].attempts < MaxAttempts[n]
                      /\ ~expired
                      /\ ~run.cancelRequested
            IN  Resolve(n, r(again))
        BY DEF ConfirmNotApplied
    <2> DEFINE again == /\ retry
                        /\ rec[n].attempts < MaxAttempts[n]
                        /\ ~expired
                        /\ ~run.cancelRequested
    <2>2. again \in BOOLEAN /\ (again => rec[n].attempts < MaxAttempts[n])
          /\ Resolve(n, r(again))
        BY <2>1
    <2> QED BY <2>2
<1>2. rec[n] \in Records
    BY DEF IInv, TypeOK
<1>3. /\ r(again) \in Records
      /\ r(again).attempt = rec[n].attempt /\ r(again).attempts = rec[n].attempts
      /\ r(again).certainty = "NotApplied"
      /\ r(again).state = IF again THEN "Pending" ELSE "Failed"
      /\ r(again).error = IF again THEN "none" ELSE "other"
    BY <1>2 DEF Records, RecordStates, Certainties, Errors
<1>4. Resolvable(n) /\ Possible(n) = {}
    BY DEF ConfirmNotApplied, Possible
<1> HIDE DEF r
<1>5. rec'[n] = r(again) /\ UNCHANGED <<pending, landed>>
    BY <1>1 DEF Resolve, IInv, TypeOK, world
<1>6. EvidenceInv(n)'
    BY <1>3, <1>4, <1>5 DEF IInv, NodeInv, EvidenceInv, Possible
<1> QED BY <1>1, <1>3, <1>4, <1>6, ResolveStep

(* What StopTracking leaves is complete: the unknown record is the last of  *)
(* the sequence that exists, and it is listed.                              *)
LEMMA StopTrackingInv ==
    ASSUME OperationsAssumption, IInv, NEW n \in Nodes,
           StopTracking(n), UNCHANGED co
    PROVE  IInv'
<1>1. /\ UNCHANGED <<rec, expired, exec, token, late, world, headVars, co>>
      /\ rec[n].state = "Unknown" /\ run.state = "Blocked"
      /\ run'.state \in {"Cancelled", "Failed"}
      /\ run'.unresolved = {m \in Nodes : rec[m].state = "Unknown"}
      /\ run' \in Runs
    BY DEF StopTracking, Resolvable, IInv, TypeOK, Runs, RunStates, RunErrors
<1>2. co.pc = "none"
    BY <1>1, BlockedQuiet
<1>3. \A m \in Nodes : \/ rec[m].state \in {"Succeeded", "Unknown"}
                       \/ rec[m].state = "Absent" /\ Possible(m) = {}
    <2>1. ASSUME NEW m \in Nodes
          PROVE  m = n \/ m \in 1..n - 1 \/ n \in 1..m - 1
        BY DEF Nodes, OperationsAssumption
    <2>2. rec[n].state # "Absent" /\ rec[n].state # "Succeeded"
        BY <1>1
    <2> QED BY <1>1, <2>1, <2>2 DEF IInv, HeadInv, InOrder
<1> USE DEF IInv, world, headVars
<1>4. TypeOK'
    BY <1>1 DEF TypeOK
<1>5. ASSUME NEW m \in Nodes PROVE NodeInv(m)'
    BY <1>1, NodeFrame
<1>6. WalkInv'
    BY <1>1, <1>2, <1>3 DEF WalkInv
<1>7. HeadInv'
    <2>1. NoHiddenEffect'
        BY <1>1, <1>3 DEF NoHiddenEffect, Possible
    <2>2. SuccessIsEarned' /\ CancelIsKept' /\ BlockedIsResolvable'
        BY <1>1 DEF SuccessIsEarned, CancelIsKept, BlockedIsResolvable
    <2>3. InOrder' /\ RetriesAreAffordable'
        BY <1>1 DEF HeadInv, InOrder, RetriesAreAffordable, Possible
    <2> QED BY <2>1, <2>2, <2>3 DEF HeadInv
<1> QED BY <1>4, <1>5, <1>6, <1>7

(* Only the store and the world survive a crash; an attempt it interrupts   *)
(* stays Running until a boot classifies it.                                *)
LEMMA CrashInv ==
    ASSUME OperationsAssumption, IInv, Crash, co' = NoCo
    PROVE  IInv'
<1> USE DEF IInv, Crash, NoCo, world
<1>1. TypeOK'
    <2>1. Idle \in Execs
        <3>1. "idle" \in Pcs /\ "none" \in Errors
            BY DEF Pcs, Errors
        <3> QED BY <3>1, IdleSteps
    <2>2. 1 \in Nodes
        BY DEF Nodes, OperationsAssumption
    <2> QED BY <2>1, <2>2 DEF TypeOK, Phases, CoPcs, Errors
<1>2. ASSUME NEW m \in Nodes PROVE NodeInv(m)'
    <2>1. exec'[m].pc = "idle"
        BY DEF Idle
    <2>2. IdentityInv(m)' /\ EvidenceInv(m)'
        BY DEF NodeInv, IdentityInv, EvidenceInv, Possible
    <2> QED BY <2>1, <2>2 DEF NodeInv, ExecInv
<1>3. WalkInv'
    BY DEF WalkInv
<1>4. HeadInv'
    BY HeadFrame
<1> QED BY <1>1, <1>2, <1>3, <1>4

(* The claim of the store by a new process. *)
LEMMA BootInv ==
    ASSUME OperationsAssumption, IInv, Boot, UNCHANGED co
    PROVE  IInv'
<1> USE DEF IInv, Boot, opVars
<1>1. TypeOK'
    BY DEF TypeOK, Phases
<1>2. ASSUME NEW m \in Nodes PROVE NodeInv(m)'
    BY NodeFrame
<1>3. co.pc = "none"
    BY BlockedQuiet
<1>4. WalkInv'
    BY <1>3 DEF WalkInv
<1>5. HeadInv'
    BY HeadFrame
<1> QED BY <1>1, <1>2, <1>4, <1>5

(* Commands are served once every unfinished attempt is classified. *)
LEMMA BootReadyInv ==
    ASSUME OperationsAssumption, IInv, BootReady, UNCHANGED co
    PROVE  IInv'
<1> USE DEF IInv, BootReady, opVars
<1>1. TypeOK'
    BY DEF TypeOK, Phases
<1>2. ASSUME NEW m \in Nodes PROVE NodeInv(m)'
    BY NodeFrame
<1>3. co.pc = "none"
    BY BlockedQuiet
<1>4. WalkInv'
    BY <1>3 DEF WalkInv, Unfinished
<1>5. HeadInv'
    BY HeadFrame
<1> QED BY <1>1, <1>2, <1>4, <1>5

(* Steps that change the head of an unfinished, unattended run. *)
LEMMA HeadStep ==
    ASSUME OperationsAssumption, IInv, co.pc = "none",
           UNCHANGED <<rec, expired, exec, token, late, world, headVars, co>>,
           run' \in Runs, ~IsTerminal(run'.state),
           run'.cancelRequested = run.cancelRequested,
           run'.cancelRequested => run'.state \in {"Cancelling", "Blocked"},
           run'.state = "Blocked" => run'.error # "unknown"
    PROVE  IInv'
<1> USE DEF IInv, world, headVars
<1>1. TypeOK'
    BY DEF TypeOK
<1>2. ASSUME NEW m \in Nodes PROVE NodeInv(m)'
    BY NodeFrame
<1>3. WalkInv'
    BY DEF WalkInv
<1>4. HeadInv'
    <2>1. CancelIsKept' /\ BlockedIsResolvable'
        BY DEF CancelIsKept, BlockedIsResolvable
    <2>2. InOrder' /\ RetriesAreAffordable'
        BY DEF HeadInv, InOrder, RetriesAreAffordable, Possible
    <2> QED BY <2>1, <2>2, HeadUnfinished
<1> QED BY <1>1, <1>2, <1>3, <1>4

(* The boot that finds the plan of a run blocked for lack of it. *)
LEMMA BootUnblockInv ==
    ASSUME OperationsAssumption, IInv, BootUnblock, UNCHANGED co
    PROVE  IInv'
<1>1. co.pc = "none"
    BY BlockedQuiet DEF BootUnblock
<1>2. /\ run' \in Runs /\ ~IsTerminal(run'.state)
      /\ run'.cancelRequested = run.cancelRequested
      /\ run'.cancelRequested => run'.state = "Cancelling"
      /\ run'.state # "Blocked"
    BY DEF BootUnblock, IInv, TypeOK, Runs, RunStates, RunErrors, IsTerminal
<1> QED BY <1>1, <1>2, HeadStep DEF BootUnblock

(* Blocking a run whose plan cannot be recovered, at boot or at a spawn. *)
LEMMA UnavailableInv ==
    ASSUME OperationsAssumption, IInv, BootUnavailable \/ SpawnUnavailable(FALSE),
           UNCHANGED co
    PROVE  IInv'
<1>1. co.pc = "none"
    BY BlockedQuiet DEF BootUnavailable, SpawnUnavailable
<1>2. /\ run' \in Runs /\ run'.state = "Blocked"
      /\ run'.cancelRequested = run.cancelRequested
      /\ run'.error = "unavailable"
    BY DEF BootUnavailable, SpawnUnavailable, MarkUnavailable, IInv, TypeOK,
           Runs, RunStates, RunErrors
<1>3. ~IsTerminal(run'.state)
    BY <1>2 DEF IsTerminal
<1> QED BY <1>1, <1>2, <1>3, HeadStep DEF BootUnavailable, SpawnUnavailable

(* What a crash left Running is classified like a lost call. *)
LEMMA BootClassifyInv ==
    ASSUME OperationsAssumption, IInv, NEW n \in Nodes,
           BootClassify(n), UNCHANGED co
    PROVE  IInv'
<1> DEFINE error == "transient"
           invalid == FALSE
           certainty == LostCertainty(n)
           cancelled == run.cancelRequested
<1>1. /\ phase = "boot" /\ rec[n].state = "Running" /\ ~IsTerminal(run.state)
      /\ UNCHANGED <<run, expired, exec, token, late, world, headVars, co>>
    BY DEF BootClassify, Unfinished
<1>2. PICK fits \in BOOLEAN :
          rec' = [rec EXCEPT ![n] = Classified(n, error, certainty, invalid,
                                               cancelled, fits)]
    BY <1>1 DEF BootClassify, RecordFailure
<1> DEFINE r == Classified(n, error, certainty, invalid, cancelled, fits)
<1>3. /\ error \in Errors /\ error # "none" /\ certainty \in Certainties
      /\ invalid \in BOOLEAN /\ cancelled \in BOOLEAN
      /\ IsWrite(n) => certainty # "NotApplied"
    BY DEF LostCertainty, Errors, Certainties, IInv, TypeOK, Runs
<1> HIDE DEF error, certainty, invalid, cancelled
<1>4. /\ r \in Records
      /\ r.attempt = rec[n].attempt /\ r.attempts = rec[n].attempts
      /\ r.error = error
      /\ r.state \in {"RetryScheduled", "Unknown", "Failed", "Cancelled"}
      /\ r.state = "RetryScheduled" =>
           /\ rec[n].attempts < MaxAttempts[n]
           /\ IsWrite(n) /\ r.certainty # "NotApplied" => Repetition[n] # "Unsafe"
      /\ r.state \in {"Failed", "Cancelled"} => r.certainty = "NotApplied"
      /\ ~IsWrite(n) => r.certainty = "NotApplied"
      /\ IsWrite(n) => r.certainty # "NotApplied"
    BY <1>3, ClassifiedLemma DEF IInv
<1>5. rec' = [rec EXCEPT ![n] = r]
    BY <1>2
<1> HIDE DEF r
<1>6. rec'[n] = r /\ \A m \in Nodes : m # n => rec'[m] = rec[m]
    BY <1>5 DEF IInv, TypeOK
<1>7. co.pc = "none" /\ \A m \in Nodes : exec[m].pc = "idle"
    BY <1>1, BlockedQuiet, AllIdle
<1> USE DEF IInv, world, headVars
<1>8. TypeOK'
    BY <1>1, <1>4, <1>5 DEF TypeOK
<1>9. ASSUME NEW m \in Nodes PROVE NodeInv(m)'
    <2>1. CASE m # n
        BY <1>1, <1>6, <2>1, NodeFrame
    <2>2. CASE m = n
        <3>1. IdentityInv(n)'
            BY <1>1, <1>4, <1>6 DEF NodeInv, IdentityInv, Possible
        <3>2. EvidenceInv(n)'
            BY <1>1, <1>3, <1>4, <1>6 DEF NodeInv, EvidenceInv, Possible
        <3>3. ExecInv(n)'
            BY <1>1, <1>7 DEF ExecInv
        <3> QED BY <2>2, <3>1, <3>2, <3>3 DEF NodeInv
    <2> QED BY <2>1, <2>2
<1>10. WalkInv'
    BY <1>1, <1>7 DEF WalkInv
<1>11. HeadInv'
    <2>1. CancelIsKept' /\ RetriesAreAffordable'
        BY <1>1, <1>4, <1>6 DEF HeadInv, CancelIsKept, RetriesAreAffordable
    <2>2. BlockedIsResolvable'
        BY <1>1, <1>6 DEF HeadInv, BlockedIsResolvable, HasUnknown
    <2>3. \A m \in 1..n - 1 : rec[m].state = "Succeeded"
        BY <1>1 DEF HeadInv, InOrder
    <2>4. \A m \in Nodes : m < n => rec[m].state = "Succeeded"
        BY <2>3 DEF Nodes, OperationsAssumption
    <2>5. InOrder'
        BY <1>1, <1>6, <2>4, OrderActive DEF HeadInv
    <2> QED BY <1>1, <2>1, <2>2, <2>5, HeadUnfinished
<1> QED BY <1>8, <1>9, <1>10, <1>11

(* Coordinator steps that leave the store alone: the executors stay idle    *)
(* and the place in the sequence is earned.                                 *)
LEMMA WalkStep ==
    ASSUME OperationsAssumption, IInv, TypeOK', WalkInv',
           UNCHANGED <<run, rec, exec, world>>, co.pc # "op"
    PROVE  IInv'
<1> USE DEF IInv, world
<1>1. \A m \in Nodes : exec[m].pc = "idle"
    BY AllIdle
<1>2. ASSUME NEW m \in Nodes PROVE NodeInv(m)'
    <2>1. IdentityInv(m)' /\ EvidenceInv(m)'
        BY DEF NodeInv, IdentityInv, EvidenceInv, Possible
    <2>2. ExecInv(m)'
        BY <1>1 DEF ExecInv
    <2> QED BY <2>1, <2>2 DEF NodeInv
<1>3. HeadInv'
    BY HeadFrame
<1> QED BY <1>2, <1>3

(* The supervisor picking the run up. *)
LEMMA SpawnInv ==
    ASSUME OperationsAssumption, IInv, Spawn(FALSE)
    PROVE  IInv'
<1>1. /\ co.pc = "none" /\ available /\ phase \in {"ready", "stopping"}
      /\ ~IsTerminal(run.state) /\ run.state # "Blocked"
      /\ co'.pc = "begin" /\ co'.node = 1
      /\ co' \in [pc : CoPcs, node : Nodes, error : Errors]
      /\ UNCHANGED <<run, rec, expired, exec, late, world, headVars>>
    BY DEF Spawn, Runnable, CoAt, NoCo, IsTerminal, CoPcs, Errors, Nodes,
           OperationsAssumption
<1>2. token' \in [Nodes -> BOOLEAN]
    BY DEF Spawn
<1>3. TypeOK'
    BY <1>1, <1>2 DEF IInv, TypeOK, world, headVars
<1>4. WalkInv'
    BY <1>1 DEF IInv, WalkInv, headVars
<1> QED BY <1>1, <1>3, <1>4, WalkStep

(* Moving past a confirmed node keeps the walk in order. *)
LEMMA NextNodeLemma ==
    ASSUME OperationsAssumption, NextNode,
           co \in [pc : CoPcs, node : Nodes, error : Errors]
    PROVE  /\ co' \in [pc : CoPcs, node : Nodes, error : Errors]
           /\ \/ co'.pc = "node" /\ co'.node = co.node + 1
              \/ co'.pc = "output" /\ co.node = N
<1>1. co.node \in Nodes /\ co.node \in Nat /\ N \in Nat
    BY DEF Nodes, OperationsAssumption
<1>2. CASE co.node < N
    <2>1. co.node + 1 \in Nodes
        BY <1>1, <1>2 DEF Nodes
    <2>2. co' = [co EXCEPT !.pc = "node", !.node = co.node + 1]
        BY <1>2 DEF NextNode
    <2> QED BY <2>1, <2>2 DEF CoPcs
<1>3. CASE ~(co.node < N)
    <2>1. co.node = N
        BY <1>1, <1>3 DEF Nodes
    <2>2. co' = [co EXCEPT !.pc = "output"]
        BY <1>3 DEF NextNode
    <2> QED BY <2>1, <2>2 DEF CoPcs
<1> QED BY <1>2, <1>3

(* The walk over a node that is already confirmed. *)
LEMMA NodeConfirmedInv ==
    ASSUME OperationsAssumption, IInv, NodeConfirmed
    PROVE  IInv'
<1>1. /\ co.pc = "node" /\ rec[co.node].state = "Succeeded" /\ NextNode
      /\ UNCHANGED <<run, rec, expired, exec, token, late, world, headVars>>
    BY DEF NodeConfirmed, CoAt, opVars, world
<1>2. co \in [pc : CoPcs, node : Nodes, error : Errors]
    BY DEF IInv, TypeOK
<1>3. /\ co' \in [pc : CoPcs, node : Nodes, error : Errors]
      /\ \/ co'.pc = "node" /\ co'.node = co.node + 1
         \/ co'.pc = "output" /\ co.node = N
    BY <1>1, <1>2, NextNodeLemma
<1>4. TypeOK'
    BY <1>1, <1>3 DEF IInv, TypeOK, world, headVars
<1>5. \A m \in Nodes : m < co.node => rec[m].state = "Succeeded"
    BY <1>1 DEF IInv, WalkInv
<1>6. WalkInv'
    <2>1. CASE co'.pc = "node" /\ co'.node = co.node + 1
        <3>1. \A m \in Nodes : m < co'.node => m < co.node \/ m = co.node
            BY <1>2, <2>1 DEF Nodes
        <3> QED BY <1>1, <1>5, <2>1, <3>1 DEF IInv, WalkInv, headVars
    <2>2. CASE co'.pc = "output" /\ co.node = N
        <3>1. \A m \in Nodes : m < co.node \/ m = co.node
            BY <2>2 DEF Nodes, OperationsAssumption
        <3> QED BY <1>1, <1>5, <2>2, <3>1 DEF IInv, WalkInv, headVars
    <2> QED BY <1>3, <2>1, <2>2
<1> QED BY <1>1, <1>4, <1>6, WalkStep

(* The walk stopped by a settled record, a cancellation or the deadline. *)
LEMMA NodeRefusedInv ==
    ASSUME OperationsAssumption, IInv, NodeRefused
    PROVE  IInv'
<1>1. /\ co.pc = "node"
      /\ UNCHANGED <<run, rec, expired, exec, token, late, world, headVars>>
    BY DEF NodeRefused, CoAt, opVars, world
<1>2. /\ co \in [pc : CoPcs, node : Nodes, error : Errors]
      /\ rec[co.node] \in Records
    BY DEF IInv, TypeOK
<1>3. co' \in [pc : CoPcs, node : Nodes, error : Errors] /\ co'.pc = "error"
    <2>1. PICK error \in Errors : Raise(error)
        <3> DEFINE r == rec[co.node]
                   stopped == r.state \in {"Unknown", "Failed", "Cancelled"}
                   error == IF r.state = "Unknown" THEN "unknown"
                            ELSE IF stopped THEN r.error
                            ELSE IF CancelSeen(co.node) THEN "cancelled" ELSE "other"
        <3>1. Raise(error)
            BY DEF NodeRefused
        <3>2. error \in Errors
            BY <1>2 DEF Records, Errors
        <3> HIDE DEF error
        <3> QED BY <3>1, <3>2
    <2> QED BY <1>2, <2>1 DEF Raise, CoPcs
<1>4. TypeOK'
    BY <1>1, <1>3 DEF IInv, TypeOK, world, headVars
<1>5. WalkInv'
    BY <1>1, <1>3 DEF IInv, WalkInv, headVars
<1> QED BY <1>1, <1>4, <1>5, WalkStep

(* The look at the head between the body and the final commit. *)
LEMMA CheckOutputInv ==
    ASSUME OperationsAssumption, IInv, CheckOutput
    PROVE  IInv'
<1>1. /\ co.pc = "output"
      /\ UNCHANGED <<run, rec, expired, exec, token, late, world, headVars>>
    BY DEF CheckOutput, CoAt, opVars, world
<1>2. co \in [pc : CoPcs, node : Nodes, error : Errors]
    BY DEF IInv, TypeOK
<1>3. /\ co' \in [pc : CoPcs, node : Nodes, error : Errors]
      /\ co'.pc \in {"error", "commit"}
    BY <1>2 DEF CheckOutput, Raise, CoPcs, Errors
<1>4. TypeOK'
    BY <1>1, <1>3 DEF IInv, TypeOK, world, headVars
<1>5. WalkInv'
    BY <1>1, <1>3 DEF IInv, WalkInv, headVars
<1> QED BY <1>1, <1>4, <1>5, WalkStep

(* The first transition of the coordinator task. *)
LEMMA BeginInv ==
    ASSUME OperationsAssumption, IInv, Begin("node")
    PROVE  IInv'
<1>1. /\ co.pc = "begin"
      /\ UNCHANGED <<rec, expired, exec, token, late, world, headVars>>
    BY DEF Begin, CoAt
<1>2. co \in [pc : CoPcs, node : Nodes, error : Errors] /\ run \in Runs
    BY DEF IInv, TypeOK
<1>3. /\ co' \in [pc : CoPcs, node : Nodes, error : Errors]
      /\ co'.pc = "node" /\ co'.node = co.node
    BY <1>2 DEF Begin, CoPcs
<1> USE DEF IInv, world, headVars
<1>4. available /\ phase \in {"ready", "stopping"}
      /\ ~IsTerminal(run.state) /\ run.state # "Blocked"
    BY <1>1 DEF WalkInv
<1>5. /\ run' \in Runs /\ ~IsTerminal(run'.state) /\ run'.state # "Blocked"
      /\ run'.cancelRequested => run' = run
    BY <1>2, <1>4 DEF Begin, Runs, RunStates, IsTerminal
<1>6. TypeOK'
    BY <1>1, <1>3, <1>5 DEF TypeOK
<1>7. \A m \in Nodes : exec[m].pc = "idle"
    BY <1>1, AllIdle
<1>8. ASSUME NEW m \in Nodes PROVE NodeInv(m)'
    <2>1. IdentityInv(m)' /\ EvidenceInv(m)'
        BY <1>1 DEF NodeInv, IdentityInv, EvidenceInv, Possible
    <2>2. ExecInv(m)'
        BY <1>1, <1>7 DEF ExecInv
    <2> QED BY <2>1, <2>2 DEF NodeInv
<1>9. \A m \in Nodes : ~(m < co'.node)
    BY <1>1, <1>3 DEF WalkInv, Nodes
<1>10. WalkInv'
    BY <1>1, <1>3, <1>4, <1>5, <1>9 DEF WalkInv
<1>11. HeadInv'
    <2>1. CancelIsKept' /\ BlockedIsResolvable'
        BY <1>4, <1>5 DEF HeadInv, CancelIsKept, BlockedIsResolvable
    <2>2. InOrder' /\ RetriesAreAffordable'
        BY <1>1 DEF HeadInv, InOrder, RetriesAreAffordable, Possible
    <2> QED BY <1>5, <2>1, <2>2, HeadUnfinished
<1> QED BY <1>6, <1>8, <1>10, <1>11

(* Handing a node to its executor. *)
LEMMA NodeExecuteInv ==
    ASSUME OperationsAssumption, IInv, NodeExecute
    PROVE  IInv'
<1> DEFINE k == co.node
           e == [Idle EXCEPT !.pc = "view"]
<1>1. /\ co.pc = "node" /\ k \in Nodes
      /\ co \in [pc : CoPcs, node : Nodes, error : Errors]
      /\ exec' = [exec EXCEPT ![k] = e]
      /\ UNCHANGED <<run, rec, expired, token, late, world, headVars>>
    BY DEF NodeExecute, CoAt, IInv, TypeOK
<1>2. /\ co' \in [pc : CoPcs, node : Nodes, error : Errors]
      /\ co'.pc = "op" /\ co'.node = k
    BY <1>1 DEF NodeExecute, CoPcs
<1>3. e \in Execs /\ e.pc = "view"
    BY IdleSteps DEF Pcs, Errors
<1> HIDE DEF k, e
<1> USE DEF IInv, world, headVars
<1>4. exec'[k] = e /\ \A m \in Nodes : m # k => exec'[m] = exec[m]
    BY <1>1 DEF TypeOK
<1>5. \A m \in Nodes : exec[m].pc = "idle"
    BY <1>1, AllIdle
<1>6. TypeOK'
    BY <1>1, <1>2, <1>3 DEF TypeOK
<1>7. ASSUME NEW m \in Nodes PROVE NodeInv(m)'
    <2>1. IdentityInv(m)' /\ EvidenceInv(m)'
        BY <1>1 DEF NodeInv, IdentityInv, EvidenceInv, Possible
    <2>2. ExecInv(m)'
        BY <1>1, <1>2, <1>3, <1>4, <1>5 DEF ExecInv
    <2> QED BY <2>1, <2>2 DEF NodeInv
<1>8. WalkInv'
    BY <1>1, <1>2, <1>5 DEF WalkInv, k
<1>9. HeadInv'
    BY <1>1, HeadFrame
<1> QED BY <1>6, <1>7, <1>8, <1>9

(* Taking the executor's result. *)
LEMMA NodeDoneInv ==
    ASSUME OperationsAssumption, IInv, NodeDone
    PROVE  IInv'
<1> DEFINE k == co.node
<1>1. /\ co.pc = "op" /\ k \in Nodes /\ exec[k].pc = "done"
      /\ co \in [pc : CoPcs, node : Nodes, error : Errors]
      /\ exec' = [exec EXCEPT ![k] = Idle]
      /\ UNCHANGED <<run, rec, expired, token, late, world, headVars>>
      /\ exec[k].result \in Errors
    BY DEF NodeDone, CoAt, IInv, TypeOK, Execs
<1>2. /\ co' \in [pc : CoPcs, node : Nodes, error : Errors]
      /\ \/ /\ rec[k].state = "Succeeded"
            /\ \/ co'.pc = "node" /\ co'.node = k + 1
               \/ co'.pc = "output" /\ k = N
         \/ co'.pc = "error"
    <2>1. CASE exec[k].result = "none"
        <3>1. NextNode
            BY <2>1 DEF NodeDone
        <3>2. rec[k].state = "Succeeded"
            BY <1>1, <2>1 DEF IInv, NodeInv, ExecInv
        <3> QED BY <1>1, <3>1, <3>2, NextNodeLemma
    <2>2. CASE exec[k].result # "none"
        <3>1. Raise(exec[k].result)
            BY <2>2 DEF NodeDone
        <3> QED BY <1>1, <3>1 DEF Raise, CoPcs
    <2> QED BY <2>1, <2>2
<1>3. Idle \in Execs /\ Idle.pc = "idle"
    BY IdleSteps DEF Pcs, Errors, Idle
<1>4. \A m \in Nodes : m < k => rec[m].state = "Succeeded"
    BY <1>1 DEF IInv, WalkInv
<1>5. \A m \in Nodes : exec'[m].pc = "idle"
    BY <1>1, <1>3 DEF IInv, TypeOK, NodeInv, ExecInv
<1>6. ASSUME NEW m \in Nodes, rec[m].state = "Running"
      PROVE  FALSE
    <2>1. exec[m].pc \in {"dispatch", "call", "outcome"}
        BY <1>1, <1>6 DEF IInv, WalkInv
    <2> QED BY <1>1, <2>1 DEF IInv, NodeInv, ExecInv
<1> HIDE DEF k
<1> USE DEF IInv, world, headVars
<1>7. TypeOK'
    BY <1>1, <1>2, <1>3 DEF TypeOK
<1>8. ASSUME NEW m \in Nodes PROVE NodeInv(m)'
    <2>1. IdentityInv(m)' /\ EvidenceInv(m)'
        BY <1>1 DEF NodeInv, IdentityInv, EvidenceInv, Possible
    <2>2. ExecInv(m)'
        BY <1>5 DEF ExecInv
    <2> QED BY <2>1, <2>2 DEF NodeInv
<1>9. WalkInv'
    <2>1. ASSUME co'.pc = "node", co'.node = k + 1, rec[k].state = "Succeeded",
                 NEW m \in Nodes, m < co'.node
          PROVE  rec'[m].state = "Succeeded"
        <3>1. m < k \/ m = k
            BY <1>1, <2>1 DEF Nodes
        <3> QED BY <1>1, <1>4, <2>1, <3>1
    <2>2. ASSUME co'.pc = "output", k = N, rec[k].state = "Succeeded",
                 NEW m \in Nodes
          PROVE  rec'[m].state = "Succeeded"
        <3>1. m < k \/ m = k
            BY <2>2 DEF Nodes, OperationsAssumption
        <3> QED BY <1>1, <1>4, <2>2, <3>1
    <2> QED BY <1>1, <1>2, <1>6, <2>1, <2>2 DEF WalkInv
<1>10. HeadInv'
    BY <1>1, HeadFrame
<1> QED BY <1>7, <1>8, <1>9, <1>10

(* The run succeeds only here, over nodes that are all confirmed. *)
LEMMA FinalCommitInv ==
    ASSUME OperationsAssumption, IInv, FinalCommit
    PROVE  IInv'
<1>1. /\ co.pc = "commit" /\ co' = NoCo
      /\ UNCHANGED <<rec, expired, exec, token, late, world, headVars>>
    BY DEF FinalCommit, CoAt
<1>2. /\ NoCo \in [pc : CoPcs, node : Nodes, error : Errors] /\ NoCo.pc = "none"
    BY DEF NoCo, CoPcs, Errors, Nodes, OperationsAssumption
<1>3. /\ ~IsTerminal(run.state)
      /\ \A m \in Nodes : rec[m].state = "Succeeded"
      /\ \A m \in Nodes : exec[m].pc = "idle"
    BY <1>1, AllIdle DEF IInv, WalkInv
<1>4. /\ run' \in Runs /\ run'.cancelRequested = run.cancelRequested
      /\ run'.state \in {"Cancelled", "Failed", "Succeeded"}
      /\ run'.cancelRequested => run'.state = "Cancelled"
    <2>1. /\ run \in Runs
          /\ run.cancelRequested => CancelSeen(co.node)
        BY DEF IInv, TypeOK, CancelSeen
    <2>2. /\ \E state \in {"Cancelled", "Failed", "Succeeded"}, error \in {"none", "other"} :
                /\ run' = [run EXCEPT !.state = state, !.error = error]
                /\ CancelSeen(co.node) => state = "Cancelled"
        BY <1>3 DEF FinalCommit
    <2> QED BY <2>1, <2>2 DEF Runs, RunStates, RunErrors
<1> USE DEF IInv, world, headVars
<1>5. TypeOK'
    BY <1>1, <1>2, <1>4 DEF TypeOK
<1>6. ASSUME NEW m \in Nodes PROVE NodeInv(m)'
    <2>1. IdentityInv(m)' /\ EvidenceInv(m)'
        BY <1>1 DEF NodeInv, IdentityInv, EvidenceInv, Possible
    <2>2. ExecInv(m)'
        BY <1>1, <1>3 DEF ExecInv
    <2> QED BY <2>1, <2>2 DEF NodeInv
<1>7. WalkInv'
    BY <1>1, <1>2, <1>3 DEF WalkInv
<1>8. HeadInv'
    <2>1. NoHiddenEffect' /\ CancelIsKept' /\ BlockedIsResolvable'
        BY <1>1, <1>3, <1>4 DEF NoHiddenEffect, CancelIsKept, BlockedIsResolvable
    <2>2. SuccessIsEarned'
        BY <1>1, <1>3 DEF SuccessIsEarned, NodeInv, EvidenceInv
    <2>3. InOrder' /\ RetriesAreAffordable'
        BY <1>1 DEF HeadInv, InOrder, RetriesAreAffordable, Possible
    <2> QED BY <2>1, <2>2, <2>3 DEF HeadInv
<1> QED BY <1>5, <1>6, <1>7, <1>8

(* A failed body ends the run only over records without a possible effect. *)
LEMMA FinishErrorInv ==
    ASSUME OperationsAssumption, IInv, FinishError
    PROVE  IInv'
<1>1. /\ co.pc = "error" /\ co' = NoCo
      /\ UNCHANGED <<expired, exec, token, late, world, headVars>>
    BY DEF FinishError, CoAt
<1>2. /\ NoCo \in [pc : CoPcs, node : Nodes, error : Errors] /\ NoCo.pc = "none"
    BY DEF NoCo, CoPcs, Errors, Nodes, OperationsAssumption
<1>3. /\ ~IsTerminal(run.state)
      /\ \A m \in Nodes : exec[m].pc = "idle" /\ rec[m].state # "Running"
    BY <1>1, AllIdle DEF IInv, WalkInv
<1>4. rec' = [m \in Nodes |-> Suspected(rec[m])]
    BY <1>3 DEF FinishError
<1>5. ASSUME NEW m \in Nodes
      PROVE  /\ rec'[m] \in Records
             /\ rec'[m].attempt = rec[m].attempt /\ rec'[m].attempts = rec[m].attempts
             /\ rec'[m].certainty = rec[m].certainty /\ rec'[m].error = rec[m].error
             /\ \/ rec'[m].state = rec[m].state
                   /\ (rec[m].state = "Succeeded" \/ rec[m].certainty = "NotApplied")
                \/ rec'[m].state = "Unknown" /\ rec[m].certainty # "NotApplied"
                   /\ rec[m].state # "Succeeded"
    <2>1. rec[m] \in Records
        BY DEF IInv, TypeOK
    <2>2. rec'[m] = Suspected(rec[m])
        BY <1>4
    <2> QED BY <2>1, <2>2 DEF Suspected, Records, RecordStates
<1>6. /\ run' \in Runs /\ run'.cancelRequested = run.cancelRequested
      /\ run'.unresolved = run.unresolved
      /\ run'.state = "Blocked" => \E m \in Nodes : rec'[m].state = "Unknown"
      /\ run'.state # "Blocked" => /\ run'.state \in {"Cancelled", "Failed"}
                                   /\ \A m \in Nodes : rec'[m].state # "Unknown"
      /\ run'.state \in {"Blocked", "Cancelled", "Failed"}
    <2>1. run \in Runs
        BY DEF IInv, TypeOK
    <2>2. CASE \E m \in Nodes : rec'[m].state = "Unknown"
        <3>1. run' = [run EXCEPT !.state = "Blocked", !.error = "unknown"]
            BY <1>3, <2>2 DEF FinishError
        <3> QED BY <2>1, <2>2, <3>1 DEF Runs, RunStates, RunErrors
    <2>3. CASE ~ \E m \in Nodes : rec'[m].state = "Unknown"
        <3>1. \E state \in {"Cancelled", "Failed"} :
                  run' = [run EXCEPT !.state = state, !.error = "other"]
            BY <1>3, <2>3 DEF FinishError
        <3> QED BY <2>1, <2>3, <3>1 DEF Runs, RunStates, RunErrors
    <2> QED BY <2>2, <2>3
<1> USE DEF IInv, world, headVars
<1>7. TypeOK'
    BY <1>1, <1>2, <1>4, <1>5, <1>6 DEF TypeOK
<1>8. ASSUME NEW m \in Nodes PROVE NodeInv(m)'
    <2>1. IdentityInv(m)'
        BY <1>1, <1>3, <1>5 DEF NodeInv, IdentityInv, Possible
    <2>2. EvidenceInv(m)'
        BY <1>1, <1>3, <1>5 DEF NodeInv, EvidenceInv, Possible
    <2>3. ExecInv(m)'
        BY <1>1, <1>3 DEF ExecInv
    <2> QED BY <2>1, <2>2, <2>3 DEF NodeInv
<1>9. WalkInv'
    BY <1>1, <1>2, <1>3, <1>5 DEF WalkInv
<1>10. HeadInv'
    <2>1. ASSUME run'.state # "Blocked", NEW m \in Nodes, Possible(m)' # {}
          PROVE  rec'[m].state = "Succeeded"
        <3>1. rec[m].state = "Succeeded" \/ rec[m].certainty = "NotApplied"
            BY <1>5, <1>6, <2>1
        <3>2. Possible(m) # {}
            BY <1>1, <2>1 DEF Possible
        <3> QED BY <1>3, <1>5, <3>1, <3>2 DEF NodeInv, EvidenceInv
    <2>2. NoHiddenEffect'
        BY <1>6, <2>1 DEF NoHiddenEffect, IsTerminal
    <2>3. SuccessIsEarned' /\ CancelIsKept' /\ BlockedIsResolvable'
        BY <1>6 DEF SuccessIsEarned, CancelIsKept, BlockedIsResolvable, HasUnknown
    <2>4. RetriesAreAffordable'
        BY <1>5 DEF HeadInv, RetriesAreAffordable
    <2>5. InOrder'
        <3>1. \A m \in Nodes : /\ rec[m].state = "Succeeded" => rec'[m].state = "Succeeded"
                               /\ rec'[m].state # "Absent" => rec[m].state # "Absent"
            BY <1>5 DEF NodeInv, EvidenceInv
        <3>2. \A m \in Nodes : Possible(m)' = Possible(m)
            BY <1>1 DEF Possible
        <3>3. \A m \in Nodes : \A i \in 1..m - 1 : i \in Nodes
            BY DEF Nodes, OperationsAssumption
        <3> QED BY <3>1, <3>2, <3>3 DEF HeadInv, InOrder
    <2> QED BY <2>2, <2>3, <2>4, <2>5 DEF HeadInv
<1> QED BY <1>7, <1>8, <1>9, <1>10

-----------------------------------------------------------------------------
(* The theorems. *)

(* Nothing is recorded, in flight or attended at the start. *)
LEMMA InitInv == ASSUME OperationsAssumption, Init PROVE IInv
<1> USE DEF Init, OperationsInit, HeadInit
<1>1. NoRecord \in Records /\ Idle \in Execs
    <2>1. "idle" \in Pcs /\ "none" \in Errors
        BY DEF Pcs, Errors
    <2>2. Idle \in Execs
        BY <2>1, IdleSteps
    <2> QED BY <2>2 DEF NoRecord, Records, RecordStates, Certainties, Errors
<1>2. TypeOK
    <2>1. run \in Runs
        BY DEF Runs, RunStates, RunErrors
    <2>2. co \in [pc : CoPcs, node : Nodes, error : Errors]
        BY DEF NoCo, CoPcs, Errors, Nodes, OperationsAssumption
    <2>3. rec \in [Nodes -> Records] /\ exec \in [Nodes -> Execs]
        BY <1>1
    <2> QED BY <2>1, <2>2, <2>3 DEF TypeOK, Phases
<1>3. ASSUME NEW n \in Nodes PROVE NodeInv(n)
    BY DEF NodeInv, IdentityInv, EvidenceInv, ExecInv, Possible, NoRecord, Idle, NoCo
<1>4. WalkInv
    BY DEF WalkInv, NoCo, NoRecord, IsTerminal
<1>5. HeadInv
    BY DEF HeadInv, NoHiddenEffect, SuccessIsEarned, CancelIsKept, InOrder,
           BlockedIsResolvable, RetriesAreAffordable, Possible, IsTerminal, NoRecord,
           OperationsAssumption
<1> QED BY <1>2, <1>3, <1>4, <1>5 DEF IInv

(* Every step of an executor. *)
LEMMA ExecutorStepInv ==
    ASSUME OperationsAssumption, IInv, NEW n \in Nodes,
           ExecutorStep(n), UNCHANGED <<headVars, co>>
    PROVE  IInv'
BY ViewSettledInv, ViewRetryAbandonedInv, ViewRefusedInv, ViewReadyInv,
   PermitRefusedInv, IntentInv, IntentRefusedInv, DispatchInv, CallReturnsInv,
   CallAbandonedInv, ConfirmInv, FailInv
DEF ExecutorStep

(* Every step of the coordinator. *)
LEMMA CoordinatorStepInv ==
    ASSUME OperationsAssumption, IInv, CoordinatorStep
    PROVE  IInv'
BY BeginInv, NodeConfirmedInv, NodeRefusedInv, NodeExecuteInv, NodeDoneInv,
   CheckOutputInv, FinalCommitInv, FinishErrorInv
DEF CoordinatorStep

(* A step that changes nothing. *)
LEMMA StutterInv == ASSUME IInv, UNCHANGED vars PROVE IInv'
<1> USE DEF IInv, vars, opVars, headVars
<1>1. ASSUME NEW m \in Nodes PROVE NodeInv(m)'
    BY NodeFrame
<1>2. WalkInv' /\ TypeOK'
    BY DEF WalkInv, TypeOK
<1>3. HeadInv'
    BY HeadFrame
<1> QED BY <1>1, <1>2, <1>3

(* Every step of the composed specification preserves the invariant. *)
LEMMA NextInv == ASSUME OperationsAssumption, IInv, [Next]_vars PROVE IInv'
<1>1. CASE Spawn(FALSE)
    BY <1>1, SpawnInv
<1>2. CASE SpawnUnavailable(FALSE)
    BY <1>2, UnavailableInv DEF SpawnUnavailable
<1>3. CASE CoordinatorStep
    BY <1>3, CoordinatorStepInv
<1>4. CASE (\E n \in Nodes : ExecutorStep(n)) /\ UNCHANGED <<headVars, co>>
    BY <1>4, ExecutorStepInv
<1>5. CASE (\E call \in late : LateEnds(call)) /\ UNCHANGED <<headVars, co>>
    BY <1>5, LateEndsInv
<1>6. CASE WorldStep /\ UNCHANGED <<headVars, co>>
    BY <1>6, WorldStepInv, DeadlinePassesInv DEF WorldStep
<1>7. CASE (CommandStep \/ CancelToken \/ ForceShutdown) /\ UNCHANGED co
    BY <1>7, CancelInv, ConfirmAppliedInv, ConfirmNotAppliedInv, StopTrackingInv,
       CancelTokenInv, ForceShutdownInv DEF CommandStep
<1>8. CASE Crash /\ co' = NoCo
    BY <1>8, CrashInv
<1>9. CASE (Boot \/ BootStep) /\ UNCHANGED co
    BY <1>9, BootInv, BootUnblockInv, BootClassifyInv, UnavailableInv, BootReadyInv
    DEF BootStep
<1>10. CASE UNCHANGED vars
    BY <1>10, StutterInv
<1> QED BY <1>1, <1>2, <1>3, <1>4, <1>5, <1>6, <1>7, <1>8, <1>9, <1>10 DEF Next

(* The invariant holds in every reachable state. *)
THEOREM Invariance == Spec => []IInv
<1>1. Init => IInv
    BY OperationsAssumption, InitInv
<1>2. IInv /\ [Next]_vars => IInv'
    BY OperationsAssumption, NextInv
<1> QED BY <1>1, <1>2, PTL DEF Spec

(* Every variable keeps its type: every record the failure classification   *)
(* and the reconciliation write is one the other handlers accept.           *)
THEOREM TypeCorrect == Spec => []TypeOK
<1>1. IInv => TypeOK
    BY DEF IInv
<1> QED BY <1>1, Invariance, PTL

(* An Unsafe write has at most one effect, whatever crashes, times out, is  *)
(* retried or is reconciled.                                                *)
THEOREM UnsafeIsAtMostOnce == Spec => []UnsafeAtMostOnce
<1>1. IInv => UnsafeAtMostOnce
    BY DEF IInv, NodeInv, EvidenceInv, UnsafeAtMostOnce
<1> QED BY <1>1, Invariance, PTL

(* A record that says NotApplied outside a running attempt is right about   *)
(* the world, for any number of nodes, attempts and crashes.                *)
THEOREM NotAppliedIsTruth == Spec => []NotAppliedIsTrue
<1>1. IInv => NotAppliedIsTrue
    BY DEF IInv, NodeInv, EvidenceInv, NotAppliedIsTrue
<1> QED BY <1>1, Invariance, PTL

(* Every terminal run accounts for every effect of its nodes.               *)
THEOREM EffectsAreAccountedFor == Spec => []NoHiddenEffect
<1>1. IInv => NoHiddenEffect
    BY DEF IInv, HeadInv
<1> QED BY <1>1, Invariance, PTL

(* The head of the run agrees with its records: success is earned, the      *)
(* body is walked in order, a cancellation is never taken back, a block can *)
(* be lifted, a promised retry is within its budget.                        *)
THEOREM HeadAlwaysAgrees == Spec => []HeadAgrees
<1>1. IInv => HeadAgrees
    BY DEF IInv, HeadInv, HeadAgrees
<1> QED BY <1>1, Invariance, PTL

(* A Running record has an owner: a live executor of the same attempt, or   *)
(* none only while the plan cannot be recovered.                            *)
THEOREM RunningHasAnOwner == Spec => []RunningIsOwned
<1>1. IInv => RunningIsOwned
    BY DEF IInv, WalkInv, NodeInv, ExecInv, RunningIsOwned
<1> QED BY <1>1, Invariance, PTL

(* Only an executor, a reconciliation, a boot or a finish_error writes the  *)
(* records and only an unfinished run is changed; none of them finds a      *)
(* confirmed record it would overwrite.                                     *)
LEMMA FinalStep ==
    ASSUME OperationsAssumption, IInv, [Next]_vars
    PROVE  /\ IsTerminal(run.state) => run' = run /\ rec' = rec
           /\ \A n \in Nodes : rec[n].state = "Succeeded" => rec'[n] = rec[n]
<1> DEFINE Final == /\ IsTerminal(run.state) => run' = run /\ rec' = rec
                    /\ \A n \in Nodes : rec[n].state = "Succeeded" => rec'[n] = rec[n]
<1>1. CASE Spawn(FALSE) \/ SpawnUnavailable(FALSE)
    BY <1>1 DEF Spawn, SpawnUnavailable, Runnable, IsTerminal
<1>2. CASE CoordinatorStep
    <2>1. CASE Begin("node") \/ FinalCommit
        BY <2>1 DEF Begin, FinalCommit
    <2>2. CASE NodeConfirmed \/ NodeRefused \/ NodeExecute \/ NodeDone \/ CheckOutput
        BY <2>2 DEF NodeConfirmed, NodeRefused, NodeExecute, NodeDone, CheckOutput,
                    opVars
    <2>3. CASE FinishError
        BY <2>3 DEF FinishError, Suspected
    <2> QED BY <1>2, <2>1, <2>2, <2>3 DEF CoordinatorStep
<1>3. CASE \E n \in Nodes : ExecutorStep(n)
    <2>1. PICK n \in Nodes : ExecutorStep(n)
        BY <1>3
    <2>2. CASE ViewSettled(n) \/ ViewRefused(n) \/ ViewReady(n) \/ PermitRefused(n)
               \/ IntentRefused(n) \/ Dispatch(n) \/ CallReturns(n) \/ CallAbandoned(n)
        BY <2>2 DEF ViewSettled, ViewRefused, ViewReady, PermitRefused, IntentRefused,
                    Dispatch, CallReturns, CallAbandoned
    <2>3. CASE Intent(n)
        <3>1. rec[n].state # "Succeeded"
            BY <2>3 DEF IInv, NodeInv, ExecInv, Intent, At
        <3> QED BY <2>3, <3>1 DEF Intent, IInv, TypeOK
    <2>4. CASE ViewRetryAbandoned(n) \/ Fail(n)
        BY <2>4 DEF ViewRetryAbandoned, Fail, RecordFailure, IInv, TypeOK
    <2>5. CASE Confirm(n)
        BY <2>5 DEF Confirm, IInv, TypeOK
    <2> QED BY <2>1, <2>2, <2>3, <2>4, <2>5 DEF ExecutorStep
<1>4. CASE (\E call \in late : LateEnds(call)) \/ WorldStep
    BY <1>4 DEF LateEnds, WorldStep, EffectHappens, EffectLost, DeadlinePasses
<1>5. CASE CommandStep \/ CancelToken \/ ForceShutdown
    <2>1. CASE Cancel \/ CancelToken \/ ForceShutdown
        BY <2>1 DEF Cancel, CancelToken, ForceShutdown, Unfinished
    <2>2. ASSUME NEW n \in Nodes,
                 ConfirmApplied(n) \/ ConfirmNotApplied(n) \/ StopTracking(n)
          PROVE  Final
        BY <2>2 DEF ConfirmApplied, ConfirmNotApplied, StopTracking, Resolvable,
                    Resolve, IsTerminal, IInv, TypeOK
    <2> QED BY <1>5, <2>1, <2>2 DEF CommandStep
<1>6. CASE Crash \/ Boot \/ BootReady \/ UNCHANGED vars
    BY <1>6 DEF Crash, Boot, BootReady, vars, opVars
<1>7. CASE BootUnblock \/ BootUnavailable
    BY <1>7 DEF BootUnblock, BootUnavailable, Unfinished, IsTerminal
<1>8. CASE \E n \in Nodes : BootClassify(n)
    BY <1>8 DEF BootClassify, RecordFailure, Unfinished, IInv, TypeOK
<1> QED BY <1>1, <1>2, <1>3, <1>4, <1>5, <1>6, <1>7, <1>8 DEF Next, BootStep

(* Terminal runs and confirmed records are final, whatever late answer,     *)
(* boot or reconciliation follows.                                          *)
THEOREM FinalIsFinal == Spec => ResultsAreFinal
<1>1. IInv /\ [Next]_vars =>
        [/\ IsTerminal(run.state) => run' = run /\ rec' = rec
         /\ \A n \in Nodes : rec[n].state = "Succeeded" => rec'[n] = rec[n]]_vars
    BY OperationsAssumption, FinalStep
<1> QED BY <1>1, Invariance, PTL DEF Spec, ResultsAreFinal

(* Only Intent hands out an attempt, and it looks again at the head.        *)
LEMMA IssueStep ==
    ASSUME [Next]_vars, run.cancelRequested \/ expired
    PROVE  issued' = issued
<1>1. CASE Spawn(FALSE) \/ SpawnUnavailable(FALSE) \/ CoordinatorStep
    BY <1>1 DEF Spawn, SpawnUnavailable, CoordinatorStep, Begin, NodeConfirmed,
                NodeRefused, NodeExecute, NodeDone, CheckOutput, FinalCommit,
                FinishError, opVars, world
<1>2. CASE \E n \in Nodes : ExecutorStep(n)
    BY <1>2 DEF ExecutorStep, ViewSettled, ViewRetryAbandoned, ViewRefused, ViewReady,
                PermitRefused, Intent, IntentRefused, Dispatch, CallReturns,
                CallAbandoned, Confirm, Fail, CancelSeen, world
<1>3. CASE (\E call \in late : LateEnds(call)) \/ WorldStep
    BY <1>3 DEF LateEnds, WorldStep, EffectHappens, EffectLost, DeadlinePasses, world
<1>4. CASE CommandStep \/ CancelToken \/ ForceShutdown
    BY <1>4 DEF CommandStep, Cancel, ConfirmApplied, ConfirmNotApplied, StopTracking,
                Resolve, CancelToken, ForceShutdown, world
<1>5. CASE Crash \/ Boot \/ BootStep \/ UNCHANGED vars
    BY <1>5 DEF Crash, Boot, BootStep, BootUnblock, BootClassify, BootUnavailable,
                BootReady, vars, opVars, world
<1> QED BY <1>1, <1>2, <1>3, <1>4, <1>5 DEF Next

(* Once the cancellation is durable or the deadline has passed, no attempt  *)
(* is authorized any more.                                                  *)
THEOREM NothingNewIsIssued == Spec => NothingNewAfterStop
<1>1. [Next]_vars => [run.cancelRequested \/ expired => issued' = issued]_vars
    BY IssueStep
<1> QED BY <1>1, PTL DEF Spec, NothingNewAfterStop

(***************************************************************************)
(* Waits                                                                   *)
(***************************************************************************)

WaitsTypeInv == WaitsTypeOK /\ issued \in [Nodes -> Nat]

(* The coordinator runs in a live process, over a run that is at work. *)
CoInv ==
    /\ co.pc # "none" =>
          /\ phase \in {"ready", "stopping"}
          /\ ~IsTerminal(run.state) /\ run.state # "Blocked"
    /\ co.pc \notin {"none", "begin"} => run.state # "Waiting"
    /\ CancelIsKept

(* What the executor of a node may rely on, and what it may report. *)
WaitsNodeInv(n) ==
    /\ exec[n].pc # "idle" => co.pc = IF n = Start THEN "starting" ELSE "handling"
    /\ exec[n].pc = "permit" => rec[n].state \in {"Absent", "Pending", "RetryScheduled"}
    /\ exec[n].pc = "outcome" /\ exec[n].out.kind = "failed" => exec[n].out.error # "none"
    /\ exec[n].pc = "done" /\ exec[n].result = "none" => rec[n].state = "Succeeded"
    /\ rec[n].state \in {"RetryScheduled", "Failed", "Cancelled"} => rec[n].error # "none"

(* The reservation, its activation, its start and the run. *)
WaitInv ==
    /\ act.state = "Succeeded" <=> wait.state = "Consumed"
    /\ act.state = "Absent" <=> wait.state = "None"
    /\ act.state \in {"Failed", "Cancelled"} => wait.state # "Open"
    /\ wait.state = "None" => ~wait.delivered /\ ~wait.confirmed
    /\ wait.kind # "started" /\ wait.state # "None" => wait.confirmed
    /\ wait.kind = "started" /\ wait.confirmed => rec[Start].state = "Succeeded"
    /\ wait.kind = "timer" => wait.state # "Expired" /\ ~wait.delivered
    /\ wait.delivered => wait.state # "Expired"
    /\ wait.kind # "timer" /\ wait.state = "Consumed" => wait.delivered /\ wait.confirmed
    /\ IsTerminal(run.state) => wait.state # "Open"
    /\ WaitingIsWakeable
    /\ HandlerAfterClose

(* The reason for which the try may succeed. *)
Earned == IF frame.handler THEN rec[Handler].state = "Succeeded" ELSE act.state = "Succeeded"

(* The steps inside the try's body, and those inside the try. *)
BodyPcs == {"await", "reserve", "start", "starting", "confirm", "consume", "settle",
            "suspend", "catch", "select"}
TryPcs  == BodyPcs \cup {"handler", "handling", "save", "fail"}

(* What the step that the coordinator has reached says. *)
PlaceInv ==
    /\ co.pc \in {"consume", "suspend"} /\ wait.state = "Open" => wait.confirmed
    /\ co.pc = "suspend" /\ ~run.cancelRequested => wait.state = "Open"
    /\ co.pc = "confirm" => rec[Start].state = "Succeeded"
    /\ co.pc = "catch" /\ Catchable(co.error) =>
          wait.state # "Open" \/ expired \/ ScopeCancelled
    /\ co.pc = "select" => wait.state # "Open"
    /\ co.pc \in BodyPcs => ~frame.handler
    /\ co.pc \in {"handler", "handling"} => frame.handler
    /\ co.pc \in TryPcs => frame.state # "Succeeded"
    /\ co.pc = "save" \/ frame.state = "Succeeded" => Earned
    /\ co.pc \in {"output", "commit"} => frame.state = "Succeeded"
    /\ co.pc = "commit" => \A n \in Nodes : ~IsUnresolved(rec[n])
    /\ OutcomeIsEarned

WaitsIInv == WaitsTypeInv /\ CoInv /\ (\A n \in Nodes : WaitsNodeInv(n)) /\ WaitInv /\ PlaceInv

-----------------------------------------------------------------------------
(* Values *)

LEMMA TwoNodes == Start \in Nodes /\ Handler \in Nodes /\ Start # Handler /\ Nodes = {Start, Handler}
  BY WaitsAssumption DEF Nodes, Start, Handler

(* A fresh executor state, as Return, Finish and ViewReady leave it.        *)
LEMMA NodesIdleSteps ==
    ASSUME NEW pc \in Pcs, NEW result \in Errors
    PROVE  /\ Idle \in Execs /\ Idle.pc = "idle"
           /\ LET e == [Idle EXCEPT !.pc = pc] IN e \in Execs /\ e.pc = pc /\ e.result = "none"
           /\ LET e == [Idle EXCEPT !.pc = pc, !.result = result]
              IN  e \in Execs /\ e.pc = pc /\ e.result = result
<1>1. NoOutcome \in Outcomes /\ NoRecord \in Records
  BY DEF NoOutcome, Outcomes, NoRecord, Records, RecordStates, Certainties, Errors
<1>2. "idle" \in Pcs /\ "none" \in Errors
  BY DEF Pcs, Errors
<1> QED
  BY <1>1, <1>2 DEF Idle, Execs

LEMMA IdleWithAttempt ==
    ASSUME NEW pc \in Pcs, NEW attempt \in Nat
    PROVE  LET e == [Idle EXCEPT !.pc = pc, !.attempt = attempt] IN e \in Execs /\ e.pc = pc
<1>1. NoOutcome \in Outcomes /\ NoRecord \in Records
  BY DEF NoOutcome, Outcomes, NoRecord, Records, RecordStates, Certainties, Errors
<1>2. "idle" \in Pcs /\ "none" \in Errors
  BY DEF Pcs, Errors
<1> QED
  BY <1>1, <1>2 DEF Idle, Execs

LEMMA IdleWithPrevious ==
    ASSUME NEW pc \in Pcs, NEW earlier \in Records
    PROVE  LET e == [Idle EXCEPT !.pc = pc, !.previous = earlier] IN e \in Execs /\ e.pc = pc
<1>1. NoOutcome \in Outcomes /\ NoRecord \in Records
  BY DEF NoOutcome, Outcomes, NoRecord, Records, RecordStates, Certainties, Errors
<1>2. "idle" \in Pcs /\ "none" \in Errors
  BY DEF Pcs, Errors
<1> QED
  BY <1>1, <1>2 DEF Idle, Execs

(* What record_failure makes of a record at work.                           *)
LEMMA ClassifiedMeans ==
    ASSUME OperationsAssumption, WaitsTypeInv, NEW n \in Nodes, NEW error \in Errors,
           NEW certainty \in Certainties, NEW invalid \in BOOLEAN, NEW cancelled \in BOOLEAN,
           NEW fits \in BOOLEAN
    PROVE  LET new == Classified(n, error, certainty, invalid, cancelled, fits)
           IN  /\ new \in Records /\ new.error = error
               /\ new.state \in {"RetryScheduled", "Unknown", "Failed", "Cancelled"}
<1>1. rec \in [Nodes -> Records] /\ Effect[n] \in EffectKinds
  BY DEF WaitsTypeInv, WaitsTypeOK, OperationsAssumption
<1> DEFINE r == rec[n]
           reported == [class |-> ErrorClass(error), certainty |-> certainty,
                        invalid |-> invalid]
           known == KnownAfter(Effect[n], r.certainty, reported)
           budget == [attemptsLeft   |-> r.attempts < MaxAttempts[n],
                      beforeDeadline |-> ~expired,
                      cancelled      |-> cancelled \/ run.cancelRequested]
           decision == ClassifyFailure(Effect[n], Repetition[n],
                           [reported EXCEPT !.certainty = known], budget)
           state == StateOf(AfterBackoff(decision, known, fits))
<1>2. Classified(n, error, certainty, invalid, cancelled, fits)
         = [r EXCEPT !.state = state, !.certainty = known, !.error = error]
  BY DEF Classified
<1>3. known \in Certainties
  <2>1. reported.certainty \in Certainties /\ r.certainty \in Certainties
    BY <1>1 DEF Records
  <2> HIDE DEF reported, r
  <2> QED
    BY <2>1 DEF KnownAfter, Merged, Certainties
<1>4. decision \in Decisions
  <2> HIDE DEF budget, reported, known
  <2> QED
    BY DEF ClassifyFailure, Decisions
<1>5. state \in {"RetryScheduled", "Unknown", "Failed", "Cancelled"}
  <2> HIDE DEF decision, known
  <2> QED
    BY <1>4 DEF AfterBackoff, StateOf, Decisions
<1>6. r \in Records
  BY <1>1
<1> HIDE DEF state, known, decision, budget, reported, r
<1>7. LET new == [r EXCEPT !.state = state, !.certainty = known, !.error = error]
      IN  new \in Records /\ new.error = error /\ new.state = state
  BY <1>3, <1>5, <1>6 DEF Records, RecordStates
<1> QED
  BY <1>2, <1>5, <1>7

(* What a commit of record_failure does to the record of a node.            *)
Failing(n, error) ==
    /\ rec' \in [Nodes -> Records] /\ \A m \in Nodes \ {n} : rec'[m] = rec[m]
    /\ \/ rec'[n] = rec[n]
       \/ /\ rec[n].state \in {"Running", "RetryScheduled"} /\ rec'[n].error = error
          /\ rec'[n].state \in {"RetryScheduled", "Unknown", "Failed", "Cancelled"}

LEMMA FailureMeans ==
    ASSUME OperationsAssumption, WaitsTypeInv, NEW n \in Nodes, NEW error \in Errors,
           NEW certainty \in Certainties, NEW invalid \in BOOLEAN, NEW cancelled \in BOOLEAN,
           \/ rec' = rec
           \/ /\ rec[n].state \in {"Running", "RetryScheduled"}
              /\ \E fits \in BOOLEAN :
                    rec' = [rec EXCEPT ![n] =
                               Classified(n, error, certainty, invalid, cancelled, fits)]
    PROVE  Failing(n, error)
<1>1. rec \in [Nodes -> Records]
  BY DEF WaitsTypeInv, WaitsTypeOK
<1>2. CASE rec' = rec
  BY <1>1, <1>2 DEF Failing
<1>3. CASE /\ rec[n].state \in {"Running", "RetryScheduled"}
           /\ \E fits \in BOOLEAN :
                 rec' = [rec EXCEPT ![n] =
                            Classified(n, error, certainty, invalid, cancelled, fits)]
  <2>1. PICK fits \in BOOLEAN :
             rec' = [rec EXCEPT ![n] = Classified(n, error, certainty, invalid, cancelled, fits)]
    BY <1>3
  <2> DEFINE new == Classified(n, error, certainty, invalid, cancelled, fits)
  <2>2. /\ new \in Records /\ new.error = error
        /\ new.state \in {"RetryScheduled", "Unknown", "Failed", "Cancelled"}
    BY ClassifiedMeans
  <2> HIDE DEF new
  <2> QED
    BY <1>1, <1>3, <2>1, <2>2 DEF Failing, new
<1> QED
  BY <1>2, <1>3

-----------------------------------------------------------------------------
(* The executors *)

(* What holds of a node's executor and record wherever the coordinator is.  *)
LocalInv(n) ==
    /\ exec[n].pc = "permit" => rec[n].state \in {"Absent", "Pending", "RetryScheduled"}
    /\ exec[n].pc = "outcome" /\ exec[n].out.kind = "failed" => exec[n].out.error # "none"
    /\ exec[n].pc = "done" /\ exec[n].result = "none" => rec[n].state = "Succeeded"
    /\ rec[n].state \in {"RetryScheduled", "Failed", "Cancelled"} => rec[n].error # "none"

(* An executor works on its own node, and never on a confirmed record.      *)
Works(n) ==
    /\ UNCHANGED <<run, expired, token>>
    /\ rec' \in [Nodes -> Records] /\ exec' \in [Nodes -> Execs] /\ issued' \in [Nodes -> Nat]
    /\ \A m \in Nodes \ {n} : rec'[m] = rec[m] /\ exec'[m] = exec[m]
    /\ exec[n].pc # "idle"
    /\ rec[n].state = "Succeeded" => rec'[n] = rec[n]
    /\ LocalInv(n)'

LEMMA FinishWorks ==
    ASSUME WaitsTypeInv, NEW n \in Nodes, WaitsNodeInv(n), exec[n].pc # "idle", NEW result \in Errors,
           Finish(n, result), result = "none" => rec[n].state = "Succeeded",
           UNCHANGED <<run, rec, expired, token, world>>
    PROVE  Works(n)
<1> DEFINE e == [Idle EXCEPT !.pc = "done", !.result = result]
<1>1. e \in Execs /\ e.pc = "done" /\ e.result = result
  BY NodesIdleSteps DEF Pcs
<1>2. exec' = [exec EXCEPT ![n] = e]
  BY DEF Finish
<1> HIDE DEF e
<1>3. exec' \in [Nodes -> Execs] /\ exec'[n] = e /\ \A m \in Nodes \ {n} : exec'[m] = exec[m]
  BY <1>1, <1>2 DEF WaitsTypeInv, WaitsTypeOK
<1>4. LocalInv(n)'
  BY <1>1, <1>3 DEF LocalInv, WaitsNodeInv
<1> QED
  BY <1>3, <1>4 DEF Works, WaitsTypeInv, WaitsTypeOK, world

LEMMA ViewSettledWorks ==
    ASSUME WaitsTypeInv, NEW n \in Nodes, WaitsNodeInv(n), ViewSettled(n)
    PROVE  Works(n)
<1> DEFINE result == IF rec[n].state = "Succeeded" THEN "none"
                     ELSE IF rec[n].state = "Unknown" THEN "unknown" ELSE rec[n].error
<1>1. /\ exec[n].pc = "view" /\ Finish(n, result)
      /\ rec[n].state \in {"Succeeded", "Unknown", "Failed", "Cancelled"}
      /\ UNCHANGED <<run, rec, expired, token, world>>
  BY DEF ViewSettled, At
<1>2. result \in Errors
  BY DEF WaitsTypeInv, WaitsTypeOK, Records, Errors
<1>3. result = "none" => rec[n].state = "Succeeded"
  BY <1>1 DEF WaitsNodeInv
<1> QED
  BY <1>1, <1>2, <1>3, FinishWorks

LEMMA RefusedWorks ==
    ASSUME WaitsTypeInv, NEW n \in Nodes, WaitsNodeInv(n),
           ViewRefused(n) \/ PermitRefused(n) \/ IntentRefused(n)
    PROVE  Works(n)
<1>1. /\ exec[n].pc # "idle" /\ UNCHANGED <<run, rec, expired, token, world>>
      /\ \E result \in Errors \ {"none"} : Finish(n, result)
  <2>1. {"cancelled", "other", "unknown", "limit"} \subseteq Errors \ {"none"}
    BY DEF Errors
  <2>2. CASE ViewRefused(n)
    BY <2>1, <2>2 DEF ViewRefused, At
  <2>3. CASE PermitRefused(n)
    BY <2>1, <2>3 DEF PermitRefused, At
  <2>4. CASE IntentRefused(n)
    BY <2>1, <2>4 DEF IntentRefused, At
  <2> QED
    BY <2>2, <2>3, <2>4
<1> QED
  BY <1>1, FinishWorks

LEMMA ViewReadyWorks ==
    ASSUME WaitsTypeInv, NEW n \in Nodes, WaitsNodeInv(n), ViewReady(n)
    PROVE  Works(n)
<1> DEFINE e == [Idle EXCEPT !.pc = "permit", !.previous = rec[n]]
<1>1. /\ exec[n].pc = "view" /\ exec' = [exec EXCEPT ![n] = e]
      /\ rec[n].state \in {"Absent", "Pending", "RetryScheduled"}
      /\ UNCHANGED <<run, rec, expired, token, world>>
  BY DEF ViewReady, At
<1>2. e \in Execs /\ e.pc = "permit"
  BY IdleWithPrevious DEF Pcs, WaitsTypeInv, WaitsTypeOK
<1> HIDE DEF e
<1>3. exec' \in [Nodes -> Execs] /\ exec'[n] = e /\ \A m \in Nodes \ {n} : exec'[m] = exec[m]
  BY <1>1, <1>2 DEF WaitsTypeInv, WaitsTypeOK
<1>4. LocalInv(n)'
  BY <1>1, <1>2, <1>3 DEF LocalInv, WaitsNodeInv
<1> QED
  BY <1>1, <1>3, <1>4 DEF Works, WaitsTypeInv, WaitsTypeOK, world

LEMMA IntentWorks ==
    ASSUME WaitsTypeInv, NEW n \in Nodes, WaitsNodeInv(n), Intent(n)
    PROVE  Works(n)
<1> DEFINE e == [Idle EXCEPT !.pc = "dispatch", !.attempt = issued[n] + 1]
           r == IntentRecord(n)
<1>1. /\ exec[n].pc = "permit" /\ exec' = [exec EXCEPT ![n] = e] /\ rec' = [rec EXCEPT ![n] = r]
      /\ issued' = [issued EXCEPT ![n] = @ + 1]
      /\ UNCHANGED <<run, expired, token>>
  BY DEF Intent, At
<1>2. issued[n] + 1 \in Nat /\ issued' \in [Nodes -> Nat]
  BY <1>1 DEF WaitsTypeInv
<1>3. e \in Execs /\ e.pc = "dispatch"
  BY <1>2, IdleWithAttempt DEF Pcs
<1>4. r \in Records /\ r.state = "Running"
  <2>1. exec[n].previous \in Records
    BY DEF WaitsTypeInv, WaitsTypeOK, Execs
  <2> QED
    BY <1>2, <2>1 DEF IntentRecord, Records, RecordStates, Errors
<1> HIDE DEF e, r
<1>5. /\ exec' \in [Nodes -> Execs] /\ exec'[n] = e /\ \A m \in Nodes \ {n} : exec'[m] = exec[m]
      /\ rec' \in [Nodes -> Records] /\ rec'[n] = r /\ \A m \in Nodes \ {n} : rec'[m] = rec[m]
  BY <1>1, <1>3, <1>4 DEF WaitsTypeInv, WaitsTypeOK
<1>6. LocalInv(n)'
  BY <1>3, <1>4, <1>5 DEF LocalInv
<1>7. rec[n].state # "Succeeded"
  BY <1>1 DEF WaitsNodeInv
<1> QED
  BY <1>1, <1>2, <1>5, <1>6, <1>7 DEF Works

LEMMA DispatchWorks ==
    ASSUME WaitsTypeInv, NEW n \in Nodes, WaitsNodeInv(n), Dispatch(n)
    PROVE  Works(n)
<1> DEFINE x == exec[n]
           e == [x EXCEPT !.pc = "call"]
<1>1. /\ exec[n].pc = "dispatch" /\ exec' = [exec EXCEPT ![n] = e]
      /\ UNCHANGED <<run, rec, expired, token, issued>>
  BY DEF Dispatch, At
<1>2. x \in Execs
  BY DEF WaitsTypeInv, WaitsTypeOK
<1> HIDE DEF x
<1>3. e \in Execs /\ e.pc = "call"
  BY <1>2 DEF Execs, Pcs
<1> HIDE DEF e
<1>4. exec' \in [Nodes -> Execs] /\ exec'[n] = e /\ \A m \in Nodes \ {n} : exec'[m] = exec[m]
  BY <1>1, <1>3 DEF WaitsTypeInv, WaitsTypeOK
<1>5. LocalInv(n)'
  BY <1>1, <1>3, <1>4 DEF LocalInv, WaitsNodeInv
<1> QED
  BY <1>1, <1>4, <1>5 DEF Works, WaitsTypeInv, WaitsTypeOK

LEMMA CallWorks ==
    ASSUME WaitsTypeInv, NEW n \in Nodes, WaitsNodeInv(n), CallReturns(n) \/ CallAbandoned(n)
    PROVE  Works(n)
<1>1. /\ exec[n].pc = "call" /\ UNCHANGED <<run, rec, expired, token, issued>>
      /\ \E out \in Outcomes : CallEnds(n, out) /\ (out.kind = "failed" => out.error # "none")
  <2>1. CASE CallReturns(n)
    BY <2>1 DEF CallReturns, At
  <2>2. CASE CallAbandoned(n)
    <3> DEFINE out == [kind |-> "failed", certainty |-> LostCertainty(n),
                       error |-> IF token[n] THEN "cancelled" ELSE "transient"]
    <3>1. out \in Outcomes /\ out.error # "none"
      BY DEF Outcomes, LostCertainty, Certainties, Errors
    <3>2. CallEnds(n, out)
      BY <2>2 DEF CallAbandoned
    <3> HIDE DEF out
    <3> QED
      BY <2>2, <3>1, <3>2 DEF CallAbandoned, At, world
  <2> QED
    BY <2>1, <2>2
<1>2. PICK out \in Outcomes : CallEnds(n, out) /\ (out.kind = "failed" => out.error # "none")
  BY <1>1
<1> DEFINE x == exec[n]
           e == [x EXCEPT !.pc = "outcome", !.out = out]
<1>3. exec' = [exec EXCEPT ![n] = e]
  BY <1>2 DEF CallEnds
<1>4. x \in Execs
  BY DEF WaitsTypeInv, WaitsTypeOK
<1> HIDE DEF x
<1>5. e \in Execs /\ e.pc = "outcome" /\ e.out = out
  BY <1>4 DEF Execs, Pcs
<1> HIDE DEF e
<1>6. exec' \in [Nodes -> Execs] /\ exec'[n] = e /\ \A m \in Nodes \ {n} : exec'[m] = exec[m]
  BY <1>3, <1>5 DEF WaitsTypeInv, WaitsTypeOK
<1>7. LocalInv(n)'
  BY <1>1, <1>2, <1>5, <1>6 DEF LocalInv, WaitsNodeInv
<1> QED
  BY <1>1, <1>6, <1>7 DEF Works, WaitsTypeInv, WaitsTypeOK

LEMMA ConfirmWorks ==
    ASSUME WaitsTypeInv, NEW n \in Nodes, WaitsNodeInv(n), Confirm(n)
    PROVE  Works(n)
<1>1. exec[n].pc = "outcome" /\ UNCHANGED <<run, expired, token, world>>
  BY DEF Confirm, At
<1>2. CASE rec' = [rec EXCEPT ![n] = Confirmed(n)] /\ Finish(n, "none") /\ rec[n].state = "Running"
  <2> DEFINE r == rec[n]
             c == Confirmed(n)
             e == [Idle EXCEPT !.pc = "done", !.result = "none"]
  <2>1. r \in Records
    BY DEF WaitsTypeInv, WaitsTypeOK
  <2>2. c = [r EXCEPT !.state = "Succeeded",
                      !.certainty = IF IsWrite(n) THEN "Applied" ELSE "NotApplied"]
    BY DEF Confirmed
  <2> HIDE DEF r
  <2>3. c \in Records /\ c.state = "Succeeded"
    BY <2>1, <2>2 DEF Records, RecordStates, Certainties
  <2>4. e \in Execs /\ e.pc = "done" /\ e.result = "none" /\ exec' = [exec EXCEPT ![n] = e]
    BY <1>2, NodesIdleSteps DEF Pcs, Errors, Finish
  <2> HIDE DEF c, e
  <2>5. /\ exec' \in [Nodes -> Execs] /\ exec'[n] = e /\ \A m \in Nodes \ {n} : exec'[m] = exec[m]
        /\ rec' \in [Nodes -> Records] /\ rec'[n] = c /\ \A m \in Nodes \ {n} : rec'[m] = rec[m]
    BY <1>2, <2>3, <2>4 DEF WaitsTypeInv, WaitsTypeOK, c
  <2>6. LocalInv(n)'
    BY <2>3, <2>4, <2>5 DEF LocalInv
  <2> QED
    BY <1>1, <1>2, <2>5, <2>6 DEF Works, WaitsTypeInv, world
<1>3. CASE UNCHANGED rec /\ Finish(n, "unknown")
  BY <1>1, <1>3, FinishWorks DEF Errors
<1> QED
  BY <1>2, <1>3 DEF Confirm

LEMMA FailWorks ==
    ASSUME OperationsAssumption, WaitsTypeInv, NEW n \in Nodes, WaitsNodeInv(n), Fail(n)
    PROVE  Works(n)
<1> DEFINE out == exec[n].out
           error == IF out.kind # "failed" THEN "other" ELSE out.error
           e == [Idle EXCEPT !.pc = "view"]
<1>1. /\ exec[n].pc = "outcome" /\ exec' = [exec EXCEPT ![n] = e]
      /\ UNCHANGED <<run, expired, token, world>>
  BY DEF Fail, At, Return
<1>2. out \in Outcomes
  BY DEF WaitsTypeInv, WaitsTypeOK, Execs
<1>3. error \in Errors /\ error # "none" /\ out.certainty \in Certainties
  BY <1>1, <1>2 DEF Outcomes, Errors, WaitsNodeInv
<1>4. \/ rec' = rec
      \/ /\ rec[n].state \in {"Running", "RetryScheduled"}
         /\ \E fits \in BOOLEAN :
               rec' = [rec EXCEPT ![n] =
                          Classified(n, error, out.certainty, out.kind # "failed", token[n], fits)]
  BY DEF Fail, RecordFailure
<1>5. e \in Execs /\ e.pc = "view"
  BY NodesIdleSteps DEF Pcs, Errors
<1> HIDE DEF e, error, out
<1>6. token[n] \in BOOLEAN /\ (out.kind # "failed") \in BOOLEAN
  BY DEF WaitsTypeInv, WaitsTypeOK
<1>7. Failing(n, error)
  BY ZenonT(60), <1>3, <1>4, <1>6, FailureMeans
<1>8. exec' \in [Nodes -> Execs] /\ exec'[n] = e /\ \A m \in Nodes \ {n} : exec'[m] = exec[m]
  BY <1>1, <1>5 DEF WaitsTypeInv, WaitsTypeOK
<1>9. LocalInv(n)'
  BY <1>3, <1>5, <1>7, <1>8 DEF LocalInv, WaitsNodeInv, Failing
<1> QED
  BY <1>1, <1>7, <1>8, <1>9 DEF Works, WaitsTypeInv, world, Failing

LEMMA ViewRetryAbandonedWorks ==
    ASSUME OperationsAssumption, WaitsTypeInv, NEW n \in Nodes, WaitsNodeInv(n), ViewRetryAbandoned(n)
    PROVE  Works(n)
<1>1. /\ exec[n].pc = "view" /\ rec[n].state = "RetryScheduled"
      /\ UNCHANGED <<run, expired, exec, token, world>>
      /\ \/ rec' = rec
         \/ \E fits \in BOOLEAN :
               rec' = [rec EXCEPT ![n] = Classified(n, rec[n].error, rec[n].certainty, FALSE,
                                                    token[n], fits)]
  BY DEF ViewRetryAbandoned, RecordFailure, At
<1>2. rec[n].error \in Errors /\ rec[n].certainty \in Certainties /\ token[n] \in BOOLEAN
  BY DEF WaitsTypeInv, WaitsTypeOK, Records
<1>3. rec[n].error # "none"
  BY <1>1 DEF WaitsNodeInv
<1>4. Failing(n, rec[n].error)
  BY <1>1, <1>2, FailureMeans
<1>5. LocalInv(n)'
  BY <1>1, <1>3, <1>4 DEF LocalInv, WaitsNodeInv, Failing
<1> QED
  BY <1>1, <1>4, <1>5 DEF Works, WaitsTypeInv, WaitsTypeOK, world, Failing

LEMMA ExecutorWorks ==
    ASSUME OperationsAssumption, WaitsTypeInv, NEW n \in Nodes, WaitsNodeInv(n), ExecutorStep(n)
    PROVE  Works(n)
  BY ViewSettledWorks, RefusedWorks, ViewReadyWorks, IntentWorks, DispatchWorks, CallWorks,
     ConfirmWorks, FailWorks, ViewRetryAbandonedWorks DEF ExecutorStep

-----------------------------------------------------------------------------
(* The coordinator *)

Cos    == [pc : WaitsPcs, node : Nodes, error : WaitErrors]
WaitRecs == [kind : Kinds, state : WaitStates, confirmed : BOOLEAN, delivered : BOOLEAN]
Acts   == [state : Activations, error : WaitErrors]
Frames == [state : Activations, error : WaitErrors, handler : BOOLEAN]

(* The types that a step of the try's coordinator can disturb.              *)
LEMMA PlaceTypes ==
    ASSUME WaitsTypeInv
    PROVE  co \in Cos /\ wait \in WaitRecs /\ act \in Acts /\ frame \in Frames /\ run \in Runs
  BY DEF WaitsTypeInv, WaitsTypeOK, Cos, WaitRecs, Acts, Frames

(* A step of the coordinator between two operations moves only the try.     *)
LEMMA Walk ==
    ASSUME WaitsIInv, UNCHANGED <<opVars, headVars>>,
           co.pc \notin {"none", "begin", "starting", "handling"},
           co'.pc \notin {"none", "begin"},
           co' \in Cos, wait' \in WaitRecs, act' \in Acts, frame' \in Frames,
           WaitInv', PlaceInv'
    PROVE  WaitsIInv'
<1>1. WaitsTypeInv'
  BY DEF WaitsIInv, WaitsTypeInv, WaitsTypeOK, opVars, Cos, WaitRecs, Acts, Frames
<1>2. CoInv'
  BY DEF WaitsIInv, CoInv, CancelIsKept, opVars, headVars
<1>3. ASSUME NEW n \in Nodes PROVE WaitsNodeInv(n)'
  <2>1. WaitsNodeInv(n) /\ exec[n].pc = "idle"
    BY DEF WaitsIInv, WaitsNodeInv
  <2> QED
    BY <2>1 DEF WaitsNodeInv, opVars
<1> QED
  BY <1>1, <1>2, <1>3 DEF WaitsIInv

LEMMA TryEnterInv == ASSUME WaitsIInv, TryEnter PROVE WaitsIInv'
<1> USE DEF CoAt
<1>1. co \in Cos /\ wait \in WaitRecs /\ act \in Acts /\ frame \in Frames /\ run \in Runs
  BY PlaceTypes DEF WaitsIInv
<1>2. /\ co.pc = "try" /\ UNCHANGED <<opVars, headVars, wait, act, overdue>>
      /\ frame.state # "Succeeded"
      /\ co' = [co EXCEPT !.pc = IF frame.handler THEN "handler" ELSE "await"]
      /\ frame' = IF frame.state = "Absent" THEN [frame EXCEPT !.state = "Running"] ELSE frame
  BY DEF TryEnter, Admitted, Goto
<1>3. co' \in Cos /\ frame' \in Frames /\ frame'.state # "Succeeded" /\ frame'.handler = frame.handler
      /\ co'.pc = IF frame.handler THEN "handler" ELSE "await"
  BY <1>1, <1>2 DEF Cos, WaitsPcs, Frames, Activations
<1>4. WaitInv'
  BY <1>2, <1>3 DEF WaitsIInv, WaitInv, WaitingIsWakeable, HandlerAfterClose, opVars
<1>5. PlaceInv'
  BY <1>2, <1>3 DEF WaitsIInv, CoInv, PlaceInv, BodyPcs, TryPcs, OutcomeIsEarned, Catchable, opVars, IsTerminal
<1> QED
  BY <1>1, <1>2, <1>3, <1>4, <1>5, Walk

(* What a record that is not planned to run refuses with.                   *)
LEMMA RefusalsMean ==
    ASSUME NEW r, r.error \in WaitErrors, NEW error \in Refusals(r)
    PROVE  /\ error \in WaitErrors /\ r.state # "Succeeded"
           /\ Catchable(error) => r.state \in {"Failed", "Cancelled", "Absent"} \/ expired
  BY DEF Refusals, WaitErrors, Errors, Catchable

LEMMA TryRefusedInv == ASSUME WaitsIInv, TryConfirmed \/ TryRefused PROVE WaitsIInv'
<1> USE DEF CoAt
<1>1. co \in Cos /\ wait \in WaitRecs /\ act \in Acts /\ frame \in Frames /\ run \in Runs
  BY PlaceTypes DEF WaitsIInv
<1>2. /\ co.pc = "try" /\ UNCHANGED <<opVars, headVars, waitVars>>
      /\ co' \in Cos
      /\ \/ co'.pc = "output" /\ frame.state = "Succeeded"
         \/ co'.pc = "error"
  <2>1. CASE TryConfirmed
    BY <1>1, <2>1, TwoNodes DEF TryConfirmed, Cos, WaitsPcs, Scope
  <2>2. CASE TryRefused
    <3>1. PICK error \in Refusals(frame) : Raise(error)
      BY <2>2 DEF TryRefused
    <3>2. error \in WaitErrors
      BY <1>1, RefusalsMean DEF Frames
    <3> QED
      BY <1>1, <2>2, <3>1, <3>2 DEF TryRefused, Raise, Cos, WaitsPcs
  <2> QED
    BY <2>1, <2>2
<1>3. WaitInv'
  BY <1>2 DEF WaitsIInv, WaitInv, WaitingIsWakeable, HandlerAfterClose, opVars, waitVars
<1>4. PlaceInv'
  BY <1>2 DEF WaitsIInv, PlaceInv, BodyPcs, TryPcs, OutcomeIsEarned, Earned, opVars, waitVars
<1> QED
  BY <1>1, <1>2, <1>3, <1>4, Walk DEF waitVars

LEMMA TryCatchInv == ASSUME WaitsIInv, TryCatch PROVE WaitsIInv'
<1> USE DEF CoAt
<1>1. co \in Cos /\ wait \in WaitRecs /\ act \in Acts /\ frame \in Frames /\ run \in Runs
  BY PlaceTypes DEF WaitsIInv
<1>2. /\ co.pc = "catch" /\ UNCHANGED <<opVars, headVars, waitVars>>
      /\ co' \in Cos
      /\ \/ co'.pc = "fail"
         \/ co'.pc = "select" /\ Catchable(co.error) /\ ~ScopeCancelled /\ ~expired
  BY <1>1 DEF TryCatch, Throw, Goto, Cos, WaitsPcs, WaitErrors, Errors
<1>3. WaitInv'
  BY <1>2 DEF WaitsIInv, WaitInv, WaitingIsWakeable, HandlerAfterClose, opVars, waitVars
<1>4. PlaceInv'
  BY <1>2 DEF WaitsIInv, PlaceInv, BodyPcs, TryPcs, OutcomeIsEarned, Earned, opVars, waitVars
<1> QED
  BY <1>1, <1>2, <1>3, <1>4, Walk DEF waitVars

LEMMA SelectHandlerInv == ASSUME WaitsIInv, SelectHandler PROVE WaitsIInv'
<1> USE DEF CoAt
<1>1. co \in Cos /\ wait \in WaitRecs /\ act \in Acts /\ frame \in Frames /\ run \in Runs
  BY PlaceTypes DEF WaitsIInv
<1>2. /\ co.pc = "select" /\ UNCHANGED <<opVars, headVars, wait, act, overdue>>
      /\ co' \in Cos /\ frame' \in Frames /\ frame'.state = frame.state
      /\ \/ co'.pc = "handler" /\ frame'.handler
         \/ co'.pc = "fail" /\ frame' = frame
  BY <1>1 DEF SelectHandler, Throw, Goto, Cos, WaitsPcs, Frames, WaitErrors, Errors
<1>3. frame.state # "Succeeded" /\ wait.state # "Open" /\ run.state # "Succeeded"
  BY <1>2 DEF WaitsIInv, CoInv, PlaceInv, BodyPcs, TryPcs, IsTerminal
<1>4. WaitInv'
  BY <1>2, <1>3 DEF WaitsIInv, WaitInv, WaitingIsWakeable, HandlerAfterClose, opVars
<1>5. PlaceInv'
  BY <1>2, <1>3 DEF PlaceInv, BodyPcs, TryPcs, OutcomeIsEarned, opVars
<1> QED
  BY <1>1, <1>2, <1>4, <1>5, Walk

LEMMA TryEndsInv == ASSUME WaitsIInv, TrySave \/ TryFail PROVE WaitsIInv'
<1> USE DEF CoAt
<1>1. co \in Cos /\ wait \in WaitRecs /\ act \in Acts /\ frame \in Frames /\ run \in Runs
  BY PlaceTypes DEF WaitsIInv
<1>2. /\ co.pc \in {"save", "fail"} /\ UNCHANGED <<opVars, headVars, wait, act, overdue>>
      /\ co' \in Cos /\ frame' \in Frames /\ frame'.handler = frame.handler
      /\ \/ co.pc = "save" /\ co'.pc = "output" /\ frame'.state = "Succeeded"
         \/ co'.pc = "fail" /\ frame' = frame
         \/ co'.pc = "error" /\ frame'.state # "Succeeded"
  <2>1. CASE TrySave
    BY ZenonT(60), <1>1, <2>1, TwoNodes
    DEF TrySave, Throw, Cos, WaitsPcs, Frames, Activations, WaitErrors, Errors, Scope
  <2>2. CASE TryFail
    BY <1>1, <2>2 DEF TryFail, Goto, Settle, Cos, WaitsPcs, Frames, Activations
  <2> QED
    BY <2>1, <2>2
<1>3. frame.state # "Succeeded" /\ run.state # "Succeeded" /\ (co.pc = "save" => Earned)
  BY <1>2 DEF WaitsIInv, CoInv, PlaceInv, BodyPcs, TryPcs, IsTerminal
<1>4. WaitInv'
  BY <1>2 DEF WaitsIInv, WaitInv, WaitingIsWakeable, HandlerAfterClose, opVars
<1>5. PlaceInv'
  BY <1>2, <1>3 DEF PlaceInv, BodyPcs, TryPcs, OutcomeIsEarned, Earned, opVars
<1> QED
  BY <1>1, <1>2, <1>4, <1>5, Walk

LEMMA TryStepInv == ASSUME WaitsIInv, TryStep PROVE WaitsIInv'
  BY TryEnterInv, TryRefusedInv, TryCatchInv, SelectHandlerInv, TryEndsInv DEF TryStep

-----------------------------------------------------------------------------
(* The wait node *)

LEMMA AwaitInv == ASSUME WaitsIInv, AwaitEnter \/ AwaitConfirmed \/ AwaitRefused PROVE WaitsIInv'
<1> USE DEF CoAt
<1>1. co \in Cos /\ wait \in WaitRecs /\ act \in Acts /\ frame \in Frames /\ run \in Runs
  BY PlaceTypes DEF WaitsIInv
<1>2. /\ co.pc = "await" /\ UNCHANGED <<opVars, headVars, waitVars>>
      /\ co' \in Cos
      /\ \/ co'.pc = "reserve"
         \/ co'.pc \in {"save", "catch"} /\ act.state = "Succeeded"
         \/ /\ co'.pc = "catch"
            /\ Catchable(co'.error) => act.state \in {"Failed", "Cancelled", "Absent"} \/ expired
  <2>1. CASE AwaitEnter
    BY <1>1, <2>1 DEF AwaitEnter, Goto, Cos, WaitsPcs
  <2>2. CASE AwaitConfirmed
    BY <1>1, <2>2 DEF AwaitConfirmed, BodyEnds, Goto, Throw, Cos, WaitsPcs, WaitErrors, Errors
  <2>3. CASE AwaitRefused
    <3>1. PICK error \in Refusals(act) : Throw("catch", error)
      BY <2>3 DEF AwaitRefused
    <3>2. error \in WaitErrors
          /\ (Catchable(error) => act.state \in {"Failed", "Cancelled", "Absent"} \/ expired)
      BY <1>1, RefusalsMean DEF Acts
    <3>3. co' \in Cos /\ co'.pc = "catch" /\ co'.error = error
      BY <1>1, <3>1, <3>2 DEF Throw, Cos, WaitsPcs
    <3> QED
      BY <2>3, <3>2, <3>3 DEF AwaitRefused
  <2> QED
    BY <2>1, <2>2, <2>3
<1>3. WaitInv'
  BY <1>2 DEF WaitsIInv, WaitInv, WaitingIsWakeable, HandlerAfterClose, opVars, waitVars
<1>4. PlaceInv'
  BY <1>2 DEF WaitsIInv, WaitInv, PlaceInv, BodyPcs, TryPcs, OutcomeIsEarned, Earned, opVars, waitVars
<1> QED
  BY <1>1, <1>2, <1>3, <1>4, Walk DEF waitVars

LEMMA ReserveInv == ASSUME WaitsIInv, Reserve PROVE WaitsIInv'
<1> USE DEF CoAt
<1>1. co \in Cos /\ wait \in WaitRecs /\ act \in Acts /\ frame \in Frames /\ run \in Runs
  BY PlaceTypes DEF WaitsIInv
<1>2. /\ co.pc = "reserve" /\ wait.state = "None" /\ UNCHANGED <<opVars, headVars, frame, overdue>>
      /\ wait' = [wait EXCEPT !.state = "Open", !.confirmed = wait.kind # "started"]
      /\ act' = [act EXCEPT !.state = "Pending"]
      /\ co' = [co EXCEPT !.pc = IF wait.kind = "started" /\ ~wait'.confirmed /\ wait'.state # "Closed"
                                 THEN "start" ELSE "consume"]
  BY DEF Reserve, AfterReserve, Goto
<1>3. /\ wait' \in WaitRecs /\ act' \in Acts /\ co' \in Cos
      /\ wait'.kind = wait.kind /\ wait'.state = "Open" /\ wait'.delivered = wait.delivered
      /\ act'.state = "Pending"
      /\ IF wait.kind = "started" THEN ~wait'.confirmed /\ co'.pc = "start"
         ELSE wait'.confirmed /\ co'.pc = "consume"
  BY <1>1, <1>2 DEF WaitRecs, WaitStates, Acts, Activations, Cos, WaitsPcs
<1>4. /\ frame.state # "Succeeded" /\ ~frame.handler /\ ~wait.delivered
      /\ ~IsTerminal(run.state) /\ run.state # "Waiting"
  BY <1>2 DEF WaitsIInv, CoInv, WaitInv, PlaceInv, BodyPcs, TryPcs
<1>5. WaitInv'
  BY <1>2, <1>3, <1>4 DEF WaitInv, WaitingIsWakeable, HandlerAfterClose, opVars, IsTerminal
<1>6. PlaceInv'
  BY <1>2, <1>3, <1>4 DEF PlaceInv, BodyPcs, TryPcs, OutcomeIsEarned, Earned, opVars, IsTerminal
<1> QED
  BY <1>1, <1>2, <1>3, <1>5, <1>6, Walk

LEMMA ReservedInv == ASSUME WaitsIInv, Reserved \/ ReserveRefused \/ StartRefused PROVE WaitsIInv'
<1> USE DEF CoAt
<1>1. co \in Cos /\ wait \in WaitRecs /\ act \in Acts /\ frame \in Frames /\ run \in Runs
  BY PlaceTypes DEF WaitsIInv
<1>2. /\ co.pc \in {"reserve", "start"} /\ UNCHANGED <<opVars, headVars, waitVars>>
      /\ co' \in Cos
      /\ \/ co'.pc \in {"start", "settle"}
         \/ /\ co'.pc = "consume" /\ wait.state # "None"
            /\ (wait.kind = "started" /\ wait.state = "Open" => wait.confirmed)
  BY <1>1 DEF Reserved, ReserveRefused, StartRefused, AfterReserve, Goto, Throw, Cos, WaitsPcs,
              WaitErrors, Errors
<1>3. WaitInv'
  BY <1>2 DEF WaitsIInv, WaitInv, WaitingIsWakeable, HandlerAfterClose, opVars, waitVars
<1>4. PlaceInv'
  BY <1>2 DEF WaitsIInv, WaitInv, PlaceInv, BodyPcs, TryPcs, OutcomeIsEarned, Earned, opVars, waitVars
<1> QED
  BY <1>1, <1>2, <1>3, <1>4, Walk DEF waitVars

LEMMA ConfirmStartInv == ASSUME WaitsIInv, ConfirmStart PROVE WaitsIInv'
<1> USE DEF CoAt
<1>1. co \in Cos /\ wait \in WaitRecs /\ act \in Acts /\ frame \in Frames /\ run \in Runs
  BY PlaceTypes DEF WaitsIInv
<1>2. /\ co.pc = "confirm" /\ UNCHANGED <<opVars, headVars, act, frame, overdue>>
      /\ co' \in Cos /\ co'.pc = "consume"
      /\ wait' \in WaitRecs /\ wait'.state = wait.state /\ wait'.kind = wait.kind
      /\ wait'.delivered = wait.delivered
      /\ wait'.confirmed = (wait.confirmed \/ wait.state = "Open")
  BY <1>1 DEF ConfirmStart, Goto, Cos, WaitsPcs, WaitRecs
<1>3. rec[Start].state = "Succeeded" /\ ~frame.handler
  BY <1>2 DEF WaitsIInv, PlaceInv, BodyPcs
<1>4. WaitInv'
  BY <1>2, <1>3 DEF WaitsIInv, WaitInv, WaitingIsWakeable, HandlerAfterClose, opVars
<1>5. PlaceInv'
  BY <1>2, <1>3 DEF WaitsIInv, PlaceInv, BodyPcs, TryPcs, OutcomeIsEarned, Earned, opVars
<1> QED
  BY <1>1, <1>2, <1>4, <1>5, Walk

LEMMA ConsumeQuietInv == ASSUME WaitsIInv, ConsumeStopped \/ ConsumeNothing PROVE WaitsIInv'
<1> USE DEF CoAt
<1>1. co \in Cos /\ wait \in WaitRecs /\ act \in Acts /\ frame \in Frames /\ run \in Runs
  BY PlaceTypes DEF WaitsIInv
<1>2. /\ co.pc = "consume" /\ UNCHANGED <<opVars, headVars, waitVars>>
      /\ co' \in Cos
      /\ \/ co'.pc = "settle"
         \/ co'.pc = "suspend" /\ wait.state = "Open"
  BY <1>1 DEF ConsumeStopped, ConsumeNothing, Goto, Throw, Cos, WaitsPcs, WaitErrors, Errors
<1>3. WaitInv'
  BY <1>2 DEF WaitsIInv, WaitInv, WaitingIsWakeable, HandlerAfterClose, opVars, waitVars
<1>4. PlaceInv'
  BY <1>2 DEF WaitsIInv, PlaceInv, BodyPcs, TryPcs, OutcomeIsEarned, Earned, opVars, waitVars
<1> QED
  BY <1>1, <1>2, <1>3, <1>4, Walk DEF waitVars

LEMMA ConsumeInv == ASSUME WaitsIInv, Consume \/ ConsumeExpired PROVE WaitsIInv'
<1> USE DEF CoAt
<1>1. co \in Cos /\ wait \in WaitRecs /\ act \in Acts /\ frame \in Frames /\ run \in Runs
  BY PlaceTypes DEF WaitsIInv
<1>2. /\ co.pc = "consume" /\ wait.state = "Open" /\ UNCHANGED <<opVars, headVars, frame, overdue>>
      /\ co' \in Cos /\ wait' \in WaitRecs /\ act' \in Acts
      /\ wait'.kind = wait.kind /\ wait'.confirmed = wait.confirmed
      /\ wait'.delivered = wait.delivered
      /\ \/ /\ co'.pc \in {"save", "catch"} /\ wait'.state = "Consumed" /\ act'.state = "Succeeded"
            /\ wait.kind # "timer" => wait.delivered /\ wait.confirmed
         \/ co'.pc = "settle" /\ wait' = wait /\ act' = act
         \/ /\ co'.pc = "settle" /\ wait'.state = "Expired" /\ act' = act
            /\ wait.kind # "timer" /\ ~wait.delivered
  <2>1. CASE Consume
    BY <1>1, <2>1 DEF Consume, BodyEnds, Goto, Throw, Ready, Cos, WaitsPcs, WaitRecs, WaitStates,
                      Acts, Activations, WaitErrors, Errors
  <2>2. CASE ConsumeExpired
    BY <1>1, <2>2 DEF ConsumeExpired, Expire, ExpiryDue, Throw, Cos, WaitsPcs, WaitRecs, WaitStates,
                      WaitErrors, Errors
  <2> QED
    BY <2>1, <2>2
<1>3. /\ frame.state # "Succeeded" /\ ~frame.handler /\ run.state # "Waiting"
      /\ ~IsTerminal(run.state)
  BY <1>2 DEF WaitsIInv, CoInv, PlaceInv, BodyPcs, TryPcs
<1>4. WaitInv'
  BY <1>2, <1>3 DEF WaitsIInv, WaitInv, WaitingIsWakeable, HandlerAfterClose, opVars
<1>5. PlaceInv'
  BY <1>2, <1>3 DEF PlaceInv, BodyPcs, TryPcs, OutcomeIsEarned, Earned, opVars, IsTerminal
<1> QED
  BY <1>1, <1>2, <1>4, <1>5, Walk

LEMMA SettleWaitInv == ASSUME WaitsIInv, SettleWait PROVE WaitsIInv'
<1> USE DEF CoAt
<1>1. co \in Cos /\ wait \in WaitRecs /\ act \in Acts /\ frame \in Frames /\ run \in Runs
  BY PlaceTypes DEF WaitsIInv
<1>2. /\ co.pc = "settle" /\ UNCHANGED <<opVars, headVars, frame, overdue>>
      /\ co' \in Cos /\ co'.pc = "catch" /\ co'.error = co.error
  BY <1>1 DEF SettleWait, Goto, Cos, WaitsPcs
<1>3. \/ wait.state \in {"None", "Consumed"} /\ wait' = wait /\ act' = act
      \/ /\ wait.state \notin {"None", "Consumed"}
         /\ wait' \in WaitRecs /\ act' \in Acts
         /\ wait'.kind = wait.kind /\ wait'.confirmed = wait.confirmed
         /\ wait'.delivered = wait.delivered
         /\ wait'.state = IF co.error # "unknown" /\ wait.state = "Open" THEN "Closed" ELSE wait.state
         /\ act'.state \in {"Pending", "Cancelled", "Failed"}
         /\ co.error = "unknown" => act'.state = "Pending"
  <2>1. CASE wait.state \in {"None", "Consumed"}
    BY <2>1 DEF SettleWait
  <2>2. CASE wait.state \notin {"None", "Consumed"}
    <3>1. /\ wait' = IF co.error = "unknown" THEN wait ELSE Closed(wait)
          /\ act' = Settle(act, co.error)
      BY <2>2 DEF SettleWait
    <3>2. act' \in Acts /\ act'.state \in {"Pending", "Cancelled", "Failed"}
          /\ (co.error = "unknown" => act'.state = "Pending")
      BY <1>1, <3>1 DEF Settle, Acts, Activations, Cos
    <3>3. /\ wait' \in WaitRecs
          /\ wait'.kind = wait.kind /\ wait'.confirmed = wait.confirmed
          /\ wait'.delivered = wait.delivered
          /\ wait'.state = IF co.error # "unknown" /\ wait.state = "Open" THEN "Closed" ELSE wait.state
      BY <1>1, <3>1 DEF Closed, WaitRecs, WaitStates
    <3> QED
      BY <2>2, <3>2, <3>3
  <2> QED
    BY <2>1, <2>2
<1>4. /\ frame.state # "Succeeded" /\ ~frame.handler /\ run.state # "Waiting"
      /\ ~IsTerminal(run.state)
  BY <1>2 DEF WaitsIInv, CoInv, PlaceInv, BodyPcs, TryPcs
<1>5. WaitInv'
  BY <1>2, <1>3, <1>4 DEF WaitsIInv, WaitInv, WaitingIsWakeable, HandlerAfterClose, opVars
<1>6. PlaceInv'
  BY <1>2, <1>3, <1>4 DEF PlaceInv, BodyPcs, TryPcs, OutcomeIsEarned, Earned, Catchable, opVars, IsTerminal
<1> QED
  BY <1>1, <1>2, <1>3, <1>5, <1>6, Walk

-----------------------------------------------------------------------------
(* The two operations: a step of one, its spawn and its end *)

(* Between two operations every executor is idle, and the records keep what *)
(* they say.                                                                *)
LEMMA NodesIdle ==
    ASSUME WaitsIInv, NEW n \in Nodes
    PROVE  /\ LocalInv(n)
           /\ co.pc \notin {"starting", "handling"} => exec[n].pc = "idle"
           /\ co.pc = "starting" /\ n # Start => exec[n].pc = "idle"
           /\ co.pc = "handling" /\ n = Start => exec[n].pc = "idle"
  BY DEF WaitsIInv, WaitsNodeInv, LocalInv

LEMMA ExecutorInv ==
    ASSUME OperationsAssumption, WaitsIInv, NEW n \in Nodes, ExecutorStep(n),
           UNCHANGED <<headVars, co, waitVars>>
    PROVE  WaitsIInv'
<1>1. Works(n)
  BY ExecutorWorks DEF WaitsIInv
<1>2. /\ co.pc \in {"starting", "handling"}
      /\ co.pc = IF n = Start THEN "starting" ELSE "handling"
  BY <1>1 DEF WaitsIInv, WaitsNodeInv, Works
<1>3. WaitsTypeInv'
  BY <1>1 DEF WaitsIInv, WaitsTypeInv, WaitsTypeOK, Works, waitVars
<1>4. CoInv'
  BY <1>1 DEF WaitsIInv, CoInv, CancelIsKept, Works, headVars
<1>5. ASSUME NEW m \in Nodes PROVE WaitsNodeInv(m)'
  <2>1. CASE m = n
    BY <1>1, <1>2, <2>1 DEF Works, LocalInv, WaitsNodeInv
  <2>2. CASE m # n
    BY <1>1, <2>2 DEF Works, WaitsIInv, WaitsNodeInv
  <2> QED
    BY <2>1, <2>2
<1>6. rec[Start].state = "Succeeded" => rec'[Start].state = "Succeeded"
  BY <1>1, TwoNodes DEF Works
<1>7. WaitInv'
  BY <1>1, <1>6 DEF WaitsIInv, WaitInv, WaitingIsWakeable, HandlerAfterClose, Works, waitVars
<1>8. PlaceInv'
  <2>1. frame.state # "Succeeded" /\ run.state # "Succeeded"
    BY <1>2 DEF WaitsIInv, CoInv, PlaceInv, TryPcs, BodyPcs, IsTerminal
  <2> QED
    BY <1>1, <1>2, <2>1 DEF WaitsIInv, PlaceInv, OutcomeIsEarned, Works, waitVars, TryPcs, BodyPcs
<1> QED
  BY <1>3, <1>4, <1>5, <1>7, <1>8 DEF WaitsIInv

(* What the coordinator's step around an operation leaves: the operation n  *)
(* has just been spawned, or its executor is idle again.                    *)
LEMMA HandOver ==
    ASSUME WaitsIInv, NEW n \in Nodes, UNCHANGED <<run, rec, issued, headVars>>,
           co.pc \notin {"none", "begin"}, co'.pc \notin {"none", "begin"},
           NEW e \in Execs, exec' = [exec EXCEPT ![n] = e],
           \A m \in Nodes \ {n} : exec[m].pc = "idle",
           \/ e.pc = "idle"
           \/ e.pc = "view" /\ co'.pc = IF n = Start THEN "starting" ELSE "handling",
           token' \in [Nodes -> BOOLEAN],
           co' \in Cos, wait' \in WaitRecs, act' \in Acts, frame' \in Frames,
           WaitInv', PlaceInv'
    PROVE  WaitsIInv'
<1>1. exec' \in [Nodes -> Execs] /\ exec'[n] = e /\ \A m \in Nodes \ {n} : exec'[m] = exec[m]
  BY DEF WaitsIInv, WaitsTypeInv, WaitsTypeOK
<1>2. WaitsTypeInv'
  BY <1>1 DEF WaitsIInv, WaitsTypeInv, WaitsTypeOK, Cos, WaitRecs, Acts, Frames
<1>3. CoInv'
  BY DEF WaitsIInv, CoInv, CancelIsKept, headVars
<1>4. ASSUME NEW m \in Nodes PROVE WaitsNodeInv(m)'
  <2>1. WaitsNodeInv(m)
    BY DEF WaitsIInv
  <2>2. CASE m = n
    BY <1>1, <2>1, <2>2 DEF WaitsNodeInv
  <2>3. CASE m # n
    BY <1>1, <2>1, <2>3 DEF WaitsNodeInv
  <2> QED
    BY <2>2, <2>3
<1> QED
  BY <1>2, <1>3, <1>4 DEF WaitsIInv

LEMMA StartEnterInv == ASSUME WaitsIInv, StartEnter PROVE WaitsIInv'
<1> USE DEF CoAt
<1>1. co \in Cos /\ wait \in WaitRecs /\ act \in Acts /\ frame \in Frames /\ run \in Runs
  BY PlaceTypes DEF WaitsIInv
<1> DEFINE cut == token[Scope] \/ wait'.state = "Expired"
           e == [Idle EXCEPT !.pc = "view"]
<1>2. /\ co.pc = "start" /\ co' = [co EXCEPT !.pc = "starting"]
      /\ IF ExpiryDue THEN wait' = [wait EXCEPT !.state = "Expired"] ELSE wait' = wait
      /\ token' = [token EXCEPT ![Start] = cut] /\ exec' = [exec EXCEPT ![Start] = e]
      /\ UNCHANGED <<run, rec, issued, headVars, act, frame>>
  BY DEF StartEnter, Expire, Goto, world
<1>3. /\ co' \in Cos /\ co'.pc = "starting"
      /\ \/ wait' = wait
         \/ /\ wait.state = "Open" /\ wait.kind # "timer" /\ ~wait.delivered
            /\ wait' \in WaitRecs /\ wait'.state = "Expired" /\ wait'.kind = wait.kind
            /\ wait'.confirmed = wait.confirmed /\ wait'.delivered = wait.delivered
  BY <1>1, <1>2 DEF Cos, WaitsPcs, WaitRecs, WaitStates, ExpiryDue
<1>4. e \in Execs /\ e.pc = "view"
  BY NodesIdleSteps DEF Pcs, Errors
<1>5. cut \in BOOLEAN
  BY TwoNodes DEF WaitsIInv, WaitsTypeInv, WaitsTypeOK, Scope
<1> HIDE DEF cut, e
<1>6. token' \in [Nodes -> BOOLEAN]
  BY <1>2, <1>5, TwoNodes DEF WaitsIInv, WaitsTypeInv, WaitsTypeOK
<1>7. /\ frame.state # "Succeeded" /\ ~frame.handler /\ run.state # "Waiting"
      /\ ~IsTerminal(run.state)
  BY <1>2 DEF WaitsIInv, CoInv, PlaceInv, BodyPcs, TryPcs
<1>8. WaitInv'
  BY <1>2, <1>3, <1>7 DEF WaitsIInv, WaitInv, WaitingIsWakeable, HandlerAfterClose
<1>9. PlaceInv'
  BY <1>2, <1>3, <1>7 DEF PlaceInv, BodyPcs, TryPcs, OutcomeIsEarned, IsTerminal
<1> QED
  BY <1>1, <1>2, <1>3, <1>4, <1>6, <1>8, <1>9, NodesIdle, TwoNodes, HandOver

LEMMA ExpireStartInv == ASSUME WaitsIInv, ExpireStart PROVE WaitsIInv'
<1> USE DEF CoAt
<1>1. co \in Cos /\ wait \in WaitRecs /\ act \in Acts /\ frame \in Frames /\ run \in Runs
  BY PlaceTypes DEF WaitsIInv
<1>2. /\ co.pc = "starting" /\ wait' = [wait EXCEPT !.state = "Expired"]
      /\ wait.state = "Open" /\ wait.kind # "timer" /\ ~wait.delivered
      /\ token' = [token EXCEPT ![Start] = TRUE]
      /\ UNCHANGED <<run, rec, exec, issued, headVars, co, act, frame>>
  BY DEF ExpireStart, ExpiryDue, Expire, world
<1>3. /\ wait' \in WaitRecs /\ wait'.state = "Expired" /\ wait'.kind = wait.kind
      /\ wait'.confirmed = wait.confirmed /\ wait'.delivered = wait.delivered
      /\ token' \in [Nodes -> BOOLEAN]
  BY <1>1, <1>2, TwoNodes DEF WaitRecs, WaitStates, WaitsIInv, WaitsTypeInv, WaitsTypeOK
<1>4. WaitsTypeInv'
  BY <1>2, <1>3 DEF WaitsIInv, WaitsTypeInv, WaitsTypeOK, WaitRecs
<1>5. CoInv'
  BY <1>2 DEF WaitsIInv, CoInv, CancelIsKept, headVars
<1>6. \A n \in Nodes : WaitsNodeInv(n)'
  BY <1>2 DEF WaitsIInv, WaitsNodeInv
<1>7. /\ frame.state # "Succeeded" /\ ~frame.handler /\ run.state # "Waiting"
      /\ ~IsTerminal(run.state)
  BY <1>2 DEF WaitsIInv, CoInv, PlaceInv, BodyPcs, TryPcs
<1>8. WaitInv'
  BY <1>2, <1>3, <1>7 DEF WaitsIInv, WaitInv, WaitingIsWakeable, HandlerAfterClose
<1>9. PlaceInv'
  BY <1>2, <1>3, <1>7 DEF PlaceInv, BodyPcs, TryPcs, OutcomeIsEarned, IsTerminal
<1> QED
  BY <1>4, <1>5, <1>6, <1>8, <1>9 DEF WaitsIInv

LEMMA StartDoneInv == ASSUME WaitsIInv, StartDone PROVE WaitsIInv'
<1> USE DEF CoAt
<1>1. co \in Cos /\ wait \in WaitRecs /\ act \in Acts /\ frame \in Frames /\ run \in Runs
  BY PlaceTypes DEF WaitsIInv
<1>2. exec[Start].result \in Errors /\ token \in [Nodes -> BOOLEAN]
  BY TwoNodes DEF WaitsIInv, WaitsTypeInv, WaitsTypeOK, Execs
<1>3. /\ co.pc = "starting" /\ exec[Start].pc = "done" /\ exec' = [exec EXCEPT ![Start] = Idle]
      /\ UNCHANGED <<run, rec, issued, token, headVars, waitVars>>
      /\ co' \in Cos
      /\ \/ co'.pc = "confirm" /\ exec[Start].result = "none"
         \/ co'.pc = "settle"
  BY <1>1, <1>2 DEF StartDone, Goto, Throw, Cos, WaitsPcs, WaitErrors, Errors, world
<1>4. Idle \in Execs /\ Idle.pc = "idle"
  BY NodesIdleSteps DEF Pcs, Errors
<1>5. exec[Start].result = "none" => rec[Start].state = "Succeeded"
  BY <1>3, TwoNodes DEF WaitsIInv, WaitsNodeInv
<1>6. /\ frame.state # "Succeeded" /\ ~frame.handler /\ run.state # "Succeeded"
  BY <1>3 DEF WaitsIInv, CoInv, PlaceInv, BodyPcs, TryPcs, IsTerminal
<1>7. WaitInv'
  BY <1>3 DEF WaitsIInv, WaitInv, WaitingIsWakeable, HandlerAfterClose, waitVars
<1>8. PlaceInv'
  BY <1>3, <1>5, <1>6 DEF PlaceInv, BodyPcs, TryPcs, OutcomeIsEarned, waitVars
<1> QED
  BY <1>1, <1>2, <1>3, <1>4, <1>7, <1>8, NodesIdle, TwoNodes, HandOver DEF waitVars

LEMMA SuspendInv == ASSUME WaitsIInv, Suspend PROVE WaitsIInv'
<1> USE DEF CoAt
<1>1. co \in Cos /\ wait \in WaitRecs /\ act \in Acts /\ frame \in Frames /\ run \in Runs
  BY PlaceTypes DEF WaitsIInv
<1>2. /\ co.pc = "suspend" /\ co' = NoCo /\ UNCHANGED <<rec, exec, issued, token, headVars, waitVars>>
      /\ run' = IF run.cancelRequested THEN run ELSE [run EXCEPT !.state = "Waiting"]
  BY DEF Suspend, world
<1>3. /\ run' \in Runs /\ run'.cancelRequested = run.cancelRequested
      /\ IF run.cancelRequested THEN run' = run ELSE run'.state = "Waiting"
  BY <1>1, <1>2 DEF Runs, RunStates
<1>4. co' \in Cos /\ co'.pc = "none"
  BY <1>2, TwoNodes DEF NoCo, Cos, WaitsPcs, WaitErrors, Errors, Start
<1>5. /\ frame.state # "Succeeded" /\ ~frame.handler /\ ~IsTerminal(run.state)
      /\ ~run.cancelRequested => wait.state = "Open" /\ wait.confirmed
  BY <1>2 DEF WaitsIInv, CoInv, PlaceInv, BodyPcs, TryPcs
<1>6. WaitsTypeInv'
  BY <1>2, <1>3, <1>4 DEF WaitsIInv, WaitsTypeInv, WaitsTypeOK, Cos, waitVars
<1>7. CoInv'
  BY <1>2, <1>3, <1>4 DEF WaitsIInv, CoInv, CancelIsKept
<1>8. ASSUME NEW n \in Nodes PROVE WaitsNodeInv(n)'
  BY <1>2, NodesIdle DEF WaitsIInv, WaitsNodeInv
<1>9. run.state # "Waiting"
  BY <1>2 DEF WaitsIInv, CoInv
<1>10. WaitInv'
  BY <1>2, <1>3, <1>5, <1>9 DEF WaitsIInv, WaitInv, WaitingIsWakeable, HandlerAfterClose, IsTerminal, waitVars
<1>11. PlaceInv'
  BY <1>2, <1>3, <1>4, <1>5 DEF PlaceInv, BodyPcs, TryPcs, OutcomeIsEarned, IsTerminal, waitVars
<1> QED
  BY <1>6, <1>7, <1>8, <1>10, <1>11 DEF WaitsIInv

LEMMA WaitStepInv == ASSUME WaitsIInv, WaitStep PROVE WaitsIInv'
  BY AwaitInv, ReserveInv, ReservedInv, StartEnterInv, ExpireStartInv, StartDoneInv,
     ConfirmStartInv, ConsumeQuietInv, ConsumeInv, SettleWaitInv, SuspendInv DEF WaitStep

LEMMA HandlerBodyInv == ASSUME WaitsIInv, HandlerBody PROVE WaitsIInv'
<1> USE DEF CoAt
<1>1. co \in Cos /\ wait \in WaitRecs /\ act \in Acts /\ frame \in Frames /\ run \in Runs
  BY PlaceTypes DEF WaitsIInv
<1>2. /\ co.pc = "handler" /\ UNCHANGED <<opVars, headVars, waitVars>>
      /\ co' \in Cos
      /\ \/ co'.pc = "save" /\ rec[Handler].state = "Succeeded"
         \/ co'.pc = "fail"
  <2>1. CASE rec[Handler].state = "Succeeded" /\ (Goto("save") \/ Throw("fail", "other"))
    BY <1>1, <2>1 DEF HandlerBody, Goto, Throw, Cos, WaitsPcs, WaitErrors, Errors
  <2>2. CASE \E error \in Refusals(rec[Handler]) : Throw("fail", error)
    <3>1. PICK error \in Refusals(rec[Handler]) : Throw("fail", error)
      BY <2>2
    <3>2. rec[Handler].error \in WaitErrors
      BY TwoNodes DEF WaitsIInv, WaitsTypeInv, WaitsTypeOK, Records, WaitErrors
    <3>3. error \in WaitErrors
      BY <3>1, <3>2, RefusalsMean
    <3> QED
      BY <1>1, <3>1, <3>3 DEF HandlerBody, Throw, Cos, WaitsPcs
  <2> QED
    BY <2>1, <2>2 DEF HandlerBody
<1>3. frame.handler /\ frame.state # "Succeeded"
  BY <1>2 DEF WaitsIInv, PlaceInv, TryPcs
<1>4. WaitInv'
  BY <1>2 DEF WaitsIInv, WaitInv, WaitingIsWakeable, HandlerAfterClose, opVars, waitVars
<1>5. PlaceInv'
  BY <1>2, <1>3 DEF WaitsIInv, PlaceInv, BodyPcs, TryPcs, OutcomeIsEarned, Earned, opVars, waitVars
<1> QED
  BY <1>1, <1>2, <1>4, <1>5, Walk DEF waitVars

LEMMA HandlerEnterInv == ASSUME WaitsIInv, HandlerEnter PROVE WaitsIInv'
<1> USE DEF CoAt
<1>1. co \in Cos /\ wait \in WaitRecs /\ act \in Acts /\ frame \in Frames /\ run \in Runs
  BY PlaceTypes DEF WaitsIInv
<1> DEFINE e == [Idle EXCEPT !.pc = "view"]
<1>2. /\ co.pc = "handler" /\ co' = [co EXCEPT !.pc = "handling"]
      /\ exec' = [exec EXCEPT ![Handler] = e]
      /\ UNCHANGED <<run, rec, issued, token, headVars, waitVars>>
  BY DEF HandlerEnter, Goto, world
<1>3. co' \in Cos /\ co'.pc = "handling"
  BY <1>1, <1>2 DEF Cos, WaitsPcs
<1>4. e \in Execs /\ e.pc = "view"
  BY NodesIdleSteps DEF Pcs, Errors
<1> HIDE DEF e
<1>5. token \in [Nodes -> BOOLEAN]
  BY DEF WaitsIInv, WaitsTypeInv, WaitsTypeOK
<1>6. frame.state # "Succeeded" /\ frame.handler /\ run.state # "Succeeded"
  BY <1>2 DEF WaitsIInv, CoInv, PlaceInv, TryPcs, IsTerminal
<1>7. WaitInv'
  BY <1>2 DEF WaitsIInv, WaitInv, WaitingIsWakeable, HandlerAfterClose, waitVars
<1>8. PlaceInv'
  BY <1>2, <1>3, <1>6 DEF PlaceInv, BodyPcs, TryPcs, OutcomeIsEarned, waitVars
<1> QED
  BY <1>1, <1>2, <1>3, <1>4, <1>5, <1>7, <1>8, NodesIdle, TwoNodes, HandOver DEF waitVars

LEMMA HandlerDoneInv == ASSUME WaitsIInv, HandlerDone PROVE WaitsIInv'
<1> USE DEF CoAt
<1>1. co \in Cos /\ wait \in WaitRecs /\ act \in Acts /\ frame \in Frames /\ run \in Runs
  BY PlaceTypes DEF WaitsIInv
<1>2. exec[Handler].result \in Errors /\ token \in [Nodes -> BOOLEAN]
  BY TwoNodes DEF WaitsIInv, WaitsTypeInv, WaitsTypeOK, Execs
<1>3. /\ co.pc = "handling" /\ exec[Handler].pc = "done"
      /\ exec' = [exec EXCEPT ![Handler] = Idle]
      /\ UNCHANGED <<run, rec, issued, token, headVars, waitVars>>
      /\ co' \in Cos
      /\ \/ co'.pc = "save" /\ exec[Handler].result = "none"
         \/ co'.pc = "fail"
  BY <1>1, <1>2 DEF HandlerDone, Goto, Throw, Cos, WaitsPcs, WaitErrors, Errors, world
<1>4. Idle \in Execs /\ Idle.pc = "idle"
  BY NodesIdleSteps DEF Pcs, Errors
<1>5. exec[Handler].result = "none" => rec[Handler].state = "Succeeded"
  BY <1>3, TwoNodes DEF WaitsIInv, WaitsNodeInv
<1>6. frame.state # "Succeeded" /\ frame.handler /\ run.state # "Succeeded"
  BY <1>3 DEF WaitsIInv, CoInv, PlaceInv, TryPcs, IsTerminal
<1>7. WaitInv'
  BY <1>3 DEF WaitsIInv, WaitInv, WaitingIsWakeable, HandlerAfterClose, waitVars
<1>8. PlaceInv'
  BY <1>3, <1>5, <1>6 DEF PlaceInv, BodyPcs, TryPcs, OutcomeIsEarned, Earned, waitVars
<1> QED
  BY <1>1, <1>2, <1>3, <1>4, <1>7, <1>8, NodesIdle, TwoNodes, HandOver DEF waitVars

LEMMA HandlerStepInv == ASSUME WaitsIInv, HandlerStep PROVE WaitsIInv'
  BY HandlerBodyInv, HandlerEnterInv, HandlerDoneInv DEF HandlerStep

-----------------------------------------------------------------------------
(* The head of the run *)

(* The reservation stays as it is, or is closed.                            *)
KeptOrClosed ==
    /\ wait' \in WaitRecs /\ wait'.kind = wait.kind
    /\ wait'.confirmed = wait.confirmed /\ wait'.delivered = wait.delivered
    /\ wait'.state # wait.state =>
          wait.state = "Open" /\ wait'.state = "Closed" /\ run'.state # "Waiting"

LEMMA ClosesMeans ==
    ASSUME wait \in WaitRecs, Closes
    PROVE  /\ KeptOrClosed /\ act' = act /\ frame' = frame
           /\ IsTerminal(run'.state) \/ run'.state = "Cancelling" => wait'.state # "Open"
  BY DEF Closes, Closed, KeptOrClosed, WaitRecs, WaitStates, IsTerminal

LEMMA ClosedStaysClosed == ASSUME wait \in WaitRecs, wait' = wait PROVE KeptOrClosed
  BY DEF KeptOrClosed

(* The run moves while no operation is at work and nothing is confirmed by  *)
(* it: a confirmed record stays confirmed, a failed one has its error.      *)
LEMMA HeadMoves ==
    ASSUME WaitsIInv, co.pc \in {"none", "error"}, co' \in Cos, co'.pc = "none",
           UNCHANGED <<exec, issued, act, frame>>, token' \in [Nodes -> BOOLEAN],
           rec' \in [Nodes -> Records],
           \A n \in Nodes :
              /\ rec[n].state = "Succeeded" => rec'[n].state = "Succeeded"
              /\ rec'[n].state \in {"RetryScheduled", "Failed", "Cancelled"}
                    => rec'[n].error # "none",
           run' \in Runs, run'.state # "Succeeded",
           run'.state = "Waiting" => run.state = "Waiting",
           CancelIsKept', KeptOrClosed, IsTerminal(run'.state) => wait'.state # "Open"
    PROVE  WaitsIInv'
<1>1. co \in Cos /\ wait \in WaitRecs /\ act \in Acts /\ frame \in Frames /\ run \in Runs
  BY PlaceTypes DEF WaitsIInv
<1>2. WaitsTypeInv'
  BY DEF WaitsIInv, WaitsTypeInv, WaitsTypeOK, Cos, WaitRecs, KeptOrClosed
<1>3. CoInv'
  BY DEF CoInv
<1>4. ASSUME NEW n \in Nodes PROVE WaitsNodeInv(n)'
  BY NodesIdle DEF WaitsNodeInv
<1>5. WaitInv'
  BY TwoNodes DEF WaitsIInv, WaitInv, WaitingIsWakeable, HandlerAfterClose, KeptOrClosed
<1>6. PlaceInv'
  BY TwoNodes DEF WaitsIInv, PlaceInv, BodyPcs, TryPcs, OutcomeIsEarned, Earned
<1> QED
  BY <1>2, <1>3, <1>4, <1>5, <1>6 DEF WaitsIInv

LEMMA WaitsBeginInv == ASSUME WaitsIInv, Begin("try"), UNCHANGED waitVars PROVE WaitsIInv'
<1> USE DEF CoAt
<1>1. co \in Cos /\ wait \in WaitRecs /\ act \in Acts /\ frame \in Frames /\ run \in Runs
  BY PlaceTypes DEF WaitsIInv
<1>2. /\ co.pc = "begin" /\ co' = [co EXCEPT !.pc = "try"]
      /\ run' = IF IsTerminal(run.state) \/ run.cancelRequested THEN run
                ELSE [run EXCEPT !.state = "Running"]
      /\ UNCHANGED <<rec, exec, issued, token, headVars>>
  BY DEF Begin, world
<1>3. co' \in Cos /\ co'.pc = "try"
  BY <1>1, <1>2 DEF Cos, WaitsPcs
<1>4. ~IsTerminal(run.state) /\ run.state # "Blocked"
  BY <1>2 DEF WaitsIInv, CoInv
<1>5. /\ run' \in Runs /\ run'.cancelRequested = run.cancelRequested
      /\ IF run.cancelRequested THEN run' = run ELSE run'.state = "Running"
  BY <1>1, <1>2, <1>4 DEF Runs, RunStates
<1>6. WaitsTypeInv'
  BY <1>2, <1>3, <1>5 DEF WaitsIInv, WaitsTypeInv, WaitsTypeOK, Cos, waitVars
<1>7. CoInv'
  BY <1>2, <1>3, <1>4, <1>5 DEF WaitsIInv, CoInv, CancelIsKept, headVars, IsTerminal
<1>8. ASSUME NEW n \in Nodes PROVE WaitsNodeInv(n)'
  BY <1>2, NodesIdle DEF WaitsIInv, WaitsNodeInv
<1>9. WaitInv'
  BY <1>2, <1>5 DEF WaitsIInv, WaitInv, WaitingIsWakeable, HandlerAfterClose, IsTerminal, waitVars
<1>10. PlaceInv'
  BY <1>2, <1>3, <1>4, <1>5
  DEF WaitsIInv, PlaceInv, BodyPcs, TryPcs, OutcomeIsEarned, Earned, IsTerminal, waitVars
<1> QED
  BY <1>6, <1>7, <1>8, <1>9, <1>10 DEF WaitsIInv

LEMMA WaitsCheckOutputInv == ASSUME WaitsIInv, CheckOutput, UNCHANGED waitVars PROVE WaitsIInv'
<1> USE DEF CoAt
<1>1. co \in Cos /\ wait \in WaitRecs /\ act \in Acts /\ frame \in Frames /\ run \in Runs
  BY PlaceTypes DEF WaitsIInv
<1>2. /\ co.pc = "output" /\ UNCHANGED <<opVars, headVars, waitVars>>
      /\ co' \in Cos
      /\ \/ co'.pc = "error"
         \/ co'.pc = "commit" /\ \A n \in Nodes : ~IsUnresolved(rec[n])
  BY <1>1 DEF CheckOutput, Raise, Cos, WaitsPcs, WaitErrors, Errors
<1>3. WaitInv'
  BY <1>2 DEF WaitsIInv, WaitInv, WaitingIsWakeable, HandlerAfterClose, opVars, waitVars
<1>4. PlaceInv'
  BY <1>2 DEF WaitsIInv, PlaceInv, BodyPcs, TryPcs, OutcomeIsEarned, Earned, opVars, waitVars
<1> QED
  BY <1>1, <1>2, <1>3, <1>4, Walk DEF waitVars

LEMMA WaitsFinalCommitInv == ASSUME WaitsIInv, FinalCommit, Closes PROVE WaitsIInv'
<1> USE DEF CoAt
<1>1. co \in Cos /\ wait \in WaitRecs /\ act \in Acts /\ frame \in Frames /\ run \in Runs
  BY PlaceTypes DEF WaitsIInv
<1>2. /\ co.pc = "commit" /\ co' = NoCo /\ UNCHANGED <<rec, exec, issued, token, headVars>>
  BY DEF FinalCommit, world
<1>3. co' \in Cos /\ co'.pc = "none"
  BY <1>2, TwoNodes DEF NoCo, Cos, WaitsPcs, WaitErrors, Errors, Start
<1>4. ~IsTerminal(run.state)
  BY <1>2 DEF WaitsIInv, CoInv
<1>5. /\ run' \in Runs /\ run'.cancelRequested = run.cancelRequested
      /\ IsTerminal(run'.state)
      /\ run'.state = "Succeeded" => ~run.cancelRequested
  BY ZenonT(60), <1>1, <1>4 DEF FinalCommit, CancelSeen, Runs, RunStates, RunErrors, IsTerminal
<1>6. KeptOrClosed /\ act' = act /\ frame' = frame /\ wait'.state # "Open"
  BY <1>1, <1>5, ClosesMeans
<1>7. WaitsTypeInv'
  BY <1>2, <1>3, <1>5, <1>6 DEF WaitsIInv, WaitsTypeInv, WaitsTypeOK, Cos, WaitRecs, KeptOrClosed
<1>8. CoInv'
  BY <1>2, <1>3, <1>5 DEF CoInv, CancelIsKept, IsTerminal
<1>9. ASSUME NEW n \in Nodes PROVE WaitsNodeInv(n)'
  BY <1>2, NodesIdle DEF WaitsIInv, WaitsNodeInv
<1>10. WaitInv'
  BY <1>2, <1>5, <1>6
  DEF WaitsIInv, WaitInv, WaitingIsWakeable, HandlerAfterClose, KeptOrClosed, IsTerminal
<1>11. /\ frame.state = "Succeeded" /\ Earned /\ \A n \in Nodes : ~IsUnresolved(rec[n])
  BY <1>2 DEF WaitsIInv, PlaceInv
<1>12. PlaceInv'
  BY <1>2, <1>3, <1>6, <1>11 DEF PlaceInv, BodyPcs, TryPcs, OutcomeIsEarned, Earned
<1> QED
  BY <1>7, <1>8, <1>9, <1>10, <1>12 DEF WaitsIInv

LEMMA WaitsFinishErrorInv == ASSUME WaitsIInv, FinishError, Closes PROVE WaitsIInv'
<1> USE DEF CoAt
<1>1. co \in Cos /\ wait \in WaitRecs /\ act \in Acts /\ frame \in Frames /\ run \in Runs
  BY PlaceTypes DEF WaitsIInv
<1>2. co.pc = "error" /\ ~IsTerminal(run.state)
  BY DEF FinishError, WaitsIInv, CoInv
<1>3. /\ co' = NoCo /\ UNCHANGED <<exec, issued, token, headVars>>
      /\ rec' = [n \in Nodes |-> Suspected(rec[n])]
  BY <1>2 DEF FinishError, world
<1>4. /\ run' \in Runs /\ run'.cancelRequested = run.cancelRequested
      /\ run'.state \in {"Blocked", "Cancelled", "Failed"}
  BY <1>1, <1>2 DEF FinishError, Runs, RunStates, RunErrors
<1>5. co' \in Cos /\ co'.pc = "none"
  BY <1>3, TwoNodes DEF NoCo, Cos, WaitsPcs, WaitErrors, Errors, Start
<1>6. ASSUME NEW n \in Nodes
      PROVE  /\ Suspected(rec[n]) \in Records
             /\ rec[n].state = "Succeeded" => Suspected(rec[n]).state = "Succeeded"
             /\ Suspected(rec[n]).state \in {"RetryScheduled", "Failed", "Cancelled"}
                   => Suspected(rec[n]).error # "none"
  <2>1. rec[n] \in Records /\ LocalInv(n)
    BY NodesIdle DEF WaitsIInv, WaitsTypeInv, WaitsTypeOK
  <2> QED
    BY <2>1 DEF Suspected, Records, RecordStates, LocalInv
<1>7. rec' \in [Nodes -> Records] /\ \A n \in Nodes : rec'[n] = Suspected(rec[n])
  BY <1>3, <1>6
<1>8. KeptOrClosed /\ act' = act /\ frame' = frame /\ (IsTerminal(run'.state) => wait'.state # "Open")
  BY <1>1, ClosesMeans
<1>9. CancelIsKept'
  BY <1>4 DEF CancelIsKept
<1>10. token' \in [Nodes -> BOOLEAN]
  BY <1>3 DEF WaitsIInv, WaitsTypeInv, WaitsTypeOK
<1> QED
  BY <1>2, <1>3, <1>4, <1>5, <1>6, <1>7, <1>8, <1>9, <1>10, HeadMoves

LEMMA WaitsSpawnInv == ASSUME WaitsIInv, Spawn(Due), UNCHANGED waitVars PROVE WaitsIInv'
<1> USE DEF CoAt
<1>1. co \in Cos /\ wait \in WaitRecs /\ act \in Acts /\ frame \in Frames /\ run \in Runs
  BY PlaceTypes DEF WaitsIInv
<1>2. /\ co.pc = "none" /\ co' = [NoCo EXCEPT !.pc = "begin"]
      /\ phase \in {"ready", "stopping"}
      /\ run.state \in {"Accepted", "Running", "Cancelling", "Waiting"}
      /\ token' = [n \in Nodes |-> phase = "stopping"]
      /\ UNCHANGED <<run, rec, exec, issued, headVars>>
  BY DEF Spawn, Runnable, world
<1>3. co' \in Cos /\ co'.pc = "begin"
  BY <1>2, TwoNodes DEF NoCo, Cos, WaitsPcs, WaitErrors, Errors, Start
<1>4. WaitsTypeInv'
  BY <1>2, <1>3 DEF WaitsIInv, WaitsTypeInv, WaitsTypeOK, Cos, waitVars
<1>5. CoInv'
  BY <1>2, <1>3 DEF WaitsIInv, CoInv, CancelIsKept, headVars, IsTerminal
<1>6. ASSUME NEW n \in Nodes PROVE WaitsNodeInv(n)'
  BY <1>2, NodesIdle DEF WaitsIInv, WaitsNodeInv
<1>7. WaitInv'
  BY <1>2 DEF WaitsIInv, WaitInv, WaitingIsWakeable, HandlerAfterClose, waitVars
<1>8. PlaceInv'
  BY <1>2, <1>3 DEF WaitsIInv, PlaceInv, BodyPcs, TryPcs, OutcomeIsEarned, Earned, waitVars
<1> QED
  BY <1>4, <1>5, <1>6, <1>7, <1>8 DEF WaitsIInv

LEMMA WaitsUnavailableInv ==
    ASSUME WaitsIInv, co.pc = "none", ~IsTerminal(run.state), MarkUnavailable,
           UNCHANGED <<rec, exec, issued, token, co, waitVars>>
    PROVE  WaitsIInv'
<1>1. co \in Cos /\ wait \in WaitRecs /\ act \in Acts /\ frame \in Frames /\ run \in Runs
  BY PlaceTypes DEF WaitsIInv
<1>2. /\ run' \in Runs /\ run'.cancelRequested = run.cancelRequested /\ run'.state = "Blocked"
  BY <1>1 DEF MarkUnavailable, Runs, RunStates, RunErrors
<1>3. KeptOrClosed
  BY <1>1, ClosedStaysClosed DEF waitVars
<1>4. CancelIsKept'
  BY <1>2 DEF CancelIsKept
<1>5. rec' \in [Nodes -> Records] /\ token' \in [Nodes -> BOOLEAN]
  BY DEF WaitsIInv, WaitsTypeInv, WaitsTypeOK
<1>6. \A n \in Nodes : LocalInv(n)
  BY NodesIdle
<1> QED
  BY <1>1, <1>2, <1>3, <1>4, <1>5, <1>6, HeadMoves DEF LocalInv, IsTerminal, waitVars

LEMMA SpawnUnavailableInv == ASSUME WaitsIInv, SpawnUnavailable(Due), UNCHANGED waitVars PROVE WaitsIInv'
  BY WaitsUnavailableInv DEF SpawnUnavailable, Runnable, CoAt, IsTerminal, world

(* Nothing that the invariant speaks of moves, or only forward.             *)
LEMMA Quiet ==
    ASSUME WaitsIInv, UNCHANGED <<run, rec, exec, issued, co, wait, act, frame>>,
           token' \in [Nodes -> BOOLEAN], expired => expired',
           token[Scope] => token'[Scope],
           co.pc # "none" => phase' \in {"ready", "stopping"}
    PROVE  WaitsIInv'
<1>1. WaitsTypeInv'
  BY DEF WaitsIInv, WaitsTypeInv, WaitsTypeOK
<1>2. CoInv'
  BY DEF WaitsIInv, CoInv, CancelIsKept
<1>3. \A n \in Nodes : WaitsNodeInv(n)'
  BY DEF WaitsIInv, WaitsNodeInv
<1>4. WaitInv'
  BY DEF WaitsIInv, WaitInv, WaitingIsWakeable, HandlerAfterClose
<1>5. PlaceInv'
  <2>1. ScopeCancelled => ScopeCancelled'
    BY DEF ScopeCancelled, CancelSeen
  <2> QED
    BY <2>1 DEF WaitsIInv, PlaceInv, OutcomeIsEarned, Earned
<1> QED
  BY <1>1, <1>2, <1>3, <1>4, <1>5 DEF WaitsIInv

LEMMA QuietStepsInv ==
    ASSUME WaitsIInv, UNCHANGED <<co, wait, act, frame>>,
           \/ UNCHANGED opVars /\ (UNCHANGED headVars \/ Boot \/ BootReady)
           \/ UNCHANGED headVars /\ (WorldStep \/ \E call \in late : LateEnds(call))
           \/ CancelToken \/ ForceShutdown
    PROVE  WaitsIInv'
<1>1. token \in [Nodes -> BOOLEAN] /\ (co.pc # "none" => phase \in {"ready", "stopping"})
  BY DEF WaitsIInv, WaitsTypeInv, WaitsTypeOK, CoInv
<1>2. CASE UNCHANGED opVars /\ (UNCHANGED headVars \/ Boot \/ BootReady)
  <2>1. UNCHANGED <<run, rec, exec, issued, token, expired>>
    BY <1>2 DEF opVars
  <2>2. co.pc # "none" => phase' \in {"ready", "stopping"}
    BY <1>1, <1>2 DEF Boot, BootReady, headVars
  <2> QED
    BY <1>1, <2>1, <2>2, Quiet
<1>3. CASE UNCHANGED headVars /\ (WorldStep \/ \E call \in late : LateEnds(call))
  <2>1. UNCHANGED <<run, rec, exec, issued, token>> /\ (expired => expired')
    BY <1>3 DEF WorldStep, EffectHappens, EffectLost, DeadlinePasses, LateEnds, world
  <2> QED
    BY <1>1, <1>3, <2>1, Quiet DEF headVars
<1>4. CASE CancelToken \/ ForceShutdown
  <2>1. UNCHANGED <<run, rec, exec, issued, expired>> /\ token' = [n \in Nodes |-> TRUE]
    BY <1>4 DEF CancelToken, ForceShutdown, world
  <2>2. token' \in [Nodes -> BOOLEAN] /\ token'[Scope]
    BY <2>1, TwoNodes DEF Scope
  <2>3. co.pc # "none" => phase' \in {"ready", "stopping"}
    BY <1>1, <1>4 DEF CancelToken, ForceShutdown
  <2> QED
    BY <2>1, <2>2, <2>3, Quiet
<1> QED
  BY <1>2, <1>3, <1>4

LEMMA SignalInv == ASSUME WaitsIInv, Signal PROVE WaitsIInv'
<1>1. co \in Cos /\ wait \in WaitRecs /\ act \in Acts /\ frame \in Frames /\ run \in Runs
  BY PlaceTypes DEF WaitsIInv
<1>2. /\ wait.kind # "timer" /\ wait.state = "Open" /\ wait' = [wait EXCEPT !.delivered = TRUE]
      /\ ~IsTerminal(run.state) /\ ~run.cancelRequested
      /\ run' = IF run.state = "Waiting" THEN [run EXCEPT !.state = "Running"] ELSE run
      /\ UNCHANGED <<rec, exec, issued, token, expired, headVars, co, act, frame>>
  BY DEF Signal, Unfinished, world
<1>3. /\ wait' \in WaitRecs /\ wait'.kind = wait.kind /\ wait'.state = "Open"
      /\ wait'.confirmed = wait.confirmed /\ wait'.delivered
  BY <1>1, <1>2 DEF WaitRecs
<1>4. /\ run' \in Runs /\ run'.cancelRequested = run.cancelRequested
      /\ run'.state = IF run.state = "Waiting" THEN "Running" ELSE run.state
  BY <1>1, <1>2 DEF Runs, RunStates
<1>5. WaitsTypeInv'
  BY <1>2, <1>3, <1>4 DEF WaitsIInv, WaitsTypeInv, WaitsTypeOK, WaitRecs
<1>6. CoInv'
  BY <1>2, <1>4 DEF WaitsIInv, CoInv, CancelIsKept, headVars, IsTerminal
<1>7. \A n \in Nodes : WaitsNodeInv(n)'
  BY <1>2 DEF WaitsIInv, WaitsNodeInv
<1>8. WaitInv'
  BY <1>2, <1>3, <1>4 DEF WaitsIInv, WaitInv, WaitingIsWakeable, HandlerAfterClose, IsTerminal
<1>9. PlaceInv'
  <2>1. ScopeCancelled => ScopeCancelled'
    BY <1>2, <1>4 DEF ScopeCancelled, CancelSeen
  <2> QED
    BY <1>2, <1>3, <1>4, <2>1 DEF WaitsIInv, PlaceInv, OutcomeIsEarned, Earned, IsTerminal
<1> QED
  BY <1>5, <1>6, <1>7, <1>8, <1>9 DEF WaitsIInv

-----------------------------------------------------------------------------
(* Commands, crashes and boots *)

LEMMA WaitsCancelInv == ASSUME WaitsIInv, Cancel, Closes, UNCHANGED co PROVE WaitsIInv'
<1>1. co \in Cos /\ wait \in WaitRecs /\ act \in Acts /\ frame \in Frames /\ run \in Runs
  BY PlaceTypes DEF WaitsIInv
<1>2. /\ run' = [run EXCEPT !.cancelRequested = TRUE, !.state = "Cancelling"]
      /\ UNCHANGED <<rec, exec, issued, token, expired, phase, co>>
  BY DEF Cancel, world
<1>3. run' \in Runs /\ run'.cancelRequested /\ run'.state = "Cancelling"
  BY <1>1, <1>2 DEF Runs, RunStates
<1>4. KeptOrClosed /\ act' = act /\ frame' = frame /\ wait'.state # "Open"
  BY <1>1, <1>3, ClosesMeans
<1>5. WaitsTypeInv'
  BY <1>2, <1>3, <1>4 DEF WaitsIInv, WaitsTypeInv, WaitsTypeOK, KeptOrClosed, WaitRecs
<1>6. CoInv'
  BY <1>2, <1>3 DEF WaitsIInv, CoInv, CancelIsKept, IsTerminal
<1>7. \A n \in Nodes : WaitsNodeInv(n)'
  BY <1>2 DEF WaitsIInv, WaitsNodeInv
<1>8. WaitInv'
  BY <1>2, <1>3, <1>4
  DEF WaitsIInv, WaitInv, WaitingIsWakeable, HandlerAfterClose, KeptOrClosed, IsTerminal
<1>9. PlaceInv'
  BY <1>2, <1>3, <1>4 DEF WaitsIInv, PlaceInv, OutcomeIsEarned, Earned
<1> QED
  BY <1>5, <1>6, <1>7, <1>8, <1>9 DEF WaitsIInv

(* reconcile replaces the record of an unknown effect of a blocked run.     *)
LEMMA ResolveInv ==
    ASSUME WaitsIInv, NEW n \in Nodes, Resolvable(n), NEW r \in Records, Resolve(n, r),
           r.state \in {"RetryScheduled", "Failed", "Cancelled"} => r.error # "none",
           Closes, UNCHANGED co
    PROVE  WaitsIInv'
<1>1. co \in Cos /\ wait \in WaitRecs /\ act \in Acts /\ frame \in Frames /\ run \in Runs
  BY PlaceTypes DEF WaitsIInv
<1>2. /\ run.state = "Blocked" /\ rec[n].state = "Unknown" /\ rec' = [rec EXCEPT ![n] = r]
      /\ run' = Unblocked(rec') /\ UNCHANGED <<exec, issued, token, co>>
  BY DEF Resolvable, Resolve, world
<1>3. co.pc = "none"
  BY <1>2 DEF WaitsIInv, CoInv
<1>4. /\ run' \in Runs /\ run'.cancelRequested = run.cancelRequested
      /\ run'.state = "Blocked" \/ run'.state = IF run.cancelRequested THEN "Cancelling" ELSE "Accepted"
  <2>1. run' = run \/ run' = [run EXCEPT !.state = IF run.cancelRequested THEN "Cancelling"
                                                   ELSE "Accepted", !.error = "none"]
    BY <1>2 DEF Unblocked
  <2> QED
    BY <1>1, <1>2, <2>1 DEF Runs, RunStates, RunErrors
<1>5. KeptOrClosed /\ act' = act /\ frame' = frame
  BY <1>1, ClosesMeans
<1>6. CancelIsKept'
  BY <1>4 DEF CancelIsKept
<1>7. rec' \in [Nodes -> Records] /\ rec'[n] = r /\ \A m \in Nodes \ {n} : rec'[m] = rec[m]
  BY <1>2 DEF WaitsIInv, WaitsTypeInv, WaitsTypeOK
<1>8. \A m \in Nodes : LocalInv(m)
  BY NodesIdle
<1>9. ASSUME NEW m \in Nodes
      PROVE  /\ rec[m].state = "Succeeded" => rec'[m].state = "Succeeded"
             /\ rec'[m].state \in {"RetryScheduled", "Failed", "Cancelled"} => rec'[m].error # "none"
  BY <1>2, <1>7, <1>8 DEF LocalInv
<1>10. token' \in [Nodes -> BOOLEAN]
  BY <1>2 DEF WaitsIInv, WaitsTypeInv, WaitsTypeOK
<1> QED
  BY <1>1, <1>2, <1>3, <1>4, <1>5, <1>6, <1>7, <1>9, <1>10, HeadMoves DEF IsTerminal

LEMMA WaitsConfirmAppliedInv ==
    ASSUME WaitsIInv, NEW n \in Nodes, ConfirmApplied(n), Closes, UNCHANGED co PROVE WaitsIInv'
<1>1. PICK validOutput \in BOOLEAN :
          Resolve(n, [rec[n] EXCEPT
              !.certainty = "Applied",
              !.state = IF validOutput THEN "Succeeded" ELSE "Unknown",
              !.error = IF validOutput THEN "none" ELSE "other"])
  BY DEF ConfirmApplied
<1> DEFINE old == rec[n]
           r == [old EXCEPT !.certainty = "Applied",
                            !.state = IF validOutput THEN "Succeeded" ELSE "Unknown",
                            !.error = IF validOutput THEN "none" ELSE "other"]
<1>2. Resolvable(n) /\ Resolve(n, r)
  BY <1>1 DEF ConfirmApplied
<1>3. old \in Records
  BY DEF WaitsIInv, WaitsTypeInv, WaitsTypeOK
<1> HIDE DEF old
<1>4. r \in Records /\ r.state \in {"Succeeded", "Unknown"}
  BY <1>3 DEF Records, RecordStates, Certainties, Errors
<1> HIDE DEF r
<1> QED
  BY <1>2, <1>4, ResolveInv

LEMMA WaitsConfirmNotAppliedInv ==
    ASSUME WaitsIInv, NEW n \in Nodes, ConfirmNotApplied(n), Closes, UNCHANGED co PROVE WaitsIInv'
<1>1. PICK retry \in BOOLEAN :
         LET again == /\ retry
                      /\ rec[n].attempts < MaxAttempts[n]
                      /\ ~expired
                      /\ ~run.cancelRequested
         IN  Resolve(n, [rec[n] EXCEPT
                 !.certainty = "NotApplied",
                 !.state = IF again THEN "Pending" ELSE "Failed",
                 !.error = IF again THEN "none" ELSE "other"])
  BY DEF ConfirmNotApplied
<1> DEFINE old == rec[n]
           again == /\ retry
                    /\ rec[n].attempts < MaxAttempts[n]
                    /\ ~expired
                    /\ ~run.cancelRequested
           r == [old EXCEPT !.certainty = "NotApplied",
                            !.state = IF again THEN "Pending" ELSE "Failed",
                            !.error = IF again THEN "none" ELSE "other"]
<1>2. Resolvable(n) /\ Resolve(n, r)
  BY <1>1 DEF ConfirmNotApplied
<1>3. old \in Records
  BY DEF WaitsIInv, WaitsTypeInv, WaitsTypeOK
<1> HIDE DEF old, again
<1>4. r \in Records /\ r.state \in {"Pending", "Failed"} /\ (r.state = "Failed" => r.error # "none")
  BY <1>3 DEF Records, RecordStates, Certainties, Errors
<1> HIDE DEF r
<1> QED
  BY <1>2, <1>4, ResolveInv

LEMMA WaitsStopTrackingInv ==
    ASSUME WaitsIInv, NEW n \in Nodes, StopTracking(n), Closes, UNCHANGED co PROVE WaitsIInv'
<1>1. co \in Cos /\ wait \in WaitRecs /\ act \in Acts /\ frame \in Frames /\ run \in Runs
  BY PlaceTypes DEF WaitsIInv
<1> DEFINE left == {m \in Nodes : rec[m].state = "Unknown"}
<1>2. /\ run.state = "Blocked" /\ UNCHANGED <<rec, exec, issued, token, co>>
      /\ run' = [run EXCEPT !.state = IF run.cancelRequested THEN "Cancelled" ELSE "Failed",
                            !.error = "unresolved", !.unresolved = left]
  BY DEF StopTracking, Resolvable, world
<1>3. left \subseteq Nodes
  OBVIOUS
<1> HIDE DEF left
<1>4. /\ run' \in Runs /\ run'.cancelRequested = run.cancelRequested
      /\ run'.state \in {"Cancelled", "Failed"}
  BY <1>1, <1>2, <1>3 DEF Runs, RunStates, RunErrors
<1>5. co.pc = "none"
  BY <1>2 DEF WaitsIInv, CoInv
<1>6. KeptOrClosed /\ act' = act /\ frame' = frame /\ wait'.state # "Open"
  BY <1>1, <1>4, ClosesMeans DEF IsTerminal
<1>7. CancelIsKept'
  BY <1>4 DEF CancelIsKept
<1>8. rec' \in [Nodes -> Records] /\ token' \in [Nodes -> BOOLEAN]
  BY <1>2 DEF WaitsIInv, WaitsTypeInv, WaitsTypeOK
<1>9. \A m \in Nodes : LocalInv(m)
  BY NodesIdle
<1> QED
  BY <1>1, <1>2, <1>4, <1>5, <1>6, <1>7, <1>8, <1>9, HeadMoves DEF LocalInv

LEMMA CommandStepInv == ASSUME WaitsIInv, CommandStep, Closes, UNCHANGED co PROVE WaitsIInv'
  BY WaitsCancelInv, WaitsConfirmAppliedInv, WaitsConfirmNotAppliedInv, WaitsStopTrackingInv DEF CommandStep

LEMMA WaitsCrashInv == ASSUME WaitsIInv, Crash, co' = NoCo, UNCHANGED waitVars PROVE WaitsIInv'
<1>1. co \in Cos /\ wait \in WaitRecs /\ act \in Acts /\ frame \in Frames /\ run \in Runs
  BY PlaceTypes DEF WaitsIInv
<1>2. /\ exec' = [n \in Nodes |-> Idle] /\ token' = [n \in Nodes |-> FALSE]
      /\ UNCHANGED <<run, rec, issued, wait, act, frame>>
  BY DEF Crash, world, waitVars
<1>3. co' \in Cos /\ co'.pc = "none"
  BY TwoNodes DEF NoCo, Cos, WaitsPcs, WaitErrors, Errors, Start
<1>4. Idle \in Execs /\ Idle.pc = "idle"
  BY NodesIdleSteps DEF Pcs, Errors
<1>5. exec' \in [Nodes -> Execs] /\ \A n \in Nodes : exec'[n].pc = "idle"
  BY <1>2, <1>4
<1>6. WaitsTypeInv'
  BY <1>2, <1>3, <1>5 DEF WaitsIInv, WaitsTypeInv, WaitsTypeOK, Cos
<1>7. CoInv'
  BY <1>2, <1>3 DEF WaitsIInv, CoInv, CancelIsKept
<1>8. ASSUME NEW n \in Nodes PROVE WaitsNodeInv(n)'
  BY <1>2, <1>5 DEF WaitsIInv, WaitsNodeInv
<1>9. WaitInv'
  BY <1>2 DEF WaitsIInv, WaitInv, WaitingIsWakeable, HandlerAfterClose
<1>10. PlaceInv'
  BY <1>2, <1>3 DEF WaitsIInv, PlaceInv, BodyPcs, TryPcs, OutcomeIsEarned, Earned
<1> QED
  BY <1>6, <1>7, <1>8, <1>9, <1>10 DEF WaitsIInv

LEMMA BootStepInv ==
    ASSUME OperationsAssumption, WaitsIInv, BootStep, UNCHANGED <<co, waitVars>> PROVE WaitsIInv'
<1>1. co \in Cos /\ wait \in WaitRecs /\ act \in Acts /\ frame \in Frames /\ run \in Runs
  BY PlaceTypes DEF WaitsIInv
<1>2. co.pc = "none"
  BY DEF BootStep, BootUnblock, BootClassify, BootUnavailable, BootReady, WaitsIInv, CoInv
<1>3. KeptOrClosed /\ UNCHANGED <<act, frame>>
  BY <1>1, ClosedStaysClosed DEF waitVars
<1>4. \A n \in Nodes : LocalInv(n)
  BY NodesIdle
<1>5. rec \in [Nodes -> Records] /\ token \in [Nodes -> BOOLEAN]
  BY DEF WaitsIInv, WaitsTypeInv, WaitsTypeOK
<1>6. CASE BootUnblock
  <2>1. /\ run' \in Runs /\ run'.cancelRequested = run.cancelRequested
        /\ run'.state = IF run.cancelRequested THEN "Cancelling" ELSE "Running"
        /\ UNCHANGED <<rec, exec, issued, token>>
    BY <1>1, <1>6 DEF BootUnblock, Runs, RunStates, RunErrors, world
  <2>2. CancelIsKept'
    BY <2>1 DEF CancelIsKept
  <2> QED
    BY <1>1, <1>2, <1>3, <1>4, <1>5, <2>1, <2>2, HeadMoves DEF LocalInv, IsTerminal
<1>7. CASE \E n \in Nodes : BootClassify(n)
  <2>1. PICK n \in Nodes : BootClassify(n)
    BY <1>7
  <2>2. /\ rec[n].state = "Running" /\ ~IsTerminal(run.state)
        /\ UNCHANGED <<run, exec, issued, token>>
        /\ \/ rec' = rec
           \/ \E fits \in BOOLEAN :
                 rec' = [rec EXCEPT ![n] = Classified(n, "transient", LostCertainty(n), FALSE,
                                                      run.cancelRequested, fits)]
    BY <2>1 DEF BootClassify, RecordFailure, Unfinished, world
  <2>3. "transient" \in Errors /\ LostCertainty(n) \in Certainties /\ run.cancelRequested \in BOOLEAN
    BY <1>1 DEF Errors, LostCertainty, Certainties, Runs
  <2>4. Failing(n, "transient")
    BY <2>2, <2>3, FailureMeans DEF WaitsIInv
  <2>5. rec' \in [Nodes -> Records]
    BY <2>4 DEF Failing
  <2>6. ASSUME NEW m \in Nodes
        PROVE  /\ rec[m].state = "Succeeded" => rec'[m].state = "Succeeded"
               /\ rec'[m].state \in {"RetryScheduled", "Failed", "Cancelled"} => rec'[m].error # "none"
    BY <1>4, <2>2, <2>4 DEF Failing, LocalInv
  <2>7. CancelIsKept' /\ run.state # "Succeeded" /\ IsTerminal(run'.state) = IsTerminal(run.state)
    BY <2>2 DEF WaitsIInv, CoInv, CancelIsKept, IsTerminal
  <2> QED
    BY <1>1, <1>2, <1>3, <1>5, <2>2, <2>5, <2>6, <2>7, HeadMoves
<1>8. CASE BootUnavailable
  BY <1>2, <1>8, WaitsUnavailableInv DEF BootUnavailable, Unfinished, world
<1>9. CASE BootReady
  BY <1>9, QuietStepsInv DEF BootReady, waitVars
<1> QED
  BY <1>6, <1>7, <1>8, <1>9 DEF BootStep

-----------------------------------------------------------------------------
(* Every behaviour *)

LEMMA WaitsInitInv == ASSUME OperationsAssumption, WaitsInit PROVE WaitsIInv
<1>1. Idle \in Execs /\ Idle.pc = "idle" /\ Idle.result = "none" /\ NoRecord \in Records
  BY NodesIdleSteps DEF Pcs, Errors, NoRecord, Records, RecordStates, Certainties
<1>2. /\ rec \in [Nodes -> Records] /\ exec \in [Nodes -> Execs]
      /\ token \in [Nodes -> BOOLEAN] /\ issued \in [Nodes -> Nat]
      /\ \A n \in Nodes : rec[n].state = "Absent" /\ exec[n].pc = "idle"
  BY <1>1 DEF WaitsInit, OperationsInit, NoRecord
<1>3. run \in Runs /\ run.state = "Accepted" /\ ~run.cancelRequested
  BY DEF WaitsInit, OperationsInit, Runs, RunStates, RunErrors
<1>4. co \in Cos /\ co.pc = "none"
  BY TwoNodes DEF WaitsInit, NoCo, Cos, WaitsPcs, WaitErrors, Errors, Start
<1>5. /\ wait \in WaitRecs /\ wait.state = "None" /\ ~wait.confirmed /\ ~wait.delivered
      /\ act \in Acts /\ act.state = "Absent"
      /\ frame \in Frames /\ frame.state = "Absent" /\ ~frame.handler
  <2>1. PICK kind \in Kinds : wait = NoWait(kind)
    BY DEF WaitsInit
  <2>2. wait \in WaitRecs /\ wait.state = "None" /\ ~wait.confirmed /\ ~wait.delivered
    BY <2>1 DEF NoWait, WaitRecs, WaitStates
  <2>3. act \in Acts /\ act.state = "Absent"
    BY DEF WaitsInit, Acts, Activations, WaitErrors, Errors
  <2>4. frame \in Frames /\ frame.state = "Absent" /\ ~frame.handler
    BY DEF WaitsInit, Frames, Activations, WaitErrors, Errors
  <2> QED
    BY <2>2, <2>3, <2>4
<1>6. WaitsTypeInv
  BY <1>2, <1>3, <1>4, <1>5 DEF WaitsTypeInv, WaitsTypeOK, Cos, WaitRecs, Acts, Frames
<1>7. CoInv
  BY <1>3, <1>4 DEF CoInv, CancelIsKept
<1>8. \A n \in Nodes : WaitsNodeInv(n)
  BY <1>2 DEF WaitsNodeInv
<1>9. WaitInv
  BY <1>3, <1>5 DEF WaitInv, WaitingIsWakeable, HandlerAfterClose, IsTerminal
<1>10. PlaceInv
  BY <1>3, <1>4, <1>5 DEF PlaceInv, BodyPcs, TryPcs, OutcomeIsEarned
<1> QED
  BY <1>6, <1>7, <1>8, <1>9, <1>10 DEF WaitsIInv

LEMMA WaitsCoordinatorStepInv == ASSUME WaitsIInv, WaitsStep PROVE WaitsIInv'
  BY WaitsBeginInv, TryStepInv, WaitStepInv, HandlerStepInv, WaitsCheckOutputInv, WaitsFinalCommitInv,
     WaitsFinishErrorInv DEF WaitsStep

LEMMA ElsewhereInv ==
    ASSUME OperationsAssumption, WaitsIInv, Elsewhere, UNCHANGED <<co, waitVars>> PROVE WaitsIInv'
<1>1. CASE \E n \in Nodes : ExecutorStep(n) /\ UNCHANGED headVars
  BY <1>1, ExecutorInv
<1>2. CASE BootStep
  BY <1>2, BootStepInv
<1>3. CASE Boot
  BY <1>3, QuietStepsInv DEF Boot, waitVars
<1>4. CASE \/ (\E call \in late : LateEnds(call)) /\ UNCHANGED headVars
           \/ WorldStep /\ UNCHANGED headVars
           \/ CancelToken \/ ForceShutdown
  BY <1>4, QuietStepsInv DEF waitVars
<1> QED
  BY <1>1, <1>2, <1>3, <1>4 DEF Elsewhere

LEMMA WaitsNextInv == ASSUME OperationsAssumption, WaitsIInv, [WaitsNext]_waitsVars PROVE WaitsIInv'
<1>1. CASE Supervise
  BY <1>1, WaitsSpawnInv, SpawnUnavailableInv DEF Supervise
<1>2. CASE WaitsStep
  BY <1>2, WaitsCoordinatorStepInv
<1>3. CASE Signal
  BY <1>3, SignalInv
<1>4. CASE WaitOverdue \/ UNCHANGED waitsVars
  BY <1>4, QuietStepsInv DEF WaitOverdue, waitsVars, waitVars
<1>5. CASE Elsewhere /\ UNCHANGED <<co, waitVars>>
  BY <1>5, ElsewhereInv
<1>6. CASE CommandStep /\ Closes /\ UNCHANGED co
  BY <1>6, CommandStepInv
<1>7. CASE Crash /\ co' = NoCo /\ UNCHANGED waitVars
  BY <1>7, WaitsCrashInv
<1> QED
  BY <1>1, <1>2, <1>3, <1>4, <1>5, <1>6, <1>7 DEF WaitsNext

THEOREM WaitsInvariance == WaitsSpec => []WaitsIInv
<1>1. WaitsInit => WaitsIInv
  BY OperationsAssumption, WaitsInitInv
<1>2. WaitsIInv /\ [WaitsNext]_waitsVars => WaitsIInv'
  BY OperationsAssumption, WaitsNextInv
<1> QED
  BY <1>1, <1>2, PTL DEF WaitsSpec

(* A run sleeps only over an open reservation that a later event can still  *)
(* end: next_wakeup_at_ms never loses a waiting run.                        *)
THEOREM SleepIsWakeable == WaitsSpec => []WaitingIsWakeable
<1>1. WaitsIInv => WaitingIsWakeable
  BY DEF WaitsIInv, WaitInv
<1> QED
  BY <1>1, WaitsInvariance, PTL

(* A handler runs only once the reservation is closed, and a run succeeds   *)
(* only for a reason, with no effect left in doubt.                         *)
THEOREM HandlersEarnTheirOutcome == WaitsSpec => []RecoveryIsEarned
<1>1. WaitsIInv => RecoveryIsEarned
  BY DEF WaitsIInv, WaitInv, PlaceInv, RecoveryIsEarned
<1> QED
  BY <1>1, WaitsInvariance, PTL

-----------------------------------------------------------------------------
(* Every step *)

(* A reservation is created open and not delivered, and only an open one    *)
(* moves; what was confirmed or delivered stays so.                         *)
Moved ==
    /\ wait'.kind = wait.kind
    /\ wait.confirmed => wait'.confirmed
    /\ wait.delivered => wait'.delivered
    /\ wait'.state # "None" \/ wait' = wait
    /\ wait.state \notin {"None", "Open"} => wait' = wait
    /\ wait.state = "None" /\ wait'.state # "None" => wait'.state = "Open" /\ ~wait'.delivered

LEMMA WaitStepMoves == ASSUME WaitsIInv, WaitStep PROVE Moved
<1>1. wait \in WaitRecs
  BY PlaceTypes DEF WaitsIInv
<1>2. CASE UNCHANGED waitVars
  BY <1>2 DEF Moved, waitVars
<1>3. CASE Reserve
  <2>1. wait.state = "None" /\ ~wait.delivered /\ ~wait.confirmed
    BY <1>3 DEF Reserve, WaitsIInv, WaitInv
  <2> DEFINE sure == wait.kind # "started"
  <2>2. wait' = [wait EXCEPT !.state = "Open", !.confirmed = sure]
    BY <1>3 DEF Reserve
  <2> HIDE DEF sure
  <2> QED
    BY <1>1, <2>1, <2>2 DEF Moved, WaitRecs
<1>4. CASE StartEnter \/ ExpireStart \/ ConsumeExpired
  <2>1. wait' = wait \/ (wait.state = "Open" /\ wait' = [wait EXCEPT !.state = "Expired"])
    BY <1>4 DEF StartEnter, ExpireStart, ConsumeExpired, ExpiryDue, Expire
  <2> QED
    BY <1>1, <2>1 DEF Moved, WaitRecs
<1>5. CASE ConfirmStart
  <2>1. wait' = wait \/ (wait.state = "Open" /\ wait' = [wait EXCEPT !.confirmed = TRUE])
    BY <1>5 DEF ConfirmStart
  <2> QED
    BY <1>1, <2>1 DEF Moved, WaitRecs
<1>6. CASE Consume
  <2>1. wait' = wait \/ (wait.state = "Open" /\ wait' = [wait EXCEPT !.state = "Consumed"])
    BY <1>6 DEF Consume, Ready
  <2> QED
    BY <1>1, <2>1 DEF Moved, WaitRecs
<1>7. CASE SettleWait
  <2>1. wait' = wait \/ (wait.state = "Open" /\ wait' = [wait EXCEPT !.state = "Closed"])
    BY <1>7 DEF SettleWait, Closed
  <2> QED
    BY <1>1, <2>1 DEF Moved, WaitRecs
<1> QED
  BY <1>2, <1>3, <1>4, <1>5, <1>6, <1>7
  DEF WaitStep, AwaitEnter, AwaitConfirmed, AwaitRefused, Reserved, ReserveRefused, StartRefused,
      StartDone, ConsumeStopped, ConsumeNothing, Suspend

LEMMA ReservationMoves == ASSUME WaitsIInv, [WaitsNext]_waitsVars PROVE Moved
<1>1. wait \in WaitRecs
  BY PlaceTypes DEF WaitsIInv
<1>2. CASE wait' = wait
  BY <1>2 DEF Moved
<1>3. CASE WaitStep
  BY <1>3, WaitStepMoves
<1>4. CASE Signal
  BY <1>1, <1>4 DEF Signal, Moved, WaitRecs
<1>5. CASE Closes
  BY <1>1, <1>5, ClosesMeans DEF KeptOrClosed, Closes, Closed, Moved, WaitRecs
<1>6. CASE TryStep \/ HandlerStep
  BY <1>2, <1>6
  DEF TryStep, TryEnter, TryConfirmed, TryRefused, TryCatch, SelectHandler, TrySave, TryFail,
      HandlerStep, HandlerBody, HandlerEnter, HandlerDone, waitVars
<1> QED
  BY <1>2, <1>3, <1>4, <1>5, <1>6 DEF WaitsNext, Supervise, WaitsStep, WaitOverdue, waitsVars, waitVars

(* Every commit's change of the reservation passes validate_waits.          *)
THEOREM StoresAcceptWaits == WaitsSpec => WaitsAccepted
<1> DEFINE Accepted ==
           /\ wait.state # "None" => wait'.state # "None"
           /\ IsTerminal(run'.state) => wait'.state # "Open"
           /\ act'.state = "Succeeded" <=> wait'.state = "Consumed"
           /\ wait.state \notin {"None", "Open"} => wait' = wait
           /\ wait.confirmed => wait'.confirmed
           /\ wait.delivered => wait'.delivered
           /\ wait.state = "None" /\ wait'.state # "None" =>
                  wait'.state = "Open" /\ ~wait'.delivered
           /\ wait.kind = "timer" => wait'.state # "Expired" /\ ~wait'.delivered
           /\ wait'.delivered => wait'.state # "Expired"
           /\ wait.kind = "started" /\ wait'.confirmed => rec'[Start].state = "Succeeded"
           /\ wait.kind # "timer" /\ wait'.state = "Consumed" =>
                  wait'.delivered /\ wait'.confirmed
<1>1. WaitsIInv /\ [WaitsNext]_waitsVars => Accepted
  <2> SUFFICES ASSUME WaitsIInv, [WaitsNext]_waitsVars PROVE Accepted
    OBVIOUS
  <2>1. Moved
    BY ReservationMoves
  <2>2. WaitInv'
    BY OperationsAssumption, WaitsNextInv DEF WaitsIInv
  <2> QED
    BY <2>1, <2>2 DEF Moved, WaitInv
<1>2. WaitsAccepted <=> [][Accepted]_waitsVars
  BY DEF WaitsAccepted
<1> HIDE DEF Accepted
<1> QED
  BY <1>1, <1>2, WaitsInvariance, PTL DEF WaitsSpec

(***************************************************************************)
(* BodyOrder                                                               *)
(***************************************************************************)

Verdicts == {"index", "walk", "accepted", "rejected"}

OrderTypeOK ==
    /\ entry \in Names /\ edges \in Seq(Edges) /\ uses \in [at : Names, of : Names]
    /\ read \in 0..Len(edges)
    /\ next \in [Ids -> Names] /\ previous \subseteq Ids /\ bad \in BOOLEAN
    /\ cursor \in Names /\ order \in Seq(Ids) /\ verdict \in Verdicts

Meet(i, j) == edges[i].from = edges[j].from \/ edges[i].to = edges[j].to

(* What the index says of the edges it has read. *)
IndexInv ==
    /\ \A n \in Ids : next[n] # Unknown =>
          \E i \in 1..read : edges[i].from = n /\ edges[i].to = next[n]
    /\ \A n \in previous : \E i \in 1..read : edges[i].to = n
    /\ ~bad => \A i \in 1..read :
          /\ edges[i].from \in Ids /\ edges[i].to \in previous
          /\ next[edges[i].from] = edges[i].to
          /\ \A j \in 1..read : Meet(i, j) => i = j
    /\ bad => \E i \in 1..read :
          \/ Unknown \in {edges[i].from, edges[i].to}
          \/ \E j \in 1..read : Meet(i, j) /\ i # j

(* The walk has followed the index from the entry, and has not come back. *)
PathInv ==
    /\ verdict = "index" => order = <<>>
    /\ verdict \in {"walk", "accepted"} =>
          /\ read = Len(edges) /\ ~bad /\ entry \in Ids \ previous
          /\ \A i, j \in 1..Len(order) : order[i] = order[j] => i = j
          /\ \A i \in 1..Len(order) - 1 : next[order[i]] = order[i + 1]
          /\ IF order = <<>> THEN cursor = entry
             ELSE order[1] = entry /\ cursor = next[order[Len(order)]]

(* Whatever the body means, the walk has seen a prefix of it. *)
PrefixInv ==
    verdict = "walk" => \A s \in Chains : Means(s) =>
        /\ Len(order) <= Len(s) /\ \A i \in 1..Len(order) : order[i] = s[i]
        /\ cursor = IF Len(order) < Len(s) THEN s[Len(order) + 1] ELSE Unknown

OrderInv ==
    OrderTypeOK /\ IndexInv /\ PathInv /\ PrefixInv /\ OrderIsTheChain /\ WalkNeverReturns

(* A function onto a finite set of the size of its domain is one to one. *)
LEMMA OntoIsOneToOne ==
    ASSUME NEW S, NEW T, IsFiniteSet(S), Cardinality(S) = Cardinality(T),
           NEW f \in [S -> T], \A t \in T : \E x \in S : f[x] = t
    PROVE  \A x, y \in S : f[x] = f[y] => x = y
<1>1. f \in Surjection(S, T)
  BY DEF Surjection
<1> QED
  BY <1>1, FS_SurjSameCardinalityImpliesInj DEF Injection, IsInjective

(* A function between two intervals that is one to one and onto. *)
Matches(g, m, n) ==
    /\ m \in Nat /\ n \in Nat /\ g \in [1..m -> 1..n]
    /\ \A i, j \in 1..m : g[i] = g[j] => i = j
    /\ \A a \in 1..n : \E i \in 1..m : g[i] = a

LEMMA SameSize ==
    ASSUME NEW m, NEW n, NEW g, Matches(g, m, n)
    PROVE  m = n
<1>1. g \in Surjection(1..m, 1..n) /\ g \in Injection(1..m, 1..n)
  BY DEF Matches, Surjection, Injection, IsInjective
<1>2. IsFiniteSet(1..m) /\ Cardinality(1..m) = m /\ Cardinality(1..n) = n
  BY FS_Interval DEF Matches
<1> QED
  BY <1>1, <1>2, FS_Surjection

(* A chain lists every node once. *)
LEMMA ChainLists ==
    ASSUME OrderAssumption, NEW s \in Chains
    PROVE  /\ s \in Seq(Ids) /\ Len(s) = Cardinality(Ids) /\ Len(s) \in Nat \ {0}
           /\ DOMAIN s = 1..Len(s)
           /\ \A i, j \in 1..Len(s) : s[i] = s[j] => i = j
           /\ \A n \in Ids : \E i \in 1..Len(s) : s[i] = n
<1> DEFINE c == Cardinality(Ids)
<1>1. c \in Nat /\ c # 0
  BY FS_CardinalityType, FS_EmptySet DEF OrderAssumption
<1>2. IsFiniteSet(1..c) /\ Cardinality(1..c) = c
  BY <1>1, FS_Interval
<1>3. s \in [1..c -> Ids] /\ \A n \in Ids : \E i \in 1..c : s[i] = n
  BY DEF Chains
<1>4. \A i, j \in 1..c : s[i] = s[j] => i = j
  <2> DEFINE D == 1..c
  <2>1. IsFiniteSet(D) /\ Cardinality(D) = Cardinality(Ids) /\ s \in [D -> Ids]
        /\ \A n \in Ids : \E i \in D : s[i] = n
    BY <1>2, <1>3
  <2> HIDE DEF D
  <2>2. \A i, j \in D : s[i] = s[j] => i = j
    BY <2>1, OntoIsOneToOne
  <2> QED
    BY <2>2 DEF D
<1> HIDE DEF c
<1>5. s \in Seq(Ids) /\ Len(s) = c /\ DOMAIN s = 1..c
  BY <1>1, <1>3
<1> QED
  BY <1>1, <1>3, <1>4, <1>5 DEF c

(* The edges of a body with a meaning are the links of its chain, each once. *)
LEMMA MeansLinks ==
    ASSUME OrderAssumption, OrderTypeOK, NEW s \in Chains, Means(s)
    PROVE  /\ s[1] = entry /\ Len(edges) = Len(s) - 1
           /\ \A i \in 1..Len(edges) : \E a \in 1..Len(s) - 1 :
                 edges[i].from = s[a] /\ edges[i].to = s[a + 1]
           /\ \A a \in 1..Len(s) - 1 : \E i \in 1..Len(edges) :
                 edges[i].from = s[a] /\ edges[i].to = s[a + 1]
           /\ \A i, j \in 1..Len(edges) : Meet(i, j) => i = j
<1>1. /\ s \in Seq(Ids) /\ Len(s) \in Nat \ {0} /\ DOMAIN s = 1..Len(s)
      /\ \A i, j \in 1..Len(s) : s[i] = s[j] => i = j
  BY ChainLists
<1>2. edges \in [1..Len(edges) -> Edges] /\ Len(edges) \in Nat /\ DOMAIN edges = 1..Len(edges)
  BY DEF OrderTypeOK
<1>3. s[1] = entry /\ Len(edges) = Len(s) - 1
  BY DEF Means
<1> DEFINE m == Len(s) - 1
           L == [i \in 1..m |-> [from |-> s[i], to |-> s[i + 1]]]
<1>4. m \in Nat /\ L = Links(s) /\ DOMAIN L = 1..m
  BY <1>1 DEF Links
<1>5. {edges[i] : i \in DOMAIN edges} = {L[a] : a \in DOMAIN L}
  <2>1. {edges[i] : i \in DOMAIN edges} = ToSet(Links(s))
    BY Zenon DEF Means
  <2> HIDE DEF L
  <2> QED
    BY <1>4, <2>1, ZenonT(60) DEF ToSet
<1>6. \A a \in 1..m : L[a].from = s[a] /\ L[a].to = s[a + 1]
  OBVIOUS
<1>7. \A a \in 1..m : a \in 1..Len(s) /\ a + 1 \in 1..Len(s)
  BY <1>1
<1>8. DOMAIN edges = 1..m /\ Len(edges) = m
  BY <1>2, <1>3
<1>9. Len(s) - 1 = m /\ L = [a \in 1..m |-> L[a]] /\ edges = [i \in 1..m |-> edges[i]]
  BY <1>2, <1>8
<1> HIDE DEF L, m
<1>10. \A a, b \in 1..m : L[a].from = L[b].from \/ L[a].to = L[b].to => a = b
  <2>1. \A a, b \in 1..m : a + 1 = b + 1 => a = b
    BY <1>4
  <2> QED
    BY <1>1, <1>6, <1>7, <2>1
<1>11. \A i \in 1..m : \E a \in 1..m : edges[i] = L[a]
  BY <1>4, <1>5, <1>8, Zenon
<1>12. \A a \in 1..m : \E i \in 1..m : edges[i] = L[a]
  BY <1>4, <1>5, <1>8, Zenon
<1>13. \A i, j \in 1..m : edges[i] = edges[j] => i = j
  <2> DEFINE T == {L[a] : a \in 1..m}
  <2>1. L \in [1..m -> T] /\ edges \in [1..m -> T]
    <3>1. \A i \in 1..m : edges[i] \in T /\ L[i] \in T
      BY <1>11, Zenon
    <3> HIDE DEF T
    <3> QED
      BY <1>9, <3>1
  <2>2. /\ \A x \in T : \E a \in 1..m : L[a] = x
        /\ \A x \in T : \E i \in 1..m : edges[i] = x
    BY <1>12, Zenon
  <2> HIDE DEF T
  <2>3. L \in Surjection(1..m, T) /\ L \in Injection(1..m, T)
    BY <1>4, <1>10, <2>1, <2>2 DEF Surjection, Injection, IsInjective
  <2>4. IsFiniteSet(1..m)
    BY <1>4, FS_Interval
  <2>5. Cardinality(1..m) = Cardinality(T)
    BY <2>3, <2>4, FS_Surjection
  <2> DEFINE D == 1..m
  <2>6. IsFiniteSet(D) /\ Cardinality(D) = Cardinality(T) /\ edges \in [D -> T]
        /\ \A x \in T : \E i \in D : edges[i] = x
    BY <2>1, <2>2, <2>4, <2>5
  <2> HIDE DEF D
  <2>7. \A i, j \in D : edges[i] = edges[j] => i = j
    BY <2>6, OntoIsOneToOne
  <2> QED
    BY <2>7 DEF D
<1>14. \A i, j \in 1..m : Meet(i, j) => i = j
  <2> SUFFICES ASSUME NEW i \in 1..m, NEW j \in 1..m, Meet(i, j) PROVE i = j
    OBVIOUS
  <2>1. PICK a \in 1..m : edges[i] = L[a]
    BY <1>11
  <2>2. PICK b \in 1..m : edges[j] = L[b]
    BY <1>11
  <2>3. a = b
    BY <1>10, <2>1, <2>2 DEF Meet
  <2> QED
    BY <1>13, <2>1, <2>2, <2>3
<1>15. \A i \in 1..m : \E a \in 1..m : edges[i].from = s[a] /\ edges[i].to = s[a + 1]
  <2> TAKE i \in 1..m
  <2>1. PICK a \in 1..m : edges[i] = L[a]
    BY <1>11
  <2> QED
    BY <1>6, <2>1
<1>16. \A a \in 1..m : \E i \in 1..m : edges[i].from = s[a] /\ edges[i].to = s[a + 1]
  <2> TAKE a \in 1..m
  <2>1. PICK i \in 1..m : edges[i] = L[a]
    BY <1>12
  <2> QED
    BY <1>6, <2>1
<1> QED
  BY <1>3, <1>8, <1>9, <1>14, <1>15, <1>16, Zenon

(* The body stays, and so does what it means. *)
LEMMA MeaningStays ==
    ASSUME UNCHANGED <<entry, edges, uses>>
    PROVE  \A s : Means(s)' <=> Means(s)
BY Zenon DEF Means

LEMMA OrderInitInv == ASSUME OrderAssumption, OrderInit PROVE OrderInv
<1>1. edges \in Seq(Edges) /\ Len(edges) \in Nat
  <2>1. PICK n \in 0..MaxEdges : edges \in [1..n -> Edges]
    BY Zenon DEF OrderInit
  <2>2. n \in Nat
    BY DEF OrderAssumption
  <2> QED
    BY <2>1, <2>2
<1>2. OrderTypeOK
  <2>1. uses \in [at : Names, of : Names]
    BY DEF OrderInit, Names
  <2>2. next \in [Ids -> Names] /\ cursor \in Names /\ entry \in Names
    BY DEF OrderInit, Names
  <2>3. read \in 0..Len(edges)
    BY <1>1 DEF OrderInit
  <2>5. previous \subseteq Ids /\ bad \in BOOLEAN
    BY Zenon DEF OrderInit
  <2>4. order \in Seq(Ids) /\ verdict \in Verdicts
    BY DEF OrderInit, Verdicts
  <2> QED
    BY <1>1, <2>1, <2>2, <2>3, <2>4, <2>5, Zenon DEF OrderTypeOK
<1>3. IndexInv
  BY DEF OrderInit, IndexInv
<1>4. PathInv /\ PrefixInv /\ OrderIsTheChain /\ WalkNeverReturns
  BY DEF OrderInit, PathInv, PrefixInv, OrderIsTheChain, WalkNeverReturns
<1> QED
  BY <1>2, <1>3, <1>4 DEF OrderInv

(* One more edge is indexed. *)
LEMMA IndexInvKept == ASSUME OrderAssumption, OrderInv, Index PROVE OrderInv'
<1> DEFINE r == read + 1
           e == edges[r]
<1>1. /\ verdict = "index" /\ verdict' = verdict /\ read' = r /\ read < Len(edges)
      /\ UNCHANGED <<entry, edges, uses, cursor, order>>
  BY DEF Index
<1>2. Len(edges) \in Nat /\ read \in Nat /\ r \in 1..Len(edges) /\ e \in Edges
      /\ 1..r = 1..read \cup {r} /\ r \notin 1..read
  BY <1>1 DEF OrderInv, OrderTypeOK
<1>3. e.from \in Names /\ e.to \in Names
  BY <1>2 DEF Edges
<1>4. OrderTypeOK /\ IndexInv
  BY DEF OrderInv
<1>5. \/ Unknown \in {e.from, e.to} /\ bad' = TRUE /\ UNCHANGED <<next, previous>>
      \/ /\ e.from \in Ids /\ e.to \in Ids
         /\ bad' = (bad \/ next[e.from] # Unknown \/ e.to \in previous)
         /\ next' = [next EXCEPT ![e.from] = e.to]
         /\ previous' = IF next[e.from] # Unknown THEN previous ELSE previous \cup {e.to}
  BY <1>3 DEF Index, Names
<1> HIDE DEF r, e
<1>6. OrderTypeOK'
  <2>1. next' \in [Ids -> Names] /\ previous' \subseteq Ids /\ bad' \in BOOLEAN
    BY <1>3, <1>4, <1>5 DEF OrderTypeOK
  <2>2. read' \in 0..Len(edges)
    BY <1>1, <1>2
  <2> QED
    BY <1>1, <1>4, <2>1, <2>2 DEF OrderTypeOK
<1>7. IndexInv'
  <2>1. CASE Unknown \in {e.from, e.to} /\ bad' = TRUE /\ UNCHANGED <<next, previous>>
    BY <1>1, <1>2, <1>4, <2>1 DEF IndexInv, Meet, e
  <2>2. CASE /\ e.from \in Ids /\ e.to \in Ids
             /\ bad' = (bad \/ next[e.from] # Unknown \/ e.to \in previous)
             /\ next' = [next EXCEPT ![e.from] = e.to]
             /\ previous' = IF next[e.from] # Unknown THEN previous ELSE previous \cup {e.to}
    <3>1. /\ next'[e.from] = e.to /\ \A n \in Ids \ {e.from} : next'[n] = next[n]
      BY <1>4, <2>2 DEF OrderTypeOK
    <3>2. \A n \in Ids : next'[n] # Unknown =>
             \E i \in 1..r : edges[i].from = n /\ edges[i].to = next'[n]
      BY <1>2, <1>4, <3>1 DEF IndexInv, e
    <3>3. \A n \in previous' : \E i \in 1..r : edges[i].to = n
      BY <1>2, <1>4, <2>2 DEF IndexInv, e
    <3>4. ASSUME ~bad'
          PROVE  \A i \in 1..r :
                    /\ edges[i].from \in Ids /\ edges[i].to \in previous'
                    /\ next'[edges[i].from] = edges[i].to
                    /\ \A j \in 1..r : Meet(i, j) => i = j
      <4>1. ~bad /\ next[e.from] = Unknown /\ e.to \notin previous
            /\ previous' = previous \cup {e.to}
        BY <2>2, <3>4
      <4>2. \A i \in 1..read :
               /\ edges[i].from \in Ids /\ edges[i].to \in previous
               /\ next[edges[i].from] = edges[i].to
               /\ \A j \in 1..read : Meet(i, j) => i = j
        BY <1>4, <4>1 DEF IndexInv
      <4>3. \A i \in 1..read : edges[i].from # e.from /\ edges[i].to # e.to
        BY <1>4, <4>1, <4>2 DEF OrderTypeOK, OrderAssumption
      <4> QED
        BY <1>2, <2>2, <3>1, <4>1, <4>2, <4>3 DEF Meet, e
    <3>5. ASSUME bad'
          PROVE  \E i \in 1..r :
                    \/ Unknown \in {edges[i].from, edges[i].to}
                    \/ \E j \in 1..r : Meet(i, j) /\ i # j
      <4>1. CASE bad
        BY <1>2, <1>4, <4>1 DEF IndexInv
      <4>2. CASE next[e.from] # Unknown
        <5>1. \E i \in 1..read : edges[i].from = e.from
          BY <1>4, <2>2, <4>2 DEF IndexInv
        <5> QED
          BY <1>2, <5>1 DEF Meet, e
      <4>3. CASE e.to \in previous
        <5>1. \E i \in 1..read : edges[i].to = e.to
          BY <1>4, <4>3 DEF IndexInv
        <5> QED
          BY <1>2, <5>1 DEF Meet, e
      <4> QED
        BY <2>2, <3>5, <4>1, <4>2, <4>3
    <3> QED
      BY <1>1, <3>2, <3>3, <3>4, <3>5 DEF IndexInv, Meet
  <2> QED
    BY <1>5, <2>1, <2>2
<1>8. PathInv' /\ PrefixInv' /\ OrderIsTheChain' /\ WalkNeverReturns'
  BY <1>1 DEF OrderInv, PathInv, PrefixInv, OrderIsTheChain, WalkNeverReturns
<1> QED
  BY <1>6, <1>7, <1>8 DEF OrderInv

(* A diagnostic means that the body is no chain. *)
LEMMA EnterInvKept == ASSUME OrderAssumption, OrderInv, Enter PROVE OrderInv'
<1>1. OrderTypeOK /\ IndexInv /\ order = <<>> /\ read = Len(edges) /\ verdict = "index"
  BY DEF OrderInv, PathInv, Enter
<1>2. UNCHANGED <<entry, edges, uses, read, next, previous, bad, order>>
  BY DEF Enter
<1>3. OrderTypeOK' /\ IndexInv'
  BY <1>1, <1>2 DEF Enter, OrderTypeOK, IndexInv, Meet, Names, Verdicts
<1>4. CASE bad \/ entry \notin Ids \/ entry \in previous
  <2>1. verdict' = "rejected" /\ cursor' = cursor
    BY <1>4 DEF Enter
  <2>2. ASSUME NEW s \in Chains, Means(s) PROVE FALSE
    <3>1. /\ s \in Seq(Ids) /\ Len(s) \in Nat \ {0}
          /\ \A i, j \in 1..Len(s) : s[i] = s[j] => i = j
      BY ChainLists
    <3>2. /\ s[1] = entry /\ Len(edges) = Len(s) - 1
          /\ \A i \in 1..Len(edges) : \E a \in 1..Len(s) - 1 :
                edges[i].from = s[a] /\ edges[i].to = s[a + 1]
          /\ \A i, j \in 1..Len(edges) : Meet(i, j) => i = j
      BY <1>1, <2>2, MeansLinks
    <3>3. \A a \in 1..Len(s) - 1 : a \in 1..Len(s) /\ a + 1 \in 1..Len(s) /\ a + 1 # 1
      BY <3>1
    <3>4. \A i \in 1..Len(edges) : edges[i].from \in Ids /\ edges[i].to \in Ids /\ edges[i].to # s[1]
      BY <3>1, <3>2, <3>3
    <3>5. entry \in Ids /\ entry \notin previous
      <4>1. s[1] \in Ids
        BY <3>1
      <4>2. \A n \in previous : \E i \in 1..Len(edges) : edges[i].to = n
        BY <1>1 DEF IndexInv
      <4> QED
        BY <3>2, <3>4, <4>1, <4>2
    <3>6. ~bad
      <4>1. \A i \in 1..Len(edges) : Unknown \notin {edges[i].from, edges[i].to}
        BY <3>4 DEF OrderAssumption
      <4> QED
        BY <1>1, <3>2, <4>1 DEF IndexInv
    <3> QED
      BY <1>4, <3>5, <3>6
  <2>3. OrderIsTheChain'
    BY <1>2, <2>1, <2>2, MeaningStays DEF OrderIsTheChain
  <2> QED
    BY <1>3, <2>1, <2>3 DEF OrderInv, PathInv, PrefixInv, WalkNeverReturns
<1>5. CASE ~(bad \/ entry \notin Ids \/ entry \in previous)
  <2>1. verdict' = "walk" /\ cursor' = entry
    BY <1>5 DEF Enter
  <2>2. PathInv'
    BY <1>1, <1>2, <1>5, <2>1 DEF PathInv
  <2>3. PrefixInv'
    <3> SUFFICES ASSUME NEW s \in Chains, Means(s)'
                 PROVE  /\ Len(order') <= Len(s) /\ \A i \in 1..Len(order') : order'[i] = s[i]
                        /\ cursor' = IF Len(order') < Len(s) THEN s[Len(order') + 1] ELSE Unknown
      BY DEF PrefixInv, Chains
    <3>1. Len(s) \in Nat \ {0} /\ s[1] = entry
      BY <1>1, <1>2, ChainLists, MeansLinks, MeaningStays
    <3>2. Len(order') = 0
      BY <1>1, <1>2
    <3> QED
      BY <2>1, <3>1, <3>2
  <2>4. WalkNeverReturns' /\ OrderIsTheChain'
    BY <1>1, <1>2, <2>1 DEF WalkNeverReturns, OrderIsTheChain, Visited, ToSet
  <2> QED
    BY <1>3, <2>2, <2>3, <2>4 DEF OrderInv
<1> QED
  BY <1>4, <1>5

(* The walk takes the node it stands at. *)
LEMMA VisitInvKept == ASSUME OrderAssumption, OrderInv, Visit PROVE OrderInv'
<1> DEFINE k == Len(order)
<1>1. /\ OrderTypeOK /\ IndexInv /\ verdict = "walk" /\ cursor \in Ids
      /\ UNCHANGED <<entry, edges, uses, read, next, previous, bad>>
  BY DEF OrderInv, OrderTypeOK, Visit, Names
<1>2. verdict' = "walk" /\ order' = Append(order, cursor) /\ cursor' = next[cursor]
  BY <1>1 DEF Visit, OrderInv, WalkNeverReturns
<1>3. /\ order \in Seq(Ids) /\ k \in Nat /\ DOMAIN order = 1..k
      /\ order' \in Seq(Ids) /\ Len(order') = k + 1
      /\ order'[k + 1] = cursor /\ \A i \in 1..k : order'[i] = order[i]
      /\ \A i \in 1..k : order[i] \in Ids
  BY <1>1, <1>2 DEF OrderTypeOK
<1>4. \A i \in 1..k : order[i] # cursor
  BY <1>1, <1>3 DEF OrderInv, WalkNeverReturns, Visited, ToSet
<1>5. /\ read = Len(edges) /\ ~bad /\ entry \in Ids \ previous
      /\ \A i, j \in 1..k : order[i] = order[j] => i = j
      /\ \A i \in 1..k - 1 : next[order[i]] = order[i + 1]
      /\ k = 0 => cursor = entry
      /\ k # 0 => order[1] = entry /\ cursor = next[order[k]]
  BY <1>1, <1>3 DEF OrderInv, PathInv
<1> HIDE DEF k
<1>6. OrderTypeOK'
  BY <1>1, <1>2, <1>3 DEF OrderTypeOK
<1>7. IndexInv'
  BY <1>1 DEF IndexInv, Meet
<1>8. /\ \A i, j \in 1..k + 1 : order'[i] = order'[j] => i = j
      /\ \A i \in 1..k : next[order'[i]] = order'[i + 1]
      /\ order'[1] = entry /\ cursor' = next[order'[k + 1]]
  <2>1. \A i \in 1..k + 1 : i \in 1..k \/ i = k + 1
    BY <1>3
  <2>2. \A i \in 1..k : i # k => i \in 1..k - 1 /\ i + 1 \in 1..k
    BY <1>3
  <2>3. k # 0 => 1 \in 1..k /\ k \in 1..k
    BY <1>3
  <2>4. \A i, j \in 1..k + 1 : order'[i] = order'[j] => i = j
    BY <1>3, <1>4, <1>5, <2>1
  <2>5. \A i \in 1..k : next[order'[i]] = order'[i + 1]
    <3> SUFFICES ASSUME NEW i \in 1..k PROVE next[order'[i]] = order'[i + 1]
      OBVIOUS
    <3>1. CASE i = k
      BY <1>3, <1>5, <2>3, <3>1
    <3>2. CASE i # k
      BY <1>3, <1>5, <2>2, <3>2
    <3> QED
      BY <3>1, <3>2
  <2>6. order'[1] = entry /\ cursor' = next[order'[k + 1]]
    BY <1>2, <1>3, <1>5, <2>3
  <2> QED
    BY <2>4, <2>5, <2>6
<1>9. PathInv'
  <2>1. order' # <<>> /\ Len(order') - 1 = k
    BY <1>3
  <2> QED
    BY <1>1, <1>2, <1>3, <1>5, <1>8, <2>1 DEF PathInv
<1>10. PrefixInv'
  <2> SUFFICES ASSUME NEW s \in Chains, Means(s)'
               PROVE  /\ Len(order') <= Len(s) /\ \A i \in 1..Len(order') : order'[i] = s[i]
                      /\ cursor' = IF Len(order') < Len(s) THEN s[Len(order') + 1] ELSE Unknown
    BY DEF PrefixInv, Chains
  <2>1. Means(s)
    BY <1>1, MeaningStays
  <2>2. /\ s \in Seq(Ids) /\ Len(s) \in Nat \ {0}
        /\ \A i, j \in 1..Len(s) : s[i] = s[j] => i = j
    BY ChainLists
  <2>3. /\ Len(edges) = Len(s) - 1
        /\ \A i \in 1..Len(edges) : \E a \in 1..Len(s) - 1 :
              edges[i].from = s[a] /\ edges[i].to = s[a + 1]
        /\ \A a \in 1..Len(s) - 1 : \E i \in 1..Len(edges) :
              edges[i].from = s[a] /\ edges[i].to = s[a + 1]
    BY <1>1, <2>1, MeansLinks
  <2>4. /\ k <= Len(s) /\ \A i \in 1..k : order[i] = s[i]
        /\ cursor = IF k < Len(s) THEN s[k + 1] ELSE Unknown
    BY <1>1, <2>1 DEF OrderInv, PrefixInv, k
  <2>5. k < Len(s) /\ cursor = s[k + 1] /\ k + 1 \in 1..Len(s)
    BY <1>1, <1>3, <2>2, <2>4 DEF OrderAssumption
  <2>8. \A i \in 1..k + 1 : order'[i] = s[i]
    <3>1. \A i \in 1..k + 1 : i \in 1..k \/ i = k + 1
      BY <1>3
    <3> QED
      BY <1>3, <2>4, <2>5, <3>1
  <2>6. CASE k + 1 < Len(s)
    <3>1. k + 1 \in 1..Len(s) - 1
      BY <1>3, <2>2, <2>6
    <3>2. PICK i \in 1..Len(edges) : edges[i].from = s[k + 1] /\ edges[i].to = s[k + 1 + 1]
      BY <2>3, <3>1
    <3>3. next[cursor] = s[k + 1 + 1]
      BY <1>1, <1>5, <2>5, <3>2 DEF IndexInv
    <3> QED
      BY <1>2, <1>3, <2>2, <2>6, <2>8, <3>3
  <2>7. CASE k + 1 = Len(s)
    <3>1. ASSUME next[cursor] # Unknown PROVE FALSE
      <4>1. PICK i \in 1..Len(edges) : edges[i].from = cursor
        BY <1>1, <1>5, <3>1 DEF IndexInv
      <4>2. PICK a \in 1..Len(s) - 1 : edges[i].from = s[a]
        BY <2>3
      <4>3. a \in 1..Len(s) /\ a # k + 1
        BY <1>3, <2>2, <2>7
      <4> QED
        BY <2>2, <2>5, <4>1, <4>2, <4>3
    <3>2. cursor' = Unknown
      BY <1>2, <3>1
    <3> QED
      BY <1>3, <2>2, <2>7, <2>8, <3>2
  <2> QED
    BY <1>3, <2>2, <2>5, <2>6, <2>7
<1>11. WalkNeverReturns'
  <2> SUFFICES ASSUME NEW i \in 1..k + 1, cursor' = order'[i] PROVE FALSE
    BY <1>3 DEF WalkNeverReturns, Visited, ToSet
  <2>1. cursor' \in Ids /\ cursor' = next[cursor] /\ cursor' # Unknown
    BY <1>2, <1>3 DEF OrderAssumption
  <2>2. PICK e \in 1..Len(edges) : edges[e].from = cursor /\ edges[e].to = cursor'
    BY <1>1, <1>5, <2>1 DEF IndexInv
  <2>3. edges[e].to \in previous
    BY <1>1, <1>5, <2>2 DEF IndexInv
  <2>4. i # 1
    BY <1>5, <1>8, <2>2, <2>3
  <2>5. i - 1 \in 1..k /\ i - 1 + 1 = i /\ k + 1 # i - 1
    BY <1>3, <2>4
  <2>6. next[order[i - 1]] = cursor' /\ order[i - 1] \in Ids /\ order[i - 1] # cursor
    <3>1. next[order'[i - 1]] = order'[i]
      BY <1>8, <2>5
    <3>2. order'[i - 1] = order[i - 1]
      BY <1>3, <2>5
    <3>3. order[i - 1] \in Ids /\ order[i - 1] # cursor
      BY <1>3, <1>4, <2>5
    <3> QED
      BY <3>1, <3>2, <3>3
  <2>7. PICK f \in 1..Len(edges) : edges[f].from = order[i - 1] /\ edges[f].to = cursor'
    BY <1>1, <1>5, <2>1, <2>6 DEF IndexInv
  <2>8. e = f
    BY <1>1, <1>5, <2>2, <2>7 DEF IndexInv, Meet
  <2> QED
    BY <2>2, <2>6, <2>7, <2>8
<1> QED
  BY <1>2, <1>6, <1>7, <1>9, <1>10, <1>11 DEF OrderInv, OrderIsTheChain

(* The walk has ended: it is judged. *)
LEMMA CheckInvKept == ASSUME OrderAssumption, OrderInv, Check PROVE OrderInv'
<1> DEFINE k == Len(order)
           Forward == \A i \in DOMAIN order :
                         order[i] = uses.at => uses.of \in {order[j] : j \in 1..(i - 1)}
<1>1. /\ OrderTypeOK /\ IndexInv /\ verdict = "walk" /\ cursor = Unknown
      /\ UNCHANGED <<entry, edges, uses, read, next, previous, bad, cursor, order>>
  BY DEF OrderInv, Check
<1>2. verdict' = IF Visited = Ids /\ Forward THEN "accepted" ELSE "rejected"
  BY DEF Check
<1>3. /\ order \in Seq(Ids) /\ k \in Nat /\ DOMAIN order = 1..k
      /\ \A i \in 1..k : order[i] \in Ids
      /\ edges \in Seq(Edges) /\ Len(edges) \in Nat /\ DOMAIN edges = 1..Len(edges)
  BY <1>1 DEF OrderTypeOK
<1>4. /\ read = Len(edges) /\ ~bad /\ entry \in Ids \ previous
      /\ \A i, j \in 1..k : order[i] = order[j] => i = j
      /\ \A i \in 1..k - 1 : next[order[i]] = order[i + 1]
      /\ order # <<>>
      /\ order[1] = entry /\ cursor = next[order[k]]
  BY <1>1, <1>3 DEF OrderInv, PathInv, OrderAssumption
<1>5. k # 0
  BY <1>3, <1>4
<1>6. OrderTypeOK' /\ IndexInv'
  BY <1>1, <1>2 DEF OrderTypeOK, IndexInv, Meet, Verdicts
<1>7. PathInv' /\ PrefixInv' /\ WalkNeverReturns'
  BY <1>1, <1>2, Zenon DEF OrderInv, PathInv, PrefixInv, WalkNeverReturns
<1> HIDE DEF k
<1>8. CASE Visited = Ids /\ Forward
  <2>1. \A n \in Ids : \E a \in 1..k : order[a] = n
    BY <1>3, <1>8 DEF Visited, ToSet
  <2>2. \A a \in 1..k - 1 : a \in 1..k /\ a + 1 \in 1..k
    BY <1>3
  <2> DEFINE m == Len(edges)
             L == Links(order)
  <2>3. \A a \in 1..k : a # k => a \in 1..k - 1
    BY <1>3
  <2>4. DOMAIN L = 1..k - 1 /\ \A a \in 1..k - 1 : L[a] = [from |-> order[a], to |-> order[a + 1]]
    BY DEF Links, k
  <2>5. \A i \in 1..m : edges[i] = [from |-> edges[i].from, to |-> edges[i].to]
    <3>1. \A i \in 1..Len(edges) : edges[i] \in Edges
      BY <1>3
    <3>2. \A e \in Edges : e = [from |-> e.from, to |-> e.to]
      BY DEF Edges
    <3> QED
      BY <3>1, <3>2
  <2> HIDE DEF L, m
  <2>6. \A i \in 1..m : \E a \in 1..k - 1 : edges[i] = L[a]
    <3> TAKE i \in 1..m
    <3>1. /\ edges[i].from \in Ids /\ edges[i].to \in previous
          /\ next[edges[i].from] = edges[i].to
      BY <1>1, <1>4 DEF IndexInv, m
    <3>2. PICK a \in 1..k : order[a] = edges[i].from
      BY <2>1, <3>1
    <3>3. edges[i].to # Unknown
      BY <1>1, <3>1 DEF OrderTypeOK, OrderAssumption
    <3>4. a \in 1..k - 1
      BY <1>1, <1>4, <2>3, <3>1, <3>2, <3>3
    <3>5. edges[i].to = order[a + 1]
      BY <1>4, <3>1, <3>2, <3>4
    <3> QED
      BY <2>4, <2>5, <3>2, <3>4, <3>5
  <2>7. \A a \in 1..k - 1 : \E i \in 1..m : edges[i] = L[a]
    <3> TAKE a \in 1..k - 1
    <3>1. next[order[a]] = order[a + 1] /\ order[a] \in Ids /\ order[a + 1] \in Ids
      BY <1>3, <1>4, <2>2
    <3>2. PICK i \in 1..m : edges[i].from = order[a] /\ edges[i].to = order[a + 1]
      BY <1>1, <1>4, <3>1 DEF IndexInv, OrderAssumption, m
    <3> QED
      BY <2>4, <2>5, <3>2
  <2>8. \A i, j \in 1..m : edges[i].from = edges[j].from => i = j
    BY <1>1, <1>4 DEF IndexInv, Meet, m
  <2>9. m = k - 1
    <3> DEFINE g == [i \in 1..m |-> CHOOSE a \in 1..k - 1 : edges[i] = L[a]]
    <3>1. \A i \in 1..m : g[i] \in 1..k - 1 /\ edges[i] = L[g[i]]
      BY <2>6
    <3>2. g \in [1..m -> 1..k - 1]
      BY <3>1
    <3> HIDE DEF g
    <3>3. \A i, j \in 1..m : g[i] = g[j] => i = j
      BY <2>8, <3>1
    <3>4. \A a \in 1..k - 1 : \E i \in 1..m : g[i] = a
      <4> TAKE a \in 1..k - 1
      <4>1. PICK i \in 1..m : edges[i] = L[a]
        BY <2>7
      <4>2. order[g[i]] = order[a]
        BY <2>4, <3>1, <4>1
      <4> QED
        BY <1>4, <2>2, <3>1, <4>2
    <3>5. m \in Nat /\ k - 1 \in Nat
      BY <1>3, <1>5 DEF m
    <3> QED
      <4>1. Matches(g, m, k - 1)
        BY <3>2, <3>3, <3>4, <3>5 DEF Matches
      <4> QED
        BY <4>1, SameSize
  <2>10. {edges[i] : i \in DOMAIN edges} = ToSet(Links(order))
    <3>1. DOMAIN edges = 1..m
      BY <1>3 DEF m
    <3>2. {edges[i] : i \in 1..m} = {L[a] : a \in 1..k - 1}
      <4>1. ASSUME NEW x PROVE x \in {edges[i] : i \in 1..m} <=> x \in {L[a] : a \in 1..k - 1}
        <5>1. ASSUME NEW i \in 1..m, x = edges[i] PROVE \E a \in 1..k - 1 : x = L[a]
          BY <2>6, <5>1
        <5>2. ASSUME NEW a \in 1..k - 1, x = L[a] PROVE \E i \in 1..m : x = edges[i]
          BY <2>7, <5>2
        <5> QED
          BY <5>1, <5>2, Zenon
      <4> QED
        BY <4>1, Zenon
    <3> QED
      BY <2>4, <3>1, <3>2, Zenon DEF ToSet, L
  <2>11. \A i \in DOMAIN order : order[i] = uses.at => \E j \in 1..(i - 1) : order[j] = uses.of
    BY <1>8
  <2>12. Means(order)
    BY <1>4, <2>9, <2>10, <2>11 DEF Means, k, m
  <2>13. OrderIsTheChain'
    BY <1>1, <1>2, <1>8, <2>12, MeaningStays DEF OrderIsTheChain
  <2> QED
    BY <1>6, <1>7, <2>13 DEF OrderInv
<1>9. CASE ~(Visited = Ids /\ Forward)
  <2>1. ASSUME NEW s \in Chains, Means(s) PROVE FALSE
    <3>1. /\ s \in Seq(Ids) /\ Len(s) \in Nat \ {0} /\ DOMAIN s = 1..Len(s)
          /\ \A n \in Ids : \E i \in 1..Len(s) : s[i] = n
      BY ChainLists
    <3>2. /\ k <= Len(s) /\ \A i \in 1..k : order[i] = s[i]
          /\ cursor = IF k < Len(s) THEN s[k + 1] ELSE Unknown
      BY <1>1, <2>1 DEF OrderInv, PrefixInv, k
    <3>3. k = Len(s)
      <4>1. ASSUME k < Len(s) PROVE FALSE
        <5>1. k + 1 \in 1..Len(s)
          BY <1>3, <3>1, <4>1
        <5>2. s[k + 1] \in Ids /\ s[k + 1] = Unknown
          BY <1>1, <3>1, <3>2, <4>1, <5>1
        <5> QED
          BY <5>2 DEF OrderAssumption
      <4>2. k \in Nat /\ Len(s) \in Nat /\ k <= Len(s)
        BY <1>3, <3>1, <3>2
      <4> QED
        BY <4>1, <4>2
    <3>4. order = s
      BY <1>3, <3>1, <3>2, <3>3
    <3>5. Visited = Ids
      BY <1>3, <3>1, <3>3, <3>4 DEF Visited, ToSet
    <3>6. Forward
      BY <2>1, <3>4 DEF Means
    <3> QED
      BY <1>9, <3>5, <3>6
  <2>2. OrderIsTheChain'
    BY <1>1, <1>2, <1>9, <2>1, MeaningStays DEF OrderIsTheChain
  <2> QED
    BY <1>6, <1>7, <2>2 DEF OrderInv
<1> QED
  BY <1>8, <1>9

LEMMA OrderInvariance == ASSUME OrderAssumption PROVE OrderSpec => []OrderInv
<1>1. OrderInit => OrderInv
  BY OrderInitInv
<1>2. OrderInv /\ [OrderNext]_orderVars => OrderInv'
  <2> SUFFICES ASSUME OrderInv, [OrderNext]_orderVars PROVE OrderInv'
    OBVIOUS
  <2>1. CASE UNCHANGED orderVars
    <3>1. OrderTypeOK' /\ IndexInv' /\ PathInv'
      BY <2>1 DEF OrderInv, OrderTypeOK, IndexInv, PathInv, Meet, orderVars
    <3>2. PrefixInv' /\ OrderIsTheChain' /\ WalkNeverReturns'
      BY <2>1, MeaningStays, Zenon DEF OrderInv, PrefixInv, OrderIsTheChain, WalkNeverReturns, Visited, orderVars
    <3> QED
      BY <3>1, <3>2 DEF OrderInv
  <2> QED
    BY <2>1, IndexInvKept, EnterInvKept, VisitInvKept, CheckInvKept DEF OrderNext
<1> QED
  BY <1>1, <1>2, PTL DEF OrderSpec

(* The compiler orders exactly the bodies that are one chain over all their *)
(* nodes, in its order, and its walk never comes back to a node             *)
(* (compiler/control.rs:603-679, binding.rs:37).                            *)
THEOREM OrderIsExact == OrderSpec => [](OrderIsTheChain /\ WalkNeverReturns)
<1>1. OrderInv => OrderIsTheChain /\ WalkNeverReturns
  BY DEF OrderInv
<1> QED
  BY <1>1, OrderInvariance, OrderAssumption, PTL
=============================================================================
