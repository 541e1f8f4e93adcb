------------------------------ MODULE Control -------------------------------
(***************************************************************************)
(* Bodies within bodies: the walk of a run through decision, loop and      *)
(* subworkflow nodes, whose frames are saved so that a later walk goes on  *)
(* where an earlier one was cut off, blocked or cancelled.                 *)
(*                                                                         *)
(* A node's input is the value of the node before it, or that of its scope; *)
(* conditions and schemas are sets of values.  The attempts of an operation *)
(* are one call (Operations has them); the deadline is one more reason for  *)
(* an operation to fail.  Try is in Waits, groups are in Groups.           *)
(***************************************************************************)
EXTENDS Naturals, Sequences, SequencesExt

CONSTANTS
    Values,
    Plan,       \* of every node what it is, with its bodies: sequences of nodes
    Root,       \* the body of the run
    Input

VARIABLES
    head,       \* persisted: [state, cancel, result]; Accepted and Cancelling are Running
    rec,        \* persisted: the records, by the path of their activation
    walk,       \* the coordinator task: [pc, stack, out]
    log         \* observed: the activations of operations, with their input

vars == <<head, rec, walk, log>>

(* A scope is the sequence of the control nodes around it, each with the    *)
(* case or the iteration it is in; an activation is a node in a scope.      *)
Scoped(scope, body, value) ==
    [scope |-> scope, body |-> body, at |-> 1, value |-> value, frame |-> "none"]
Stopped(pc) == [pc |-> pc, stack |-> <<>>, out |-> "none"]

Init ==
    /\ head = [state |-> "Running", cancel |-> FALSE, result |-> "none"]
    /\ rec = << >> /\ log = << >>
    /\ walk = Stopped("idle")

Top     == Last(walk.stack)
Node    == Plan[Top.body[Top.at]]
Key     == [scope |-> Top.scope, node |-> Top.body[Top.at]]
Known   == Key \in DOMAIN rec
NoRecord == [state |-> "Absent", input |-> "none", output |-> "none", error |-> "none",
             frame |-> "none"]
Here    == IF Known THEN rec[Key] ELSE NoRecord
Given   == IF Known THEN rec[Key].input ELSE Top.value
Ended   == walk.pc = "view" /\ Top.at > Len(Top.body)
Calls   == {k \in DOMAIN rec : Plan[k.node].kind = "op"}
Settled(r) == r.state \in {"Failed", "Cancelled"}

Put(r)  == rec' = (Key :> r) @@ rec
Go(pc, out) == walk' = [walk EXCEPT !.pc = pc, !.out = out]
Depth == Len(walk.stack)

(* The node has its value. *)
Give(value) ==
    walk' = [pc |-> "view", out |-> "none",
             stack |-> [walk.stack EXCEPT ![Depth].at = @ + 1, ![Depth].value = value]]

(* An error leaves the body, and reaches the control node around it. *)
Throw(error) ==
    walk' = [pc |-> IF Depth = 1 THEN "error" ELSE "fail",
             stack |-> Front(walk.stack), out |-> error]

-----------------------------------------------------------------------------
(* execute: the body is walked from its first node, whatever was done. *)
Spawn ==
    /\ walk.pc = "idle" /\ head.state = "Running"
    /\ walk' = [pc |-> "view", stack |-> <<Scoped(<<>>, Root, Input)>>, out |-> "none"]
    /\ UNCHANGED <<head, rec, log>>

View ==
    /\ walk.pc = "view" /\ ~Ended
    /\ CASE Here.state = "Succeeded" -> Give(Here.output)
         [] Here.state = "Unknown"   -> Throw("unknown")
         [] Settled(Here)            -> Throw(Here.error)
         [] head.cancel              -> Throw("cancelled")
         [] OTHER -> \/ Go("enter", "none")
                     \/ ~Known /\ Throw("failed")    \* its input mapping or schema
    /\ UNCHANGED <<head, rec, log>>

Dispatch ==
    /\ walk.pc = "enter" /\ Node.kind = "op"
    /\ IF head.cancel THEN Throw("cancelled") /\ UNCHANGED <<rec, log>>
       ELSE /\ Put([NoRecord EXCEPT !.state = "Running", !.input = Given])
            /\ log' = IF Known THEN log ELSE Append(log, [key |-> Key, input |-> Given])
            /\ Go("call", "none")
    /\ UNCHANGED head

Outcome ==
    /\ walk.pc = "call"
    /\ \/ \E v \in Values : /\ Put([Here EXCEPT !.state = "Succeeded", !.output = v])
                            /\ Give(v)
       \/ Put([Here EXCEPT !.state = "Failed", !.error = "failed"]) /\ Throw("failed")
       \/ Put([Here EXCEPT !.state = "Unknown"]) /\ Throw("unknown")
       \/ /\ head.cancel
          /\ Put([Here EXCEPT !.state = "Cancelled", !.error = "cancelled"])
          /\ Throw("cancelled")
    /\ UNCHANGED <<head, log>>

-----------------------------------------------------------------------------
(* execute_control and run_control *)

Matching(cases, value) == {i \in DOMAIN cases : value \in cases[i].when}
First(cases, value) ==
    cases[CHOOSE i \in Matching(cases, value) : \A j \in Matching(cases, value) : i <= j]

(* The case is chosen, and a loop starts, from the input of the activation.  *)
InitialFrame ==
    CASE Node.kind = "decision" -> [selected |-> First(Node.cases, Given).id]
      [] Node.kind = "loop"     -> [iteration |-> 0, state |-> Given]
      [] Node.kind = "sub"      -> [selected |-> "workflow"]
NoMatch == Node.kind = "decision" /\ Matching(Node.cases, Given) = {}

Push(segment, body, input) ==
    LET scope == Append(Top.scope, <<Top.body[Top.at], segment>>)
    IN  walk' = [walk EXCEPT !.pc = "view", !.stack = Append(@, Scoped(scope, body, input))]

Resume(frame) ==
    CASE Node.kind = "decision" ->
            Push(frame.selected,
                 Node.cases[CHOOSE i \in DOMAIN Node.cases :
                               Node.cases[i].id = frame.selected].body, Given)
      [] Node.kind = "sub"  -> IF Given \in Node.accepts
                               THEN Push(frame.selected, Node.body, Given)
                               ELSE Go("fail", "failed")
      [] Node.kind = "loop" -> walk' = [walk EXCEPT !.pc = "top",
                                                    !.stack[Depth].frame = frame]

(* A saved frame is used; else the first one is saved with the activation,   *)
(* which may exceed the run's budget.                                        *)
Enter ==
    /\ walk.pc = "enter" /\ Node.kind # "op"
    /\ IF Known THEN UNCHANGED rec /\ Resume(Here.frame)
       ELSE IF NoMatch THEN UNCHANGED rec /\ Throw("failed")
       ELSE \/ /\ Put([NoRecord EXCEPT !.state = "Running", !.input = Given,
                                       !.frame = InitialFrame])
               /\ Resume(InitialFrame)
            \/ UNCHANGED rec /\ Throw("limit")
    /\ UNCHANGED <<head, log>>

LoopTop ==
    LET f == Top.frame IN
    /\ walk.pc = "top"
    /\ IF head.cancel THEN Go("fail", "cancelled")
       ELSE IF f.state \notin Node.while THEN Go("save", f.state)
       ELSE IF f.iteration >= Node.most
       THEN IF Node.last THEN Go("save", f.state) ELSE Go("fail", "failed")
       ELSE Push(f.iteration, Node.body, f.state)
    /\ UNCHANGED <<head, rec, log>>

(* The body of a case or a subworkflow, or of the run, has its output, or    *)
(* its output mapping fails.                                                *)
Outer == walk.stack[Depth - 1]
Around == Plan[Outer.body[Outer.at]]

BodyEnds ==
    LET value == Top.value
        up(pc, out) == walk' = [pc |-> pc, stack |-> Front(walk.stack), out |-> out]
    IN  /\ Ended
        /\ Depth > 1 => Around.kind # "loop"
        /\ \/ Throw("failed")
           \/ IF Depth = 1 THEN up("output", value)
              ELSE IF Around.kind = "sub" /\ value \notin Around.returns THEN Throw("failed")
              ELSE up("save", value)
        /\ UNCHANGED <<head, rec, log>>

(* Mutant: the counter alone is saved. *)
Iterated_CounterOnly(f, value) == [f EXCEPT !.iteration = @ + 1]

Iterated(f, value) == [iteration |-> f.iteration + 1, state |-> value]

(* update_frame, after the body of a loop: the counter and the state in one  *)
(* commit, which may exceed the run's budget; or the output mapping fails.   *)
BodyIterates ==
    LET key   == [scope |-> Outer.scope, node |-> Outer.body[Outer.at]]
        frame == Iterated(Outer.frame, Top.value)
    IN  /\ Ended /\ Depth > 1 /\ Around.kind = "loop"
        /\ \/ /\ rec' = [rec EXCEPT ![key].frame = frame]
              /\ walk' = [pc |-> "top", out |-> "none",
                          stack |-> [Front(walk.stack) EXCEPT ![Depth - 1].frame = frame]]
           \/ UNCHANGED rec /\ Throw("limit")
        /\ UNCHANGED <<head, log>>

Save ==
    /\ walk.pc = "save"
    /\ \/ Put([Here EXCEPT !.state = "Succeeded", !.output = walk.out]) /\ Give(walk.out)
       \/ UNCHANGED rec /\ Go("fail", "limit")
    /\ UNCHANGED <<head, log>>

Fail ==
    /\ walk.pc = "fail"
    /\ Put([Here EXCEPT !.error = walk.out,
                        !.state = CASE walk.out = "unknown"   -> "Pending"
                                    [] walk.out = "cancelled" -> "Cancelled"
                                    [] OTHER                  -> "Failed"])
    /\ Throw(walk.out)
    /\ UNCHANGED <<head, log>>

Unknowns == {k \in DOMAIN rec : rec[k].state = "Unknown"}

(* The final commit, or finish_error. *)
Finish ==
    LET ends(state) == head' = [head EXCEPT !.state = state]
    IN  /\ walk.pc \in {"output", "error"}
        /\ IF Unknowns # {} THEN ends("Blocked")
           ELSE IF walk.out = "cancelled" \/ (walk.pc = "output" /\ head.cancel)
           THEN ends("Cancelled")
           ELSE \/ ends("Failed")
                \/ /\ walk.pc = "output"
                   /\ head' = [head EXCEPT !.state = "Succeeded", !.result = walk.out]
        /\ walk' = Stopped("idle")
        /\ UNCHANGED <<rec, log>>

-----------------------------------------------------------------------------
(* Commands, crashes and boots; RunHead and Groups have the rest of them. *)
Cancel ==
    /\ walk.pc # "down" /\ head.state \in {"Running", "Blocked"} /\ ~head.cancel
    /\ head' = [head EXCEPT !.cancel = TRUE, !.state = "Running"]
    /\ UNCHANGED <<rec, walk, log>>

Reconcile ==
    /\ walk.pc = "idle" /\ head.state = "Blocked"
    /\ \E k \in Unknowns :
          \/ \E v \in Values : rec' = [rec EXCEPT ![k].state = "Succeeded", ![k].output = v]
          \/ rec' = [rec EXCEPT ![k].state = "Failed", ![k].error = "failed"]
          \/ ~head.cancel /\ rec' = [rec EXCEPT ![k].state = "Pending"]
    /\ head' = [head EXCEPT !.state = "Running"]
    /\ UNCHANGED <<walk, log>>

Crash ==
    /\ walk.pc # "down"
    /\ walk' = Stopped("down")
    /\ UNCHANGED <<head, rec, log>>

(* classify_unfinished: an attempt that was cut off is in doubt, may be      *)
(* repeated, or has used up its budget.                                      *)
Boot ==
    /\ walk.pc = "down"
    /\ walk' = Stopped("idle")
    /\ \E left \in {"Unknown", "Failed", IF head.cancel THEN "Cancelled" ELSE "Pending"} :
          rec' = [k \in DOMAIN rec |->
                    IF k \in Calls /\ rec[k].state = "Running"
                    THEN [rec[k] EXCEPT !.state = left,
                             !.error = CASE left = "Failed"    -> "failed"
                                         [] left = "Cancelled" -> "cancelled"
                                         [] OTHER              -> "none"]
                    ELSE rec[k]]
    /\ UNCHANGED <<head, log>>

Next ==
    \/ Spawn \/ View \/ Dispatch \/ Outcome
    \/ Enter \/ LoopTop \/ BodyEnds \/ BodyIterates \/ Save \/ Fail \/ Finish
    \/ Cancel \/ Reconcile \/ Crash \/ Boot
Spec == Init /\ [][Next]_vars

-----------------------------------------------------------------------------
(* What the definition means, for given answers of its operations: the calls *)
(* it makes, in order, and its output; neither records nor frames have a     *)
(* part in it.                                                               *)
Stop == "no answer"
Answer(k) == IF k \in DOMAIN rec /\ rec[k].state = "Succeeded" THEN rec[k].output ELSE Stop
Nothing == [calls |-> <<>>, out |-> Stop]
Then(r, s) == [calls |-> r.calls \o s.calls, out |-> s.out]

RECURSIVE Meaning(_, _, _)
RECURSIVE Iterations(_, _, _, _)

MeaningOf(scope, n, v) ==
    LET node == Plan[n]
        in(segment, body) == Meaning(Append(scope, <<n, segment>>), body, v)
    IN  CASE node.kind = "op" ->
                LET k == [scope |-> scope, node |-> n]
                IN  [calls |-> <<[key |-> k, input |-> v]>>, out |-> Answer(k)]
          [] node.kind = "decision" ->
                IF Matching(node.cases, v) = {} THEN Nothing
                ELSE in(First(node.cases, v).id, First(node.cases, v).body)
          [] node.kind = "sub" ->
                IF v \notin node.accepts THEN Nothing
                ELSE LET r == in("workflow", node.body)
                     IN  IF r.out \in node.returns THEN r ELSE [r EXCEPT !.out = Stop]
          [] node.kind = "loop" -> Iterations(scope, n, v, 0)

Meaning(scope, body, v) ==
    IF body = <<>> THEN [calls |-> <<>>, out |-> v]
    ELSE LET r == MeaningOf(scope, Head(body), v)
         IN  IF r.out = Stop THEN r ELSE Then(r, Meaning(scope, Tail(body), r.out))

Iterations(scope, n, v, i) ==
    LET node == Plan[n]
        r == Meaning(Append(scope, <<n, i>>), node.body, v)
    IN  IF v \notin node.while THEN [calls |-> <<>>, out |-> v]
        ELSE IF i >= node.most THEN [calls |-> <<>>, out |-> IF node.last THEN v ELSE Stop]
        ELSE IF r.out = Stop THEN r ELSE Then(r, Iterations(scope, n, r.out, i + 1))

(* However often the walk was cut off, blocked, resolved and resumed, the    *)
(* run calls what its definition means for the answers it was given, in that *)
(* order, once per activation and with that input, and ends with that output *)
(* (control.rs:516, control.rs:136, control.rs:87).                          *)
ProgramIsFollowed ==
    LET meant == Meaning(<<>>, Root, Input) IN
    /\ IsPrefix(log, meant.calls)
    /\ \A k \in Calls : [key |-> k, input |-> rec[k].input] \in ToSet(log)
    /\ head.state = "Succeeded" => log = meant.calls /\ head.result = meant.out
=============================================================================
