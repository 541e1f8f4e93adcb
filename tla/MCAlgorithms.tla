---------------------------- MODULE MCAlgorithms ----------------------------
(***************************************************************************)
(* Instances for TLC of what runs by itself: the compiler's verdict on      *)
(* every small catalog of shapes, the order of every small body, the        *)
(* revisions of one catalog over two compositions, the walk of a program of *)
(* nested bodies, the arithmetic of retries, and the migration of a file.   *)
(* A behaviour is about one of them, its subject; the variables of the      *)
(* others stand still.                                                      *)
(***************************************************************************)
EXTENDS Revisions, BodyOrder, Migration

VARIABLES
    subject,    \* "shapes", "revisions", "order", "program", "retries" or "migration"
    head, rec, walk, log,                                                     \* of Control
    policy, deadline, attempt, now, due                                       \* of Backoff

Def(r, b) == [rev |-> r, body |-> b]

(* A diamond, and two contents of its subworkflow. *)
MCDefinitions == {
    Def("w", <<Sub("v"), Sub("v")>>),
    Def("v", <<Op("p")>>),
    Def("v", <<In(<<Op("p")>>), Op("q")>>)}

(* Shapes for the compiler alone: nesting, cycles, budgets, missing names. *)
MCShapes == {
    Def("w", <<Sub("v"), Sub("u")>>),
    Def("w", <<In(<<Sub("v"), Op("p")>>)>>),
    Def("w", <<Sub("w")>>),
    Def("w", <<Sub("u"), Sub("u"), Op("p")>>),
    Def("v", <<Sub("u")>>),
    Def("v", <<Op("p"), Op("q"), Op("p")>>),
    Def("v", <<In(<<In(<<Op("p")>>)>>)>>),
    Def("v", <<Sub("w")>>),
    Def("v", <<Wait("p"), In(<<Wait("q")>>)>>),
    Def("v", <<Op("p"), In(<<Op("p"), Op("p")>>), In(<<Op("p")>>)>>),
    Def("u", <<Op("p")>>),
    Def("u", <<In(<<Op("q"), Op("p")>>), Op("p")>>),
    Def("u", <<Sub("v"), Op("p")>>)}

Shapes == INSTANCE Revisions WITH
    Definitions <- MCShapes, NodeLimit <- 4, Activations <- 7, Contents <- {1},
    MaxRuns <- 0, MaxBuilds <- 1

(* A loop over a decision, one of whose cases is a subworkflow that is a loop *)
(* itself; the first operation chooses the state the loop starts with.       *)
AnOp == [kind |-> "op"]
MCPlan == [
    o |-> AnOp, a |-> AnOp, b |-> AnOp,
    m |-> [kind |-> "loop", while |-> {"left", "right", "up", "down"}, most |-> 2, last |-> TRUE,
           body |-> <<"d">>],
    d |-> [kind |-> "decision",
           cases |-> <<[id |-> "l", when |-> {"left"}, body |-> <<"a">>],
                       [id |-> "r", when |-> {"right", "up"}, body |-> <<"w">>]>>],
    w |-> [kind |-> "sub", accepts |-> {"right"}, returns |-> {"stop", "left"},
           body |-> <<"n">>],
    n |-> [kind |-> "loop", while |-> {"right"}, most |-> 1, last |-> FALSE, body |-> <<"b">>]]

Program == INSTANCE Control WITH
    Values <- {"stop", "left", "right", "up", "down"}, Input <- "left", Root <- <<"o", "m">>, Plan <- MCPlan

(* Words of four bits, attempts beyond them, and clocks at both ends. *)
Retries == INSTANCE Backoff WITH W <- 4, HostAttempts <- 7, Deadlines <- {0, 6, 13, 15}

(* Two runs, over three bodies of which two have one content, so one package *)
(* or two; every process but the large one is refused by a budget: the other *)
(* content, the run q, the receipt k, or the pages of the file.              *)
MCBodies == {[format |-> 2, content |-> "c1", spelling |-> "ours"],
             [format |-> 2, content |-> "c1", spelling |-> "theirs"],
             [format |-> 2, content |-> "c2", spelling |-> "ours"]}
MCFits(p, x) ==
    x # CASE p = "small" -> "c2" [] p = "slim" -> "q" [] p = "narrow" -> "k"
          [] p = "full" -> File [] p = "large" -> "none"

walks == <<head, rec, walk, log>>
retry == <<policy, deadline, attempt, now, due>>

NoBody ==
    /\ entry = "?" /\ edges = <<>> /\ uses = {} /\ read = 0 /\ next = <<>> /\ previous = {}
    /\ bad = FALSE /\ cursor = "?" /\ order = <<>> /\ verdict = "none"
NoWalk  == head = "none" /\ rec = <<>> /\ walk = "none" /\ log = <<>>
NoRetry == policy = "none" /\ deadline = 0 /\ attempt = 0 /\ now = 0 /\ due = {}
NoCatalog ==
    /\ phase = "off" /\ builds = 0 /\ catalog = {} /\ ops = <<>> /\ schema = 1
    /\ versions = {} /\ prepared = {} /\ runs = <<>>
NoFile ==
    /\ db = Empty /\ original = Empty /\ lock = Nobody /\ pc = [p \in Processes |-> "idle"]
    /\ tx = Empty /\ pass = [at |-> 0, last |-> 0] /\ crashes = 0

MCInit ==
    \/ subject = "shapes" /\ Shapes!Init /\ NoBody /\ NoWalk /\ NoRetry /\ NoFile
    \/ subject = "revisions" /\ Init /\ NoBody /\ NoWalk /\ NoRetry /\ NoFile
    \/ subject = "order" /\ OrderInit /\ NoCatalog /\ NoWalk /\ NoRetry /\ NoFile
    \/ subject = "program" /\ Program!Init /\ NoCatalog /\ NoBody /\ NoRetry /\ NoFile
    \/ subject = "retries" /\ Retries!Init /\ NoCatalog /\ NoBody /\ NoWalk /\ NoFile
    \/ subject = "migration" /\ MigrationInit /\ NoCatalog /\ NoBody /\ NoWalk /\ NoRetry

MCNext ==
    /\ UNCHANGED subject
    /\ \/ subject = "shapes" /\ Shapes!Assemble
          /\ UNCHANGED <<orderVars, walks, retry, migrationVars>>
       \/ subject = "revisions" /\ Next /\ UNCHANGED <<orderVars, walks, retry, migrationVars>>
       \/ subject = "order" /\ OrderNext /\ UNCHANGED <<vars, walks, retry, migrationVars>>
       \/ subject = "program" /\ Program!Next
          /\ UNCHANGED <<vars, orderVars, retry, migrationVars>>
       \/ subject = "retries" /\ Retries!Next
          /\ UNCHANGED <<vars, orderVars, walks, migrationVars>>
       \/ subject = "migration" /\ MigrationNext /\ UNCHANGED <<vars, orderVars, walks, retry>>

MCSpec == MCInit /\ [][MCNext]_<<subject, vars, orderVars, walks, retry, migrationVars>>

(* The compiler accepts exactly what unfolds within its limits, and orders  *)
(* exactly the bodies that are one chain (compiler/control.rs:25-247, 603). *)
VerdictsAreExact ==
    /\ subject = "shapes" => Shapes!CompileVerdict
    /\ subject = "revisions" => CompileVerdict
    /\ subject = "order" => OrderIsTheChain /\ WalkNeverReturns

(* A run keeps the definitions, descriptors and schemas it was accepted     *)
(* with, a revision has one content, and only a missing or changed          *)
(* implementation blocks its recovery (application.rs:363,                  *)
(* compiler/recovery.rs:62).                                                *)
RevisionsAreKept ==
    ExecutesWhatWasAccepted /\ RevisionIsOneContent /\ RecoverableWhenImplemented

(* The delay of a retry is the exponential of its policy, or a fraction of  *)
(* it, and neither wraps (backoff.rs:8-16).                                 *)
DelaysAreExact ==
    subject = "retries" => Retries!BoundIsExponential /\ Retries!JitterIsProportional

(* However often a walk is cut off, blocked, resolved and resumed, it makes  *)
(* the calls the definition means, once each, and ends with its output       *)
(* (control.rs:516, control.rs:136).                                         *)
ProgramIsFollowed == subject = "program" => Program!ProgramIsFollowed
=============================================================================
