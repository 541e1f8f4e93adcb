----------------------------- MODULE Revisions ------------------------------
(***************************************************************************)
(* What a revision identifies: the catalog a composition is built with, the *)
(* registry of prepared revisions, the package a run is accepted with, and  *)
(* the plan recovered from it under a later composition.                    *)
(***************************************************************************)
EXTENDS Compiler

CONSTANTS
    Definitions,        \* what an application may prepare or a host may register
    Operations,         \* operations a host may register
    Contents,           \* descriptors an operation, or contents a schema, may have
    RegistryLimit,      \* 1000 in prepare_registered
    MaxRuns, MaxBuilds  \* bounds

(* A catalog holds one definition per revision: register_workflow.  The one  *)
(* enumerated are those a host can register.                                *)
Catalogs == {c \in SUBSET Definitions : \A d, e \in c : d.rev = e.rev => d = e}

VARIABLES
    phase,          \* of the composition: off, assembled, up
    builds,
    catalog, ops, schema,   \* composition.workflows, operations, schemas
    versions,       \* revision and content pairs registered by this runtime
    prepared,       \* plans returned to the application
    runs            \* accepted runs: [package, plan, state]

vars == <<phase, builds, catalog, ops, schema, versions, prepared, runs>>

NoPlan == [root |-> "none"]

(* compiler::prepare, and the package that Workflow resolves. *)
PlanOf(cat, impl, sch, d) ==
    LET c == Compile(cat, DOMAIN impl, d)
    IN  [root |-> d, ok |-> c.ok, defs |-> c.defs,
         ops |-> {<<o, impl[o]>> : o \in c.ops}, schema |-> sch]

TypeOK ==
    /\ phase \in {"off", "assembled", "up"} /\ builds \in 0..MaxBuilds
    /\ catalog \in Catalogs /\ versions \subseteq Definitions
    /\ \A p \in prepared : p.ok /\ p.root \in p.defs /\ p.defs \subseteq Definitions
    /\ \A i \in DOMAIN runs : runs[i].state \in {"accepted", "running", "blocked"}

Init ==
    /\ phase = "off" /\ builds = 0 /\ catalog = {} /\ ops = <<>> /\ schema \in Contents
    /\ versions = {} /\ prepared = {} /\ runs = <<>>

(* recover_operation: the implementation with the accepted descriptor. *)
Available(impl, o) == o[1] \in DOMAIN impl /\ impl[o[1]] = o[2]

(* Mutant: the plan is prepared again from the current catalog. *)
Recovered_CurrentCatalog(impl, package) ==
    LET plan == PlanOf(catalog, [o \in {x[1] : x \in package.ops} |-> impl[o]],
                       package.schema, package.root)
    IN  IF /\ \A o \in package.ops : Available(impl, o)
           /\ package.root \in package.defs
           /\ plan.ok /\ plan.defs = package.defs /\ plan.ops = package.ops
        THEN plan ELSE NoPlan

(* recover: the package replaces the catalog, the operations and schemas.   *)
(* Its budgets, of the host, and the resources of the run are left out.     *)
Recovered(impl, package) ==
    LET plan == PlanOf(package.defs, [o \in {x[1] : x \in package.ops} |-> impl[o]],
                       package.schema, package.root)
    IN  IF /\ \A o \in package.ops : Available(impl, o)
           /\ package.root \in package.defs
           /\ plan.ok /\ plan.defs = package.defs /\ plan.ops = package.ops
        THEN plan ELSE NoPlan

(* The host registers its catalog, operations and schemas. *)
Assemble ==
    /\ phase = "off" /\ builds < MaxBuilds
    /\ catalog' \in Catalogs /\ schema' \in Contents
    /\ \E known \in SUBSET Operations : ops' \in [known -> Contents]
    /\ phase' = "assembled" /\ builds' = builds + 1
    /\ UNCHANGED <<versions, prepared, runs>>

(* build prepares every definition of the catalog; boot recovers every run. *)
Build ==
    /\ phase = "assembled"
    /\ IF \A d \in catalog : PlanOf(catalog, ops, schema, d).ok
       THEN /\ phase' = "up"
            /\ runs' = [i \in DOMAIN runs |->
                 LET plan == Recovered(ops, runs[i].package)
                 IN  [runs[i] EXCEPT !.plan = plan,
                        !.state = IF plan = NoPlan THEN "blocked" ELSE "running"]]
       ELSE phase' = "off" /\ UNCHANGED runs
    /\ UNCHANGED <<builds, catalog, ops, schema, versions, prepared>>

Conflicts(plan) == \E d \in plan.defs, e \in versions : d.rev = e.rev /\ d # e

(* prepare, and prepare_registered: one at a time, since the lock of        *)
(* admission is held from the compilation to the registration.              *)
Prepare ==
    /\ phase = "up"
    /\ \E d \in Definitions :
          LET plan == PlanOf(catalog, ops, schema, d)
          IN  /\ plan.ok /\ ~Conflicts(plan)
              /\ Cardinality(versions \cup plan.defs) <= RegistryLimit
              /\ versions' = versions \cup plan.defs /\ prepared' = prepared \cup {plan}
    /\ UNCHANGED <<phase, builds, catalog, ops, schema, runs>>

Start ==
    /\ phase = "up" /\ Len(runs) < MaxRuns
    /\ \E plan \in prepared :
          runs' = Append(runs, [package |-> plan, plan |-> plan, state |-> "accepted"])
    /\ UNCHANGED <<phase, builds, catalog, ops, schema, versions, prepared>>

(* Plans and the registry are memory; the runs are stored. *)
Crash ==
    /\ phase = "up" /\ phase' = "off"
    /\ versions' = {} /\ prepared' = {}
    /\ runs' = [i \in DOMAIN runs |-> [runs[i] EXCEPT !.plan = NoPlan]]
    /\ UNCHANGED <<builds, catalog, ops, schema>>

Next == Assemble \/ Build \/ Prepare \/ Start \/ Crash
Spec == Init /\ [][Next]_vars

-----------------------------------------------------------------------------
(* The compiler accepts exactly the definitions whose unfolding resolves,    *)
(* has no cycle and fits its limits, and resolves exactly what the unfolding *)
(* needs (compiler/control.rs:25-247): a workflow used twice is fine.        *)
CompileVerdict ==
    phase = "assembled" =>
       \A d \in Definitions :
            LET c == Compile(catalog, DOMAIN ops, d)
            IN  /\ c.ok = Acceptable(catalog, DOMAIN ops, d)
                /\ c.ok => /\ c.ops = NeedsOps(catalog, d)
                           /\ c.defs = NeedsDefs(catalog, d)

(* Within a composition a revision has one content, over all plans it ever   *)
(* returned, the subworkflows included (application.rs:363).                 *)
RevisionIsOneContent ==
    \A p, q \in prepared : \A d \in p.defs, e \in q.defs : d.rev = e.rev => d = e

(* A run executes the definitions, descriptors and schemas it was accepted   *)
(* with, whatever the host registered since (compiler/recovery.rs:62).       *)
ExecutesWhatWasAccepted ==
    \A i \in DOMAIN runs :
       runs[i].plan # NoPlan =>
          /\ runs[i].plan = runs[i].package
          /\ \A o \in runs[i].plan.ops : Available(ops, o)

(* Only an operation that is gone or changed blocks a recovered run: other   *)
(* definitions in the catalog, or none, do not, under a host whose budgets   *)
(* admit the package (compiler/recovery.rs:80).                              *)
RecoverableWhenImplemented ==
    \A i \in DOMAIN runs :
       runs[i].state = "blocked" /\ phase = "up" =>
          \E o \in runs[i].package.ops : ~Available(ops, o)
=============================================================================
