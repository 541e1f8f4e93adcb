----------------------------- MODULE Migration ------------------------------
(***************************************************************************)
(* Opening a SQLite store of an older version (schema.rs, migration.rs):    *)
(* one transaction, under the lock beside the file, that adds the column of *)
(* version 3 and rewrites every frozen package, run, invocation record and  *)
(* receipt from format 2 to 3, one record at a time.  The process may die   *)
(* at any step, and processes with different budgets take turns.            *)
(*                                                                         *)
(* A package is stored under the hash of its bytes, taken to be injective:  *)
(* its identity is its body.  Format 2 may spell one content in two ways;   *)
(* the program writes format 3 in one.  The growth of the file by the       *)
(* migration itself, against the page budget, is left out; what the file    *)
(* holds when it is opened is compared with it.                             *)
(***************************************************************************)
EXTENDS Naturals, FiniteSets, FiniteSetsExt

CONSTANTS
    Processes,
    StoredRuns, Records, Receipts,
    Bodies,             \* the packages stored: [format, content, spelling]
    Fits(_, _),         \* is a content, a run, a record, a receipt or the file
                        \* within the process's budgets
    MaxCrashes

ASSUME MigrationAssumption ==
    /\ IsFiniteSet(Bodies)
    /\ \A b \in Bodies : /\ b = [format |-> b.format, content |-> b.content, spelling |-> b.spelling]
                       /\ b.content # "changed"    \* the name of damaged content
    /\ "nobody" \notin Processes

Format  == 3            \* CHECKPOINT_FORMAT
Version == 3            \* SCHEMA_VERSION
Nobody  == "nobody"
File    == "file"       \* for the page budget

VARIABLES
    db,         \* the committed file
    original,   \* the file as it was found (history)
    lock,       \* the process that holds the owner lock
    pc,         \* what each process does
    tx,         \* the uncommitted database of the lock's holder
    pass,       \* the last package visited, and the last to visit
    crashes

migrationVars == <<db, original, lock, pc, tx, pass, crashes>>

(* A database: application id and schema version, whether wf_runs has the
   column of version 3, and the rows of its tables. *)
Empty == [app |-> "none", version |-> 0, column |-> FALSE, packages |-> {},
          runs |-> <<>>, records |-> <<>>, receipts |-> <<>>]

(* The files an older build, or another program, may have left: packages
   numbered in the order of their insertion, runs that use them. *)
Older ==
    [app : {"forge"}, version : {1, 2}, column : {FALSE},
     packages : {{[rowid |-> i, id |-> f[i], body |-> f[i]] : i \in DOMAIN f} :
                    f \in UNION {{f \in [1..n -> Bodies] : \A i, j \in 1..n : f[i] = f[j] => i = j}
                                   : n \in 1..Cardinality(Bodies)}},
     runs : [StoredRuns -> [format : {2}, package : Bodies, state : {"waiting", "succeeded"},
                      waits : {FALSE}, wakeup : {"none"}]],
     records : [Records -> {2}], receipts : [Receipts -> {2}]]

Damaged(d) ==
    {[d EXCEPT !.version = 4], [d EXCEPT !.app = "other"], [d EXCEPT !.app = "none"]}
    \cup {[d EXCEPT !.runs[r].waits = TRUE] : r \in StoredRuns}
    \cup {[d EXCEPT !.records[r] = 1] : r \in Records}
    \cup {[d EXCEPT !.packages = {[p EXCEPT !.id = [@ EXCEPT !.content = "changed"]]
                                     : p \in d.packages}]}

MigrationInit ==
    /\ \/ db = Empty
       \/ \E d \in Older :
             /\ {d.runs[r].package : r \in StoredRuns} = {p.id : p \in d.packages}
             /\ db \in {d} \cup Damaged(d)
    /\ original = db
    /\ lock = Nobody /\ pc = [p \in Processes |-> "idle"] /\ tx = Empty
    /\ pass = [at |-> 0, last |-> 0] /\ crashes = 0

-----------------------------------------------------------------------------
To(p, step) == pc' = [pc EXCEPT ![p] = step]
Working(p)  == lock = p /\ UNCHANGED <<db, original, lock, crashes>>

(* An error leaves the function: the transaction, the connection and the
   lock are dropped. *)
Abandon(p) ==
    /\ To(p, "failed") /\ lock' = Nobody /\ tx' = Empty /\ pass' = [at |-> 0, last |-> 0]
    /\ UNCHANGED <<db, original, crashes>>

Acquire(p) ==
    /\ pc[p] \in {"idle", "failed"} /\ lock = Nobody
    /\ lock' = p /\ To(p, "check")
    /\ UNCHANGED <<db, original, tx, pass, crashes>>

Foreign(d) ==
    \/ d.app \notin {"none", "forge"} \/ d.version > Version
    \/ d.app = "none" /\ (d.version # 0 \/ d # Empty)
    \/ d.app = "forge" /\ d.version = 0

CheckHeader(p) ==
    /\ pc[p] = "check" /\ lock = p
    /\ \/ (Foreign(db) \/ ~Fits(p, File)) /\ Abandon(p)
       \/ /\ ~Foreign(db) /\ Fits(p, File) /\ Working(p) /\ UNCHANGED pass
          /\ IF db.version = Version THEN To(p, "open") /\ UNCHANGED tx
                                     ELSE To(p, "schema") /\ tx' = db

(* The scripts v1 to v3; a second ALTER of the same table is an error. *)
Schema(p) ==
    /\ pc[p] = "schema" /\ lock = p
    /\ \/ tx.column /\ Abandon(p)
       \/ /\ ~tx.column /\ Working(p) /\ To(p, "packages")
          /\ tx' = [tx EXCEPT !.column = TRUE]
          /\ pass' = [at |-> 0, last |-> Max({0} \cup {k.rowid : k \in tx.packages})]

Upgraded(body) == [format |-> Format, content |-> body.content, spelling |-> "ours"]

(* The new package is inserted unless its hash is there, the runs move to it,
   and only then can the old one be deleted (a foreign key). *)
Replaced(d, k) ==
    LET new == Upgraded(k.body)
        there == \E q \in d.packages : q.id = new
    IN  [d EXCEPT
          !.packages = {q \in @ : q.id # k.id} \cup
             (IF there THEN {} ELSE {[rowid |-> 1 + Max({q.rowid : q \in @}), id |-> new, body |-> new]}),
          !.runs = [r \in DOMAIN @ |-> IF @[r].package = k.id THEN [@[r] EXCEPT !.package = new] ELSE @[r]]]

Ahead == {k \in tx.packages : k.rowid > pass.at /\ k.rowid <= pass.last}

Convertible(p, k) ==
    /\ k.id = k.body /\ k.body.format \in {2, Format}
    /\ Fits(p, k.body.content)

Package(p) ==
    /\ pc[p] = "packages" /\ lock = p
    /\ IF Ahead = {}
       THEN Working(p) /\ To(p, "runs") /\ UNCHANGED <<tx, pass>>
       ELSE LET k == CHOOSE next \in Ahead : \A q \in Ahead : next.rowid <= q.rowid
            IN  \/ ~Convertible(p, k) /\ Abandon(p)
                \/ /\ Convertible(p, k) /\ Working(p)
                   /\ tx' = IF k.body.format = 2 THEN Replaced(tx, k) ELSE tx
                   /\ pass' = [pass EXCEPT !.at = k.rowid]
                   /\ UNCHANGED pc

(* The rows of the other tables, in the order of the tables; the order of the
   rows of one table tells nothing apart. *)
FrozenRun(p) ==
    /\ pc[p] = "runs" /\ lock = p
    /\ \/ \E r \in DOMAIN tx.runs :
             /\ tx.runs[r].format # Format
             /\ \/ (tx.runs[r].format # 2 \/ tx.runs[r].waits \/ ~Fits(p, r)) /\ Abandon(p)
                \/ /\ tx.runs[r].format = 2 /\ ~tx.runs[r].waits /\ Fits(p, r) /\ Working(p)
                   /\ tx' = [tx EXCEPT !.runs[r].format = Format]
                   /\ UNCHANGED <<pc, pass>>
       \/ /\ \A r \in DOMAIN tx.runs : tx.runs[r].format = Format
          /\ Working(p) /\ To(p, "records") /\ UNCHANGED <<tx, pass>>

Suitable(p, table) == \A r \in DOMAIN table : table[r] \in {2, Format} /\ Fits(p, r)

(* Mutant: the last table is left as it is. *)
Rows_NoReceipts(p) ==
    /\ pc[p] = "records" /\ lock = p
    /\ \/ ~Suitable(p, tx.records) /\ Abandon(p)
       \/ /\ Suitable(p, tx.records)
          /\ Working(p) /\ To(p, "version") /\ UNCHANGED pass
          /\ tx' = [tx EXCEPT !.records = [r \in DOMAIN @ |-> Format]]

(* The last two tables, in one step: a death between two of their rows drops
   the transaction as one between two runs does. *)
Rows(p) ==
    /\ pc[p] = "records" /\ lock = p
    /\ \/ ~(Suitable(p, tx.records) /\ Suitable(p, tx.receipts)) /\ Abandon(p)
       \/ /\ Suitable(p, tx.records) /\ Suitable(p, tx.receipts)
          /\ Working(p) /\ To(p, "version") /\ UNCHANGED pass
          /\ tx' = [tx EXCEPT !.records = [r \in DOMAIN @ |-> Format],
                              !.receipts = [r \in DOMAIN @ |-> Format]]

Stamped(d) ==
    [d EXCEPT !.app = "forge", !.version = Version,
       !.runs = [r \in DOMAIN @ |->
                   IF @[r].state = "waiting" THEN [@[r] EXCEPT !.wakeup = "deadline"] ELSE @[r]]]

Commit(p) ==
    /\ pc[p] = "version" /\ lock = p
    /\ db' = Stamped(tx) /\ To(p, "open") /\ tx' = Empty
    /\ UNCHANGED <<original, lock, pass, crashes>>

Close(p) ==
    /\ pc[p] = "open" /\ lock = p
    /\ lock' = Nobody /\ To(p, "idle")
    /\ UNCHANGED <<db, original, tx, pass, crashes>>

Die(p) ==
    /\ lock = p /\ crashes < MaxCrashes /\ crashes' = crashes + 1
    /\ lock' = Nobody /\ To(p, "idle") /\ tx' = Empty
    /\ UNCHANGED <<db, original, pass>>

MigrationNext ==
    \E p \in Processes :
        \/ Acquire(p) \/ CheckHeader(p) \/ Schema(p) \/ Package(p) \/ FrozenRun(p) \/ Rows(p)
        \/ Commit(p) \/ Close(p) \/ Die(p)

MigrationSpec == MigrationInit /\ [][MigrationNext]_migrationVars

-----------------------------------------------------------------------------
(* The file is the old one or a whole new one: every record in format 3, a   *)
(* run that waits wakes at its deadline, and every run has the package it    *)
(* had, which no other row doubles (CONTRACTS.md: migrations preserve        *)
(* compatible older persisted state transactionally).                       *)
Whole(d) ==
    /\ d.version = Version /\ d.column
    /\ \A k \in d.packages : k.id = k.body /\ k.body.format = Format
    /\ \A k, q \in d.packages : k.id = q.id => k = q
    /\ \A r \in DOMAIN d.runs :
          /\ d.runs[r].format = Format
          /\ d.runs[r].wakeup = IF d.runs[r].state = "waiting" THEN "deadline" ELSE "none"
          /\ \E k \in d.packages : k.id = d.runs[r].package
          /\ d.runs[r].package.content = original.runs[r].package.content
    /\ {k.id : k \in d.packages} = {d.runs[r].package : r \in DOMAIN d.runs}
    /\ \A r \in DOMAIN d.records : d.records[r] = Format
    /\ \A r \in DOMAIN d.receipts : d.receipts[r] = Format

AllOrNothing ==
    db = original \/ (Whole(db) /\ DOMAIN db.runs = DOMAIN original.runs)

NotAStore(d) == d.version > Version \/ (d.app # "forge" /\ d # Empty)

(* Nothing but what is in the file, or a budget of the process, keeps a      *)
(* store from opening: no earlier crash, failure or opening does.           *)
Openable(p, d) ==
    /\ ~NotAStore(d) /\ Fits(p, File)
    /\ d.version < Version =>
         /\ \A k \in d.packages : k.id = k.body /\ k.body.format = 2 /\ Fits(p, k.body.content)
         /\ \A r \in DOMAIN d.runs : d.runs[r].format = 2 /\ ~d.runs[r].waits /\ Fits(p, r)
         /\ \A r \in DOMAIN d.records : d.records[r] = 2 /\ Fits(p, r)
         /\ \A r \in DOMAIN d.receipts : d.receipts[r] = 2 /\ Fits(p, r)

FailsForCause == \A p \in Processes : pc[p] = "failed" => ~Openable(p, original)

(* A file that is not a store, or a newer one, is never written
   (schema.rs:12-29). *)
ForeignIsUntouched == NotAStore(original) => db = original

(* A migration happens once and wholly, fails for a cause in the file, and  *)
(* leaves foreign files alone (schema.rs:12-29, schema.rs:41).              *)
MigratesOnce == AllOrNothing /\ FailsForCause /\ ForeignIsUntouched
=============================================================================
