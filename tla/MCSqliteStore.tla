--------------------------- MODULE MCSqliteStore ---------------------------
(* An instance of SqliteStore for TLC: two runtimes in two processes, which *)
(* are alike.                                                              *)
EXTENDS SqliteStore, TLC

Swap == Permutations(Owners) \cup Permutations(Processes)

MCRecords == {[kind |-> "operation", state |-> "Running",   applied |-> TRUE,  bytes |-> 1],
              [kind |-> "operation", state |-> "Succeeded", applied |-> TRUE,  bytes |-> 2]}
MCInside == [p \in Paths |-> {}]
=============================================================================
