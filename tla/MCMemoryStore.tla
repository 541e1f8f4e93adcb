--------------------------- MODULE MCMemoryStore ---------------------------
(* An instance of MemoryStore for TLC: two runtimes, which are alike. *)
EXTENDS MemoryStore, TLC

Swap == Permutations(Owners)

MCRecords == {[kind |-> "operation", state |-> "Running",   applied |-> TRUE,  bytes |-> 1],
              [kind |-> "operation", state |-> "Succeeded", applied |-> TRUE,  bytes |-> 2],
              [kind |-> "wait",      state |-> "Running",   applied |-> FALSE, bytes |-> 1]}
MCInside  == [p \in Paths |-> {"a/b"} \cap (Paths \ {p})]
=============================================================================
