------------------------------ MODULE MCGroups ------------------------------
(* Instances of Groups for TLC. *)
EXTENDS Groups

MCNested   == [g |-> <<"a", "h">>, h |-> <<"b", "s">>]
MCPair     == [g |-> <<"a", "b">>]
MCNarrow   == [g |-> 1, h |-> 2]
MCFlatTwo  == [g |-> 2]
=============================================================================
