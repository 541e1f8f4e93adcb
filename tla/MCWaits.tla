------------------------------ MODULE MCWaits ------------------------------
(* Instances of Waits for TLC. *)
EXTENDS Waits

MCKeyedSafe  == <<"Keyed", "Safe">>
MCUnsafeSafe == <<"Unsafe", "Safe">>
MCWriteRead  == <<"Write", "Read">>
MCTwoOne     == <<2, 1>>
MCOneOne     == <<1, 1>>
=============================================================================
