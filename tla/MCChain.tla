------------------------------ MODULE MCChain ------------------------------
(* Instances of Chain for TLC. *)
EXTENDS Chain

MCUnsafeKeyed     == <<"Unsafe", "Keyed">>
MCWrites          == <<"Write", "Write">>
MCTwoAttempts     == <<2, 2>>
=============================================================================
