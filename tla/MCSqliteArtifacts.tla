------------------------- MODULE MCSqliteArtifacts -------------------------
(* An instance of SqliteArtifacts for TLC: two artifacts, which are alike. *)
EXTENDS SqliteArtifacts, TLC

Swap == Permutations(Ids)
=============================================================================
