------------------------- MODULE MCProviderMigration -------------------------
EXTENDS ProviderMigration, TLC

(* Nothing distinguishes one task, Conversation or process from another.     *)
MigrationSymmetry ==
  Permutations(Tasks) \cup Permutations(Owners) \cup Permutations(Procs)
=============================================================================
