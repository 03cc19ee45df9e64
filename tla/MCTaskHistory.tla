--------------------------- MODULE MCTaskHistory ---------------------------
EXTENDS TaskHistory, TLC

ProcSymmetry == Permutations(Procs)

=============================================================================
