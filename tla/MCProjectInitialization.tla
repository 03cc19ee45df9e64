----------------------- MODULE MCProjectInitialization -----------------------
EXTENDS ProjectInitialization, TLC

(* Nothing distinguishes one process or asset from another.                  *)
InitializationSymmetry == Permutations(Procs) \cup Permutations(Assets)
=============================================================================
