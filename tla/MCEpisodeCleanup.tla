-------------------------- MODULE MCEpisodeCleanup --------------------------
(* A root session r, its child a, and the child b of a. *)
EXTENDS EpisodeCleanup, TLC

CONSTANTS r, a, b

Lineage == [s \in Sessions |-> CASE s = r -> {} [] s = a -> {r} [] OTHER -> {r, a}]
=============================================================================
