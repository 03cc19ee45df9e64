------------------------- MODULE MCEpisodeOwnership -------------------------
(* Conversations, tasks and folders of the run of EpisodeOwnership.  It     *)
(* checks liveness, and uses no symmetry.                                   *)
EXTENDS EpisodeOwnership
=============================================================================
