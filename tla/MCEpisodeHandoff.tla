-------------------------- MODULE MCEpisodeHandoff --------------------------
(* The bounds are in the configurations. *)
EXTENDS EpisodeHandoff, TLC
=============================================================================
