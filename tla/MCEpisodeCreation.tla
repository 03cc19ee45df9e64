-------------------------- MODULE MCEpisodeCreation ---------------------------
EXTENDS EpisodeCreation, TLC

CONSTANTS c1, c2, t, a, b, v
=============================================================================
