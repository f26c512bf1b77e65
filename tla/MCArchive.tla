------------------------------- MODULE MCArchive -------------------------------
(* Archive for TLC: a beatmapset of two beatmaps.                          *)
EXTENDS Archive

TwoMaps == <<"m1", "m2">>

=============================================================================
