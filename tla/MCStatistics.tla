---------------------------- MODULE MCStatistics ----------------------------
(* Two connections that receive three times between them, and two frames:  *)
(* a byte is counted before, while and after main comes by.                *)
EXTENDS Statistics
=============================================================================
