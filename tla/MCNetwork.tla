----------------------------- MODULE MCNetwork -----------------------------
(* The interception network alone, for TLC.                                *)
EXTENDS Network

MCNodes == {1, 2}
=============================================================================
