------------------------------- MODULE MCScreen -------------------------------
(* A small panel for TLC.                                                   *)
EXTENDS Screen

Corners == -1..4
=============================================================================
