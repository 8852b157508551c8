-------------------------------- MODULE MCBoard --------------------------------
(* The board for TLC: its instances need no definitions of their own.       *)
EXTENDS Board
=============================================================================
