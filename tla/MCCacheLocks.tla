----------------------------- MODULE MCCacheLocks -----------------------------
(* Model values and sets of calls for TLC.                                 *)
EXTENDS CacheLocks

CONSTANTS c1, c2

TwoCores == {c1, c2}

EveryCall == CallNames
=============================================================================
