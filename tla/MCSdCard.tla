------------------------------- MODULE MCSdCard -------------------------------
(* A small card for TLC.                                                    *)
EXTENDS SdCard

AllKinds == {"sd1", "sd2", "sdhc"}
=============================================================================
