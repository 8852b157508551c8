----------------------------- MODULE MCFileCursor -----------------------------
(* A chain for TLC: out of order on the disk, across two FAT sectors.       *)
EXTENDS FileCursor

ThreeClusters == <<5, 3, 6>>
=============================================================================
