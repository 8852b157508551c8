------------------------------ MODULE MCFatChain ------------------------------
(* Volumes for TLC.                                                         *)
EXTENDS FatChain, TLC

CONSTANTS f1, f2

TwoFiles == {f1, f2}
LongOnly == {f1}

\* Clusters 2 to 6 in FAT sectors of four entries, so that 3 is the last entry of one,
\* and four volumes that leave it alone: a chain of three clusters and a file of one
\* with no other cluster left; an empty file and a file of two; a file that starts in
\* cluster 2 and a file of two.
Table(links) == [c \in Slots |-> IF c \in DOMAIN links THEN links[c] ELSE Free]
Volume(links, h1, h2, next, free) ==
  [fat |-> Table(links), dir |-> (f1 :> h1) @@ (f2 :> h2), next |-> next, free |-> free]

FullVolume  == Volume((4 :> 6) @@ (6 :> 2) @@ (2 :> Eof) @@ (5 :> Eof), 4, 5, 0, 0)
EmptyFile   == Volume((5 :> 4) @@ (4 :> Eof), None, 5, 0, 0)
LowCluster  == Volume((2 :> 6) @@ (6 :> Eof) @@ (5 :> 4) @@ (4 :> Eof), 2, 5, 0, 0)
\* A FAT32 volume with one file, the entry of the other one deleted.
Fat32Volume == Volume((5 :> 6) @@ (6 :> 4) @@ (4 :> Eof), 5, Deleted, 4, 2)
SomeVolumes == {FullVolume, EmptyFile, LowCluster, Fat32Volume}
=============================================================================
