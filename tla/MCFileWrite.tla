------------------------------ MODULE MCFileWrite ------------------------------
(* Small volumes for TLC: a file of one full cluster; one of three clusters   *)
(* whose numbers go up and down; one on volumes with one unused cluster, after*)
(* or before the file, and with none; and one in cluster 2; each beside       *)
(* another file.  And an empty file with room to grow.                        *)
EXTENDS FileWrite, TLC

SixClusters == 2..7
Table(links) == [c \in Clusters |-> IF c \in DOMAIN links THEN links[c] ELSE Free]
Volume(h, s, links) == [head |-> h, size |-> s, fat |-> Table(links)]
Ordinary ==
  {Volume(4, 4, (4 :> Eof) @@ (2 :> 5) @@ (5 :> Eof)),
   Volume(5, 9, (5 :> 3) @@ (3 :> 6) @@ (6 :> Eof) @@ (4 :> Eof)),
   Volume(3, 3, (3 :> Eof) @@ (2 :> 4) @@ (4 :> 6) @@ (6 :> 7) @@ (7 :> Eof)),
   Volume(3, 3, (3 :> Eof) @@ (5 :> 4) @@ (4 :> 6) @@ (6 :> 7) @@ (7 :> Eof)),
   Volume(3, 3, (3 :> Eof) @@ (2 :> 4) @@ (4 :> 6) @@ (6 :> 7) @@ (7 :> 5) @@ (5 :> Eof)),
   Volume(2, 2, (2 :> Eof) @@ (5 :> 4) @@ (4 :> Eof))}
EmptyFile == {Volume(Empty, 0, (2 :> 3) @@ (3 :> Eof))}
=============================================================================
