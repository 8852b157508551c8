-------------------------------- MODULE MCMount --------------------------------
(* Cards for TLC: two volumes of each width, sizes at and next to the limits of *)
(* FAT12, FAT16 and FAT32, and tables and sectors that are not what they should *)
(* be.                                                                          *)
EXTENDS Mount, TLC

\* A boot sector for n clusters of k sectors, its tables just large enough.
Fat16(n, k, entries) ==
  LET perFat == Sectors((n + 2) * 2)
  IN [signed |-> TRUE, bytes |-> 512, perCluster |-> k, reserved |-> 1, fats |-> 2,
      perFat |-> perFat, rootEntries |-> entries, root |-> 0, info |-> 0,
      total |-> 1 + 2 * perFat + Sectors(entries * 32) + n * k]
Fat32(n, k) ==
  LET perFat == Sectors((n + 2) * 4)
  IN [signed |-> TRUE, bytes |-> 512, perCluster |-> k, reserved |-> 32, fats |-> 2,
      perFat |-> perFat, rootEntries |-> 0, root |-> 2, info |-> 1,
      total |-> 32 + 2 * perFat + n * k]
Other == [signed |-> FALSE]

Part(status, kind, start, b) ==
  [status |-> status, kind |-> kind, start |-> start,
   count |-> IF b.signed THEN b.total + 3 ELSE 10]
\* Two volumes, the second one right after the first.
Card(b1, b2, status, kind) ==
  LET p1 == Part(0, 12, 63, b1)
      p2 == Part(status, kind, 63 + p1.count, b2)
  IN [signed |-> TRUE, parts |-> (0 :> p1) @@ (2 :> p2),
      boots |-> (63 :> b1) @@ (p2.start :> b2),
      infos |-> {64, p2.start + 1}]
Ordinary(b1, b2) == Card(b1, b2, 128, 6)

SomeCards ==
  {Ordinary(Fat16(n, k, e), Fat32(m, k)) :
     n \in {4085, 4087, 65524}, k \in {1, 8}, e \in {512, 500}, m \in {65525, 65526}}
  \union
  {Ordinary(Fat32(70000, 1), Fat16(4084, 1, 512)),
   Ordinary(Other, [Fat16(5000, 4, 512) EXCEPT !.bytes = 1024]),
   Ordinary([Fat32(70000, 2) EXCEPT !.root = 0], [Fat32(70000, 2) EXCEPT !.info = 6]),
   Card(Fat16(5000, 4, 512), Fat16(6000, 4, 512), 1, 6),
   Card(Fat16(5000, 4, 512), Fat16(6000, 4, 512), 0, 7),
   [Ordinary(Fat16(5000, 4, 512), Fat32(70000, 4)) EXCEPT !.signed = FALSE]}
=============================================================================
