------------------------------ MODULE Mount_proofs ------------------------------
(***************************************************************************)
(* Proofs about Mount for every card: any partitions, sizes and geometries *)
(* of volumes, and any number of calls and failing reads.                  *)
(***************************************************************************)
EXTENDS Mount, TLAPS

-----------------------------------------------------------------------------
(* Arithmetic.                                                             *)

\* Multiples of k are k apart.
LEMMA MulApart ==
  ASSUME NEW a \in Nat, NEW b \in Nat, NEW k \in Nat, a + 1 <= b
  PROVE  a * k \in Nat /\ b * k \in Nat /\ a * k + k <= b * k
<1>1. PICK d \in Nat : b = a + 1 + d
  <2>1. b - (a + 1) \in Nat
    OBVIOUS
  <2> QED
    BY <2>1
<1>2. b * k = a * k + k + d * k
  BY <1>1
<1>3. d * k >= 0 /\ d * k \in Nat /\ a * k \in Nat /\ b * k \in Nat
  OBVIOUS
<1> QED
  BY <1>2, <1>3

\* What a quotient is.
LEMMA Quotient ==
  ASSUME NEW n \in Nat, NEW k \in Nat \ {0}
  PROVE  /\ n \div k \in Nat /\ (n \div k) * k \in Nat
         /\ (n \div k) * k <= n /\ n < (n \div k) * k + k
  OBVIOUS

\* A number is not more than n where k of it are not more than n: the quotient.
LEMMA QuotientLeast ==
  ASSUME NEW n \in Nat, NEW k \in Nat \ {0}, NEW q \in Nat, q * k <= n
  PROVE  q <= n \div k
<1>1. ASSUME n \div k + 1 <= q PROVE FALSE
  <2>1. (n \div k) * k + k <= q * k
    BY <1>1, Quotient, MulApart
  <2> QED
    BY <2>1, Quotient
<1> QED
  BY <1>1, Quotient

\* One less is at most one quotient less.
LEMMA QuotientOfLess ==
  ASSUME NEW n \in Nat, NEW m \in Nat, NEW k \in Nat \ {0}, m <= n, n <= m + 1
  PROVE  /\ m \div k \in Nat /\ n \div k \in Nat
         /\ m \div k <= n \div k /\ n \div k <= m \div k + 1
<1>1. /\ m \div k \in Nat /\ n \div k \in Nat
      /\ (m \div k) * k \in Nat /\ (m \div k) * k <= m
      /\ (n \div k) * k \in Nat /\ (n \div k) * k <= n
  BY Quotient
<1>2. m \div k <= n \div k
  <2>1. (m \div k) * k <= n
    BY <1>1
  <2> QED
    BY <1>1, <2>1, QuotientLeast
<1>3. ASSUME n \div k # 0 PROVE n \div k <= m \div k + 1
  <2>1. PICK q \in Nat : q + 1 = n \div k
    <3>1. n \div k - 1 \in Nat
      BY <1>1, <1>3
    <3> QED
      BY <3>1
  <2>2. q * k \in Nat /\ q * k + k <= (n \div k) * k
    BY <1>1, <2>1, MulApart
  <2>3. q * k <= m
    BY <1>1, <2>2
  <2>4. q <= m \div k
    BY <2>1, <2>3, QuotientLeast
  <2> QED
    BY <1>1, <2>1, <2>4
<1> QED
  BY <1>1, <1>2, <1>3

-----------------------------------------------------------------------------
(* The shape of a volume.                                                  *)

\* The sectors of the root of a FAT16 volume, as they are and as they are counted.
LEMMA RootShape ==
  ASSUME NEW b, b.rootEntries \in Nat
  PROVE  /\ Sectors(b.rootEntries * 32) \in Nat
         /\ RootSectors(b) \in {Sectors(b.rootEntries * 32), Sectors(b.rootEntries * 32) + 1}
         /\ b.rootEntries = 0 => RootSectors(b) = Sectors(b.rootEntries * 32) /\ Sectors(b.rootEntries * 32) = 0
BY DEF Sectors, RootSectors, SectorSize

\* How many clusters there are, and how many Volume::new counts.
LEMMA Shape ==
  ASSUME NEW b, WellFormed(b)
  PROVE  /\ DataStart(b) \in Nat /\ Tables(b) \in Nat
         /\ b.reserved + b.perFat <= DataStart(b) /\ DataStart(b) < b.total
         /\ DataStart(b) = b.reserved + Tables(b) + Sectors(b.rootEntries * 32)
         /\ Clusters(b) \in Nat /\ Clusters(b) * b.perCluster \in Nat
         /\ Clusters(b) * b.perCluster <= b.total - DataStart(b)
         /\ Count(b) \in Nat /\ Count(b) <= Clusters(b) /\ Clusters(b) <= Count(b) + 1
         /\ b.rootEntries = 0 => Count(b) = Clusters(b)
<1>1. /\ {b.perCluster, b.reserved, b.fats, b.perFat, b.rootEntries, b.total} \subseteq Nat
      /\ b.perCluster > 0 /\ b.fats > 0 /\ DataStart(b) + 1 <= b.total
  BY DEF WellFormed
<1> DEFINE r == Sectors(b.rootEntries * 32)
<1>2. r \in Nat /\ RootSectors(b) \in {r, r + 1} /\ (b.rootEntries = 0 => RootSectors(b) = r)
  BY <1>1, RootShape
<1>3. Tables(b) \in Nat /\ b.perFat <= Tables(b) /\ DataStart(b) = b.reserved + Tables(b) + r
  <2>1. PICK n \in Nat : b.fats = n + 1
    <3>1. b.fats - 1 \in Nat
      BY <1>1
    <3> QED
      BY <1>1, <3>1
  <2>2. 0 * b.perFat + b.perFat <= (n + 1) * b.perFat /\ (n + 1) * b.perFat \in Nat
    BY <1>1, MulApart
  <2>3. Tables(b) = (n + 1) * b.perFat
    BY <2>1 DEF Tables
  <2> QED
    BY <1>1, <2>2, <2>3 DEF DataStart, Tables
<1> HIDE DEF r
<1> DEFINE n == b.total - DataStart(b)
           m == b.total - (b.reserved + Tables(b) + RootSectors(b))
<1>4. /\ DataStart(b) \in Nat /\ n \in Nat /\ m \in Nat /\ m <= n /\ n <= m + 1
      /\ b.rootEntries = 0 => m = n
  BY <1>1, <1>2, <1>3
<1>5. Clusters(b) = n \div b.perCluster /\ Count(b) = m \div b.perCluster
  BY DEF Clusters, Count
<1> HIDE DEF n, m
<1>6. b.perCluster \in Nat \ {0}
  BY <1>1
<1>7. /\ Clusters(b) \in Nat /\ Clusters(b) * b.perCluster \in Nat /\ Clusters(b) * b.perCluster <= n
  BY <1>4, <1>5, <1>6, Quotient
<1>8. Count(b) \in Nat /\ Count(b) <= Clusters(b) /\ Clusters(b) <= Count(b) + 1
  BY <1>4, <1>5, <1>6, QuotientOfLess
<1> QED
  BY <1>1, <1>2, <1>3, <1>4, <1>5, <1>7, <1>8 DEF n, r

\* What the boot sector of a mounted partition is: FAT16 below the wide count, and
\* FAT32 above it.
LEMMA Widths ==
  ASSUME NEW b, WellFormed(b), Count(b) >= 4085
  PROVE  /\ Clusters(b) >= 4085
         /\ Count(b) > 65525 => Wide(b) /\ b.rootEntries = 0
         /\ Count(b) <= 65525 => ~Wide(b) \/ Clusters(b) = 65525
<1>1. /\ Clusters(b) \in Nat /\ Count(b) \in Nat /\ Count(b) <= Clusters(b)
      /\ Clusters(b) <= Count(b) + 1
      /\ b.rootEntries = 0 => Count(b) = Clusters(b)
  BY Shape
<1>2. Wide(b) => b.rootEntries = 0
  BY DEF WellFormed
<1>3. Wide(b) <=> Clusters(b) >= 65525
  BY DEF Wide
<1> QED
  BY <1>1, <1>2, <1>3

-----------------------------------------------------------------------------
(* The inductive invariant.                                                *)

\* The boot sector of partition i.
BootOf(i) == card.boots[card.parts[i].start]

\* Partition i is one Storage::volume mounts, and the volume it becomes.
Good(i) ==
  /\ i \in DOMAIN card.parts
  /\ BootOf(i).signed /\ Count(BootOf(i)) >= 4085
  /\ Count(BootOf(i)) > 65525 => BootOf(i).root # 0
Large(b) == Count(b) > 65525
VolumeOf(i) ==
  LET b == BootOf(i)
  IN [lba |-> card.parts[i].start, wide |-> Large(b), fat |-> b.reserved, data |-> DataStart(b),
      root |-> IF Large(b) THEN b.root ELSE b.reserved + Tables(b),
      perCluster |-> b.perCluster, count |-> Count(b)]

\* Every volume is that of a partition, and every place that of a cluster of it.
VolInv == \A v \in vols : \E i \in DOMAIN card.parts : Good(i) /\ v = VolumeOf(i)
PlaceOf(p, i) ==
  /\ p.vol = VolumeOf(i)
  /\ p.entry = Offset(p.vol, p.cluster) /\ p.data = BlockPos(p.vol, p.cluster)
  /\ Real(p) => p.cluster \in 2..(Clusters(BootOf(i)) + 1)
PlaceInv == \A p \in places : \E i \in DOMAIN card.parts : Good(i) /\ PlaceOf(p, i)

\* A call that has read the table has found a partition in it, and one that has
\* read the boot sector a FAT32 volume.
PhaseInv ==
  /\ phase \in {"boot", "info"} =>
       /\ card.signed /\ part \in DOMAIN card.parts
       /\ Entry.status \in {0, 128} /\ Entry.kind \in Kinds
  /\ phase = "info" => Boot.signed /\ Count(Boot) > 65525

Inv == Consistent /\ PhaseInv /\ VolInv /\ PlaceInv

\* What the card promises of a partition.
LEMMA Partition ==
  ASSUME card \in Cards, NEW i \in DOMAIN card.parts, BootOf(i).signed
  PROVE  /\ WellFormed(BootOf(i)) /\ BootOf(i).total <= card.parts[i].count
         /\ card.parts[i].start \in Nat /\ card.parts[i].count \in Nat
BY CardsAssumption DEF BootOf

\* The fields of a mounted volume.
LEMMA Volume ==
  ASSUME card \in Cards, NEW i, Good(i)
  PROVE  LET b == BootOf(i)
             v == VolumeOf(i)
         IN /\ v.lba = card.parts[i].start /\ v.lba \in Nat
            /\ v.wide \in BOOLEAN /\ (v.wide <=> Count(b) > 65525)
            /\ v.fat = b.reserved /\ v.fat \in Nat
            /\ v.data = DataStart(b) /\ v.data \in Nat
            /\ v.perCluster = b.perCluster /\ v.perCluster \in Nat \ {0}
            /\ v.count = Count(b) /\ v.count \in Nat /\ v.count >= 4085
            /\ v.count <= Clusters(b) /\ Clusters(b) \in Nat
            /\ v.wide => Wide(b) /\ v.root = b.root /\ b.root \in 2..(Clusters(b) + 1)
<1> DEFINE b == BootOf(i)
           v == VolumeOf(i)
<1>1. /\ i \in DOMAIN card.parts /\ b.signed /\ Count(b) >= 4085
      /\ Count(b) > 65525 => b.root # 0
  BY DEF Good
<1>2. WellFormed(b) /\ card.parts[i].start \in Nat
  BY <1>1, Partition
<1>3. /\ Count(b) \in Nat /\ Clusters(b) \in Nat /\ DataStart(b) \in Nat
      /\ Count(b) <= Clusters(b)
  BY <1>2, Shape
<1>4. /\ b.reserved \in Nat /\ b.perCluster \in Nat /\ b.perCluster > 0 /\ b.root \in Nat
      /\ Wide(b) => b.root \in {0} \union 2..(Clusters(b) + 1)
  BY <1>2 DEF WellFormed
<1>5. Count(b) > 65525 => Wide(b)
  BY <1>1, <1>2, Widths
<1>6. /\ v.lba = card.parts[i].start /\ v.wide = Large(b) /\ v.fat = b.reserved
      /\ v.data = DataStart(b) /\ v.perCluster = b.perCluster /\ v.count = Count(b)
      /\ Large(b) => v.root = b.root
  BY DEF VolumeOf
<1>7. b.perCluster \in Nat \ {0}
  BY <1>4
<1>9. Count(b) > 65525 => b.root \in 2..(Clusters(b) + 1)
  BY <1>1, <1>4, <1>5
<1> HIDE DEF b, v
<1>8. Large(b) \in BOOLEAN /\ (Large(b) <=> Count(b) > 65525)
  BY SMT DEF Large
<1>11. v.wide \in BOOLEAN /\ (v.wide <=> Large(b))
  <2>1. v.wide = Large(b)
    BY <1>6
  <2>2. Large(b) \in BOOLEAN
    BY <1>8
  <2> QED
    BY <2>1, <2>2, Zenon
<1>10. /\ v.lba = card.parts[i].start /\ v.lba \in Nat
       /\ v.wide \in BOOLEAN /\ (v.wide <=> Count(b) > 65525)
       /\ v.fat = b.reserved /\ v.fat \in Nat
       /\ v.data = DataStart(b) /\ v.data \in Nat
       /\ v.perCluster = b.perCluster /\ v.perCluster \in Nat \ {0}
       /\ v.count = Count(b) /\ v.count \in Nat /\ v.count >= 4085
       /\ v.count <= Clusters(b) /\ Clusters(b) \in Nat
       /\ v.wide => Wide(b) /\ v.root = b.root /\ b.root \in 2..(Clusters(b) + 1)
  BY <1>1, <1>2, <1>3, <1>4, <1>5, <1>6, <1>7, <1>8, <1>9, <1>11
<1> QED
  BY <1>10 DEF b, v

-----------------------------------------------------------------------------
(* Places.                                                                 *)

\* The cluster of a place, and the width of its entry.
LEMMA Place ==
  ASSUME card \in Cards, NEW i, Good(i), NEW p, PlaceOf(p, i), Real(p), NEW w,
         w = IF p.vol.wide THEN 4 ELSE 2
  PROVE  /\ p.cluster \in 2..(Clusters(BootOf(i)) + 1)
         /\ w \in {2, 4} /\ w <= EntryBytes(BootOf(i))
         /\ p.entry.sector = p.vol.lba + p.vol.fat + (p.cluster * w) \div SectorSize
         /\ p.entry.at = (p.cluster * w) % SectorSize
         /\ p.data = p.vol.lba + p.vol.data + (p.cluster - 2) * p.vol.perCluster
<1>1. p.vol = VolumeOf(i) /\ p.entry = Offset(p.vol, p.cluster)
      /\ p.data = BlockPos(p.vol, p.cluster) /\ p.cluster \in 2..(Clusters(BootOf(i)) + 1)
  BY DEF PlaceOf
<1>2. VolumeOf(i).wide \in BOOLEAN /\ (VolumeOf(i).wide => Wide(BootOf(i)))
  BY Volume
<1>3. w \in {2, 4} /\ w <= EntryBytes(BootOf(i))
  BY <1>1, <1>2 DEF EntryBytes
<1>4. /\ p.entry.sector = p.vol.lba + p.vol.fat + (p.cluster * w) \div SectorSize
      /\ p.entry.at = (p.cluster * w) % SectorSize
  BY <1>1 DEF Offset
<1>5. p.data = p.vol.lba + p.vol.data + (p.cluster - 2) * p.vol.perCluster
  BY <1>1 DEF BlockPos
<1> QED
  BY <1>1, <1>3, <1>4, <1>5

\* A place lies in the table and among the clusters of its volume.
LEMMA PlaceWithin ==
  ASSUME card \in Cards, NEW i, Good(i), NEW p, PlaceOf(p, i), Real(p)
  PROVE  LET b == BootOf(i)
             s == card.parts[i].start
         IN /\ p.entry.sector \in (s + b.reserved)..(s + b.reserved + b.perFat - 1)
            /\ p.data \in Nat /\ p.data >= s + DataStart(b)
            /\ p.data + b.perCluster <= s + b.total
<1> DEFINE b == BootOf(i)
           v == VolumeOf(i)
           s == card.parts[i].start
           w == IF p.vol.wide THEN 4 ELSE 2
           c == p.cluster
<1>1. b.signed /\ i \in DOMAIN card.parts
  BY DEF Good
<1>2. WellFormed(b) /\ s \in Nat
  BY <1>1, Partition
<1>3. p.vol = v
  BY DEF PlaceOf
<1>4. /\ v.lba = s /\ v.fat = b.reserved /\ v.data = DataStart(b) /\ v.perCluster = b.perCluster
  BY Volume
<1>5. /\ c \in 2..(Clusters(b) + 1) /\ w \in {2, 4} /\ w <= EntryBytes(b)
      /\ p.entry.sector = v.lba + v.fat + (c * w) \div SectorSize
      /\ p.data = v.lba + v.data + (c - 2) * v.perCluster
  BY <1>3, Place
<1>6. /\ b.reserved \in Nat /\ b.perFat \in Nat /\ b.perCluster \in Nat /\ b.total \in Nat
      /\ (Clusters(b) + 2) * EntryBytes(b) <= b.perFat * SectorSize
  BY <1>2 DEF WellFormed
<1>7. /\ Clusters(b) \in Nat /\ DataStart(b) \in Nat /\ DataStart(b) < b.total
      /\ Clusters(b) * b.perCluster \in Nat
      /\ Clusters(b) * b.perCluster <= b.total - DataStart(b)
  BY <1>2, Shape
<1>8. EntryBytes(b) \in {2, 4}
  BY DEF EntryBytes
<1> HIDE DEF b, v, s, w, c
<1>9. (c * w) \div SectorSize \in 0..(b.perFat - 1)
  <2>1. c * w \in Nat /\ c * w < b.perFat * 512
    BY <1>5, <1>6, <1>7, <1>8 DEF SectorSize
  <2> DEFINE n == c * w
  <2> HIDE DEF n
  <2>2. n \in Nat /\ n < b.perFat * 512
    BY <2>1 DEF n
  <2>3. n \div 512 \in 0..(b.perFat - 1)
    BY <2>2, <1>6
  <2> QED
    BY <2>3 DEF n, SectorSize
<1>10. (c - 2) * b.perCluster \in Nat
       /\ (c - 2) * b.perCluster + b.perCluster <= Clusters(b) * b.perCluster
  <2>1. c - 2 \in Nat /\ (c - 2) + 1 <= Clusters(b)
    BY <1>5, <1>7
  <2> QED
    BY <2>1, <1>6, <1>7, MulApart
<1>11. p.entry.sector \in (s + b.reserved)..(s + b.reserved + b.perFat - 1)
  BY <1>2, <1>4, <1>5, <1>6, <1>9
<1>12. /\ p.data \in Nat /\ p.data >= s + DataStart(b) /\ p.data + b.perCluster <= s + b.total
  <2> DEFINE o == (c - 2) * b.perCluster
             t == Clusters(b) * b.perCluster
  <2>1. o \in Nat /\ t \in Nat /\ o + b.perCluster <= t /\ t <= b.total - DataStart(b)
    BY <1>7, <1>10
  <2>2. p.data = s + DataStart(b) + o
    BY <1>4, <1>5
  <2> HIDE DEF o, t
  <2> QED
    BY <2>1, <2>2, <1>2, <1>6, <1>7
<1> QED
  BY <1>11, <1>12 DEF b, s

\* Two clusters of a volume have entries of their own and sectors of their own.
LEMMA SameVolume ==
  ASSUME card \in Cards, NEW i, Good(i), NEW p, NEW q, PlaceOf(p, i), PlaceOf(q, i),
         Real(p), Real(q), p.cluster # q.cluster
  PROVE  Apart(p, q)
<1> DEFINE v == VolumeOf(i)
           w == IF v.wide THEN 4 ELSE 2
           c == p.cluster
           d == q.cluster
           k == v.perCluster
<1>1. p.vol = v /\ q.vol = v
  BY DEF PlaceOf
<1>2. /\ v.lba \in Nat /\ v.fat \in Nat /\ v.data \in Nat /\ k \in Nat \ {0}
      /\ Clusters(BootOf(i)) \in Nat
  BY Volume
<1>3. /\ c \in 2..(Clusters(BootOf(i)) + 1) /\ w \in {2, 4}
      /\ p.entry.sector = v.lba + v.fat + (c * w) \div SectorSize
      /\ p.entry.at = (c * w) % SectorSize
      /\ p.data = v.lba + v.data + (c - 2) * k
  BY <1>1, Place
<1>4. /\ d \in 2..(Clusters(BootOf(i)) + 1)
      /\ q.entry.sector = v.lba + v.fat + (d * w) \div SectorSize
      /\ q.entry.at = (d * w) % SectorSize
      /\ q.data = v.lba + v.data + (d - 2) * k
  BY <1>1, Place
<1>5. c # d
  OBVIOUS
<1> HIDE DEF v, w, c, d, k
<1>6. c * w \in Nat /\ d * w \in Nat /\ c * w # d * w
  BY <1>2, <1>3, <1>4, <1>5
<1>7. p.entry # q.entry
  <2> DEFINE m == c * w
             n == d * w
  <2>1. m \in Nat /\ n \in Nat /\ m # n
    BY <1>6
  <2> HIDE DEF m, n
  <2>2. m \div 512 # n \div 512 \/ m % 512 # n % 512
    BY <2>1
  <2>3. p.entry.sector = v.lba + v.fat + m \div 512 /\ q.entry.sector = v.lba + v.fat + n \div 512
        /\ p.entry.at = m % 512 /\ q.entry.at = n % 512
    BY <1>3, <1>4 DEF m, n, SectorSize
  <2>4. m \div 512 \in Nat /\ n \div 512 \in Nat
    BY <2>1
  <2> DEFINE x == m \div 512
             y == n \div 512
  <2>5. x # y => v.lba + v.fat + x # v.lba + v.fat + y
    <3>1. x \in Nat /\ y \in Nat
      BY <2>4
    <3> HIDE DEF x, y
    <3> QED
      BY <3>1, <1>2
  <2> QED
    BY <2>2, <2>3, <2>5
<1>8. c < d => p.data + k <= q.data
  <2> SUFFICES ASSUME c < d PROVE p.data + k <= q.data
    OBVIOUS
  <2>1. c - 2 \in Nat /\ d - 2 \in Nat /\ (c - 2) + 1 <= d - 2
    BY <1>2, <1>3, <1>4
  <2>2. (c - 2) * k \in Nat /\ (d - 2) * k \in Nat /\ (c - 2) * k + k <= (d - 2) * k
    BY <2>1, <1>2, MulApart
  <2> QED
    BY <2>2, <1>2, <1>3, <1>4
<1>9. d < c => q.data + k <= p.data
  <2> SUFFICES ASSUME d < c PROVE q.data + k <= p.data
    OBVIOUS
  <2>1. c - 2 \in Nat /\ d - 2 \in Nat /\ (d - 2) + 1 <= c - 2
    BY <1>2, <1>3, <1>4
  <2>2. (d - 2) * k \in Nat /\ (c - 2) * k \in Nat /\ (d - 2) * k + k <= (c - 2) * k
    BY <2>1, <1>2, MulApart
  <2> QED
    BY <2>2, <1>2, <1>3, <1>4
<1>10. c < d \/ d < c
  BY <1>2, <1>3, <1>4, <1>5
<1> QED
  BY <1>1, <1>7, <1>8, <1>9, <1>10 DEF Apart, k

\* Volumes on two partitions share nothing.
LEMMA OtherVolume ==
  ASSUME card \in Cards, NEW i, NEW j, Good(i), Good(j), NEW p, NEW q, PlaceOf(p, i), PlaceOf(q, j),
         Real(p), Real(q), p.vol.lba # q.vol.lba
  PROVE  Apart(p, q)
<1> DEFINE b == BootOf(i)
           c == BootOf(j)
           s == card.parts[i].start
           t == card.parts[j].start
<1>1. b.signed /\ i \in DOMAIN card.parts /\ c.signed /\ j \in DOMAIN card.parts
  BY DEF Good
<1>2. /\ p.vol.lba = s /\ p.vol.perCluster = b.perCluster
      /\ q.vol.lba = t /\ q.vol.perCluster = c.perCluster
  BY Volume DEF PlaceOf
<1>3. s + card.parts[i].count <= t \/ t + card.parts[j].count <= s
  <2>1. i # j
    BY <1>2
  <2> QED
    BY <1>1, <2>1, CardsAssumption
<1>4. /\ s \in Nat /\ t \in Nat /\ b.total <= card.parts[i].count /\ c.total <= card.parts[j].count
      /\ card.parts[i].count \in Nat /\ card.parts[j].count \in Nat
      /\ WellFormed(b) /\ WellFormed(c)
  BY <1>1, Partition
<1>5. /\ b.reserved \in Nat /\ b.perFat \in Nat /\ b.perCluster \in Nat /\ b.total \in Nat
      /\ c.reserved \in Nat /\ c.perFat \in Nat /\ c.perCluster \in Nat /\ c.total \in Nat
  BY <1>4 DEF WellFormed
<1>6. /\ DataStart(b) \in Nat /\ b.reserved + b.perFat <= DataStart(b) /\ DataStart(b) < b.total
      /\ DataStart(c) \in Nat /\ c.reserved + c.perFat <= DataStart(c) /\ DataStart(c) < c.total
  BY <1>4, Shape
<1>7. /\ p.entry.sector \in (s + b.reserved)..(s + b.reserved + b.perFat - 1)
      /\ p.data \in Nat /\ p.data >= s + DataStart(b)
      /\ p.data + b.perCluster <= s + b.total
  BY PlaceWithin
<1>8. /\ q.entry.sector \in (t + c.reserved)..(t + c.reserved + c.perFat - 1)
      /\ q.data \in Nat /\ q.data >= t + DataStart(c)
      /\ q.data + c.perCluster <= t + c.total
  BY PlaceWithin
<1> HIDE DEF b, c, s, t
<1>9. p.entry.sector # q.entry.sector
  BY <1>3, <1>4, <1>5, <1>6, <1>7, <1>8
<1>10. p.data + b.perCluster <= q.data \/ q.data + c.perCluster <= p.data
  BY <1>3, <1>4, <1>5, <1>6, <1>7, <1>8
<1> QED
  BY <1>2, <1>9, <1>10 DEF Apart

\* What every place being that of a cluster of a volume comes to.
LEMMA PlacesOfVolumes == ASSUME card \in Cards, PlaceInv PROVE PlacesApart
<1>1. SUFFICES ASSUME NEW p \in places, Real(p)
               PROVE  /\ InRange(p)
                      /\ \A q \in places :
                           Real(q) /\ <<p.vol.lba, p.cluster>> # <<q.vol.lba, q.cluster>>
                             => Apart(p, q)
  BY DEF PlacesApart
<1>2. PICK i \in DOMAIN card.parts : Good(i) /\ PlaceOf(p, i)
  BY DEF PlaceInv
<1>3. p.vol.lba = card.parts[i].start /\ p.vol = VolumeOf(i)
      /\ p.vol.perCluster = BootOf(i).perCluster
  BY <1>2, Volume DEF PlaceOf
<1>4. InRange(p)
  <2>1. OfVol(p) = BootOf(i)
    <3>1. \E j \in DOMAIN card.parts : card.parts[j].start = p.vol.lba
      BY <1>3
    <3>2. card.parts[CHOOSE j \in DOMAIN card.parts : card.parts[j].start = p.vol.lba].start = p.vol.lba
      BY <3>1
    <3> QED
      BY <3>2, <1>3 DEF OfVol, BootOf
  <2> QED
    BY <1>1, <1>2, <1>3, <2>1, PlaceWithin DEF InRange
<1>5. ASSUME NEW q \in places, Real(q), <<p.vol.lba, p.cluster>> # <<q.vol.lba, q.cluster>>
      PROVE  Apart(p, q)
  <2>1. PICK j \in DOMAIN card.parts : Good(j) /\ PlaceOf(q, j)
    BY DEF PlaceInv
  <2>2. q.vol.lba = card.parts[j].start
    BY <2>1, Volume DEF PlaceOf
  <2>3. CASE p.vol.lba # q.vol.lba
    BY <1>1, <1>2, <1>5, <2>1, <2>3, OtherVolume
  <2>4. CASE p.vol.lba = q.vol.lba
    <3>1. i = j
      <4>1. BootOf(i) = BootOf(j) /\ card.parts[i].start = card.parts[j].start
        BY <1>3, <2>2, <2>4 DEF BootOf
      <4>2. BootOf(i).signed
        BY <1>2 DEF Good
      <4>3. /\ WellFormed(BootOf(i)) /\ BootOf(i).total <= card.parts[i].count
            /\ BootOf(i).total <= card.parts[j].count
            /\ card.parts[i].start \in Nat /\ card.parts[i].count \in Nat
            /\ card.parts[j].count \in Nat
        BY <4>1, <4>2, Partition
      <4>4. BootOf(i).total \in Nat /\ DataStart(BootOf(i)) \in Nat
            /\ DataStart(BootOf(i)) < BootOf(i).total
        BY <4>3, Shape DEF WellFormed
      <4>5. card.parts[i].count > 0 /\ card.parts[j].count > 0
        BY <4>3, <4>4
      <4>6. i # j => \/ card.parts[i].start + card.parts[i].count <= card.parts[j].start
                     \/ card.parts[j].start + card.parts[j].count <= card.parts[i].start
        BY CardsAssumption
      <4> QED
        BY <4>1, <4>3, <4>5, <4>6
    <3>2. p.cluster # q.cluster
      BY <1>5, <2>4
    <3> QED
      BY <1>1, <1>2, <1>5, <2>1, <3>1, <3>2, SameVolume
  <2> QED
    BY <2>3, <2>4
<1> QED
  BY <1>4, <1>5

-----------------------------------------------------------------------------
(* The invariant is inductive.                                             *)

\* Before the first mount there are no volumes and no places.
LEMMA InitInv == Init => Inv
BY LimitsAssumption DEF Init, Inv, Consistent, TypeOK, PhaseInv, VolInv, PlaceInv

\* A place asked of a volume is that of one of its clusters.
LEMMA LocateKeeps ==
  ASSUME Inv, NEW v \in vols, NEW c \in Asked(v), Locate(v, c)
  PROVE  PlaceInv'
<1> DEFINE k == IF c = 0 THEN v.root ELSE c
           n == [vol |-> v, cluster |-> k, root |-> c = 0, entry |-> Offset(v, k), data |-> BlockPos(v, k)]
<1>1. places' = places \union {n} /\ UNCHANGED <<card, vols>>
  BY DEF Locate
<1>2. card \in Cards
  BY DEF Inv, Consistent, TypeOK
<1>3. PICK i \in DOMAIN card.parts : Good(i) /\ v = VolumeOf(i)
  BY DEF Inv, VolInv
<1>4. PlaceOf(n, i)
  <2>1. n.vol = VolumeOf(i) /\ n.entry = Offset(n.vol, n.cluster) /\ n.data = BlockPos(n.vol, n.cluster)
        /\ n.cluster = k
    BY <1>3
  <2>2. ASSUME Real(n) PROVE n.cluster \in 2..(Clusters(BootOf(i)) + 1)
    <3>1. /\ v.wide => v.root \in 2..(Clusters(BootOf(i)) + 1)
          /\ v.count \in Nat /\ v.count >= 4085 /\ v.count <= Clusters(BootOf(i))
          /\ Clusters(BootOf(i)) \in Nat
      BY <1>2, <1>3, Volume
    <3>2. CASE c = 0
      <4>1. v.wide
        <5>1. n.vol = v /\ n.root = TRUE
          BY <3>2
        <5> QED
          BY <2>2, <5>1, Zenon DEF Real
      <4> QED
        BY <2>1, <3>1, <3>2, <4>1
    <3>3. CASE c # 0
      BY <2>1, <3>1, <3>3 DEF Asked
    <3> QED
      BY <3>2, <3>3
  <2> QED
    BY <2>1, <2>2 DEF PlaceOf
<1> HIDE DEF n, k
<1>5. \A p : \A j : (PlaceOf(p, j)' <=> PlaceOf(p, j)) /\ (Good(j)' <=> Good(j))
  BY <1>1 DEF PlaceOf, Good, VolumeOf, BootOf
<1>6. ASSUME NEW p \in places' PROVE \E j \in DOMAIN card'.parts : Good(j)' /\ PlaceOf(p, j)'
  <2>1. \E j \in DOMAIN card.parts : Good(j) /\ PlaceOf(p, j)
    BY <1>1, <1>3, <1>4 DEF Inv, PlaceInv
  <2>2. card' = card
    BY <1>1
  <2> QED
    BY <1>5, <2>1, <2>2
<1> QED
  BY <1>6 DEF PlaceInv

\* What a call that is over has told (the second part of Consistent).
Told ==
  phase = "idle" /\ last \notin {"none", "Io"}
     /\ ~(part \in DOMAIN card.parts /\ Boot.signed /\ Edge(Boot)) =>
       /\ last = "mounted" <=> Mountable
       /\ last = "mounted" => \E v \in vols : v.lba = Entry.start /\ v.wide = Wide(Boot)

\* A new volume is that of its partition.
LEMMA HoldKeeps ==
  ASSUME VolInv, Good(part), NEW v, v = VolumeOf(part), Hold(v), UNCHANGED card
  PROVE  VolInv'
<1>1. part \in DOMAIN card.parts
  BY DEF Good
<1>2. \A u \in vols' : \E i \in DOMAIN card.parts : Good(i) /\ u = VolumeOf(i)
  BY <1>1 DEF Hold, VolInv
<1>3. \A i : (Good(i)' <=> Good(i)) /\ VolumeOf(i)' = VolumeOf(i)
  BY DEF Good, VolumeOf, BootOf
<1> QED
  BY <1>2, <1>3 DEF VolInv

\* Volumes and places stay what they are while nothing is mounted or located.
LEMMA VolumesStay ==
  ASSUME UNCHANGED <<card, vols>>, VolInv PROVE VolInv'
BY DEF VolInv, Good, VolumeOf, BootOf

\* A step that leaves the places alone keeps what is known of them.
LEMMA PlacesStay ==
  ASSUME UNCHANGED <<card, places>>, PlaceInv PROVE PlaceInv'
BY DEF PlaceInv, PlaceOf, Good, VolumeOf, BootOf

\* The entry and the boot sector of a call.
LEMMA EntryOf ==
  ASSUME card \in Cards
  PROVE  /\ part \in DOMAIN card.parts =>
              /\ Entry = card.parts[part] /\ Boot = BootOf(part)
              /\ Entry.start \in Nat /\ Entry.status \in 0..255
         /\ Entry.kind \in Kinds => part \in DOMAIN card.parts
<1>1. CASE part \in DOMAIN card.parts
  <2>1. Entry = card.parts[part]
    BY <1>1 DEF Entry
  <2>2. Boot = BootOf(part)
    BY <2>1 DEF Boot, BootOf
  <2>3. card.parts[part].start \in Nat /\ card.parts[part].status \in 0..255
    BY <1>1, CardsAssumption
  <2> QED
    BY <1>1, <2>1, <2>2, <2>3
<1>2. CASE part \notin DOMAIN card.parts
  <2>1. Entry.kind = 0
    BY <1>2 DEF Entry, Unused
  <2> QED
    BY <1>2, <2>1 DEF Kinds
<1> QED
  BY <1>1, <1>2

\* The boot sector is read.
LEMMA BootKeeps ==
  ASSUME Inv, ReadBoot
  PROVE  TypeOK' /\ Told' /\ PhaseInv' /\ VolInv'
<1>1. card \in Cards /\ TypeOK /\ VolInv /\ phase = "boot" /\ UNCHANGED <<card, part, places, calls>>
  BY DEF Inv, Consistent, TypeOK, ReadBoot
<1>2. /\ card.signed /\ part \in DOMAIN card.parts
      /\ Entry.status \in {0, 128} /\ Entry.kind \in Kinds
  BY <1>1 DEF Inv, PhaseInv
<1>3. Entry = card.parts[part] /\ Boot = BootOf(part)
  BY <1>1, <1>2, EntryOf
<1>4. /\ Entry' = Entry /\ Boot' = Boot /\ (Mountable' <=> Mountable)
      /\ (Mountable <=> Sound(Boot))
  BY <1>1, <1>2 DEF Entry, Boot, Mountable, Sound
<1>5. CASE ~Boot.signed /\ Return("InvalidFileSystem") /\ UNCHANGED vols
  <2>1. ~Mountable
    BY <1>4, <1>5 DEF Sound
  <2>2. phase' = "idle" /\ last' = "InvalidFileSystem"
    BY <1>5 DEF Return
  <2> QED
    BY <1>1, <1>4, <1>5, <2>1, <2>2, VolumesStay DEF TypeOK, Told, PhaseInv
<1>6. SUFFICES ASSUME Boot.signed PROVE TypeOK' /\ Told' /\ PhaseInv' /\ VolInv'
  BY <1>5 DEF ReadBoot
<1>7. WellFormed(Boot)
  BY <1>1, <1>2, <1>3, <1>6, Partition
<1>8. /\ Count(Boot) \in Nat /\ Clusters(Boot) \in Nat
      /\ Count(Boot) <= Clusters(Boot) /\ Clusters(Boot) <= Count(Boot) + 1
  BY <1>7, Shape
<1>9. CASE Count(Boot) < 4085 /\ Return("UnsupportedFileSystem") /\ UNCHANGED vols
  <2>1. ~Mountable \/ Edge(Boot)
    BY <1>4, <1>8, <1>9 DEF Sound, Edge
  <2>2. phase' = "idle" /\ last' = "UnsupportedFileSystem"
    BY <1>9 DEF Return
  <2>3. Edge(Boot)' <=> Edge(Boot)
    BY <1>4 DEF Edge
  <2> QED
    BY <1>1, <1>2, <1>4, <1>6, <1>9, <2>1, <2>2, <2>3, VolumesStay DEF TypeOK, Told, PhaseInv
<1>10. CASE Count(Boot) >= 4085 /\ Count(Boot) <= 65525 /\ Mount16(Boot)
  <2>1. Clusters(Boot) >= 4085 /\ (~Wide(Boot) \/ Edge(Boot))
    BY <1>7, <1>10, Widths DEF Edge
  <2>2. CASE Boot.bytes # SectorSize /\ Return("InvalidFileSystem") /\ UNCHANGED vols
    <3>1. ~Mountable \/ Edge(Boot)
      BY <1>4, <2>1, <2>2 DEF Sound
    <3>2. phase' = "idle" /\ last' = "InvalidFileSystem"
      BY <2>2 DEF Return
    <3>3. Edge(Boot)' <=> Edge(Boot)
      BY <1>4 DEF Edge
    <3> QED
      BY <1>1, <1>2, <1>4, <1>6, <2>2, <3>1, <3>2, <3>3, VolumesStay DEF TypeOK, Told, PhaseInv
  <2> DEFINE b == Boot
             v == Mounted(b, FALSE, b.reserved + Tables(b) + Sectors(b.rootEntries * 32),
                          b.reserved + Tables(b))
  <2>3. CASE b.bytes = SectorSize /\ Hold(v)
    <3>1. Good(part)
      BY <1>2, <1>3, <1>6, <1>8, <1>10 DEF Good
    <3>2. Large(b) = FALSE
      BY <1>8, <1>10 DEF Large
    <3>3. DataStart(b) = b.reserved + Tables(b) + Sectors(b.rootEntries * 32)
      BY <1>7, Shape
    <3>4. v = VolumeOf(part)
      BY <1>3, <3>2, <3>3, Zenon DEF VolumeOf, Mounted
    <3>5. vols' = vols \union {v} /\ phase' = "idle" /\ last' = "mounted"
      BY <2>3 DEF Hold, Return
    <3>6. v.lba = Entry.start /\ v.wide = FALSE
      BY DEF Mounted
    <3>7. VolInv'
      BY <1>1, <2>3, <3>1, <3>4, HoldKeeps
    <3>8. Edge(Boot) \/ Mountable
      BY <1>4, <1>6, <2>1, <2>3 DEF Sound
    <3>9. Edge(Boot) \/ Wide(Boot) = FALSE
      BY <2>1 DEF Wide
    <3>10. (Edge(Boot)' <=> Edge(Boot)) /\ Wide(Boot)' = Wide(Boot)
      BY <1>4 DEF Edge, Wide
    <3> HIDE DEF v
    <3>11. Told'
      <4>1. SUFFICES ASSUME ~Edge(Boot)
                     PROVE  Mountable' /\ \E u \in vols' : u.lba = Entry'.start /\ u.wide = Wide(Boot)'
        BY <1>1, <1>2, <1>4, <1>6, <3>5, <3>10 DEF Told
      <4> QED
        BY <1>4, <3>5, <3>6, <3>8, <3>9, <3>10, <4>1
    <3> QED
      BY <1>1, <3>5, <3>7, <3>11 DEF TypeOK, PhaseInv
  <2>4. \/ Boot.bytes # SectorSize /\ Return("InvalidFileSystem") /\ UNCHANGED vols
        \/ b.bytes = SectorSize /\ Hold(v)
    <3>1. Mount16(Boot)
      BY <1>10
    <3>2. CASE Boot.bytes # SectorSize
      BY <3>1, <3>2, Zenon DEF Mount16
    <3>3. CASE b.bytes = SectorSize
      BY <3>1, <3>3 DEF Mount16, Hold, Return
    <3> QED
      BY <3>2, <3>3
  <2> QED
    BY <2>2, <2>3, <2>4
<1>11. CASE Count(Boot) > 65525 /\ Goto("info") /\ UNCHANGED vols
  <2>1. phase' = "info" /\ last' = last
    BY <1>11 DEF Goto
  <2> QED
    BY <1>1, <1>2, <1>4, <1>6, <1>11, <2>1, VolumesStay DEF TypeOK, Told, PhaseInv
<1> QED
  BY <1>6, <1>8, <1>9, <1>10, <1>11 DEF ReadBoot

\* The FSInfo sector is read.
LEMMA InfoKeeps ==
  ASSUME Inv, ReadInfo
  PROVE  TypeOK' /\ Told' /\ PhaseInv' /\ VolInv'
<1>1. card \in Cards /\ TypeOK /\ VolInv /\ phase = "info" /\ UNCHANGED <<card, part, places, calls>>
  BY DEF Inv, Consistent, TypeOK, ReadInfo
<1>2. /\ card.signed /\ part \in DOMAIN card.parts
      /\ Entry.status \in {0, 128} /\ Entry.kind \in Kinds
      /\ Boot.signed /\ Count(Boot) > 65525
  BY <1>1 DEF Inv, PhaseInv
<1>3. Entry = card.parts[part] /\ Boot = BootOf(part)
  BY <1>1, <1>2, EntryOf
<1>4. /\ Entry' = Entry /\ Boot' = Boot /\ (Mountable' <=> Mountable)
      /\ (Mountable <=> Sound(Boot))
  BY <1>1, <1>2 DEF Entry, Boot, Mountable, Sound
<1>5. WellFormed(Boot)
  BY <1>1, <1>2, <1>3, Partition
<1>6. Count(Boot) \in Nat /\ Boot.root \in Nat
  BY <1>5, Shape DEF WellFormed
<1>7. Wide(Boot) /\ Boot.rootEntries = 0 /\ Clusters(Boot) >= 4085
  BY <1>2, <1>5, <1>6, Widths
<1>8. Mountable <=> Entry.start + Boot.info \in card.infos /\ Boot.root > 0
  BY <1>2, <1>4, <1>7 DEF Sound
<1>9. CASE /\ Entry.start + Boot.info \notin card.infos \/ Boot.root = 0
           /\ Return("InvalidFileSystem") /\ UNCHANGED vols
  <2>1. ~Mountable
    BY <1>6, <1>8, <1>9
  <2>2. phase' = "idle" /\ last' = "InvalidFileSystem"
    BY <1>9 DEF Return
  <2> QED
    BY <1>1, <1>4, <1>9, <2>1, <2>2, VolumesStay DEF TypeOK, Told, PhaseInv
<1> DEFINE v == Mounted(Boot, TRUE, Boot.reserved + Tables(Boot), Boot.root)
<1>10. CASE /\ Entry.start + Boot.info \in card.infos /\ Boot.root # 0 /\ Hold(v)
  <2>1. Good(part)
    BY <1>2, <1>3, <1>6, <1>10 DEF Good
  <2>2. Large(Boot) = TRUE
    BY <1>2 DEF Large
  <2>3. DataStart(Boot) = Boot.reserved + Tables(Boot)
    <3>1. Boot.rootEntries \in Nat /\ Boot.reserved \in Nat
      BY <1>5 DEF WellFormed
    <3>2. Sectors(Boot.rootEntries * 32) = 0
      BY <1>7, <3>1, RootShape
    <3>3. DataStart(Boot) = Boot.reserved + Tables(Boot) + 0 /\ Tables(Boot) \in Nat
      BY <1>5, <3>2, Shape
    <3> QED
      BY <3>1, <3>3
  <2>4. v = VolumeOf(part)
    BY <1>3, <2>2, <2>3, Zenon DEF VolumeOf, Mounted
  <2>5. vols' = vols \union {v} /\ phase' = "idle" /\ last' = "mounted"
    BY <1>10 DEF Hold, Return
  <2>6. v.lba = Entry.start /\ v.wide = TRUE
    BY DEF Mounted
  <2>7. VolInv'
    BY <1>1, <1>10, <2>1, <2>4, HoldKeeps
  <2>8. Mountable
    BY <1>6, <1>8, <1>10
  <2>9. Wide(Boot) = TRUE /\ Wide(Boot)' = Wide(Boot)
    BY <1>4, <1>7 DEF Wide
  <2> HIDE DEF v
  <2>10. Told'
    <3>1. SUFFICES Mountable' /\ \E u \in vols' : u.lba = Entry'.start /\ u.wide = Wide(Boot)'
      BY <1>4, <2>5 DEF Told
    <3> QED
      BY <1>4, <2>5, <2>6, <2>8, <2>9
  <2> QED
    BY <1>1, <2>5, <2>7, <2>10 DEF TypeOK, PhaseInv
<1>11. Entry.start + Boot.info \notin card.infos \/ Boot.root = 0 => Return("InvalidFileSystem") /\ UNCHANGED vols
  BY Zenon DEF ReadInfo
<1>12. Entry.start + Boot.info \in card.infos /\ Boot.root # 0 => Hold(v)
  BY DEF ReadInfo
<1> QED
  BY <1>9, <1>10, <1>11, <1>12

\* Every step keeps the invariant.
LEMMA NextInv == Inv /\ [Next]_vars => Inv'
<1> SUFFICES ASSUME Inv, [Next]_vars PROVE Inv'
  OBVIOUS
<1>1. TypeOK /\ Told /\ PhaseInv /\ VolInv /\ PlaceInv /\ card \in Cards
  BY DEF Inv, Consistent, TypeOK, Told
<1>4. SUFFICES TypeOK' /\ Told' /\ PhaseInv' /\ VolInv' /\ PlaceInv'
  BY DEF Inv, Consistent, Told
<1>5. ASSUME NEW i \in Indexes, Call(i)
      PROVE  TypeOK' /\ Told' /\ PhaseInv' /\ VolInv' /\ PlaceInv'
  <2>1. UNCHANGED <<card, vols, places>> /\ calls' = calls + 1 /\ calls < MaxCalls /\ part' = i
    BY <1>5 DEF Call
  <2>2. VolInv' /\ PlaceInv'
    BY <1>1, <2>1, VolumesStay, PlacesStay
  <2>3. CASE i > 3 /\ Return("NotFound")
    <3>1. i \notin DOMAIN card.parts
      BY <1>1, <2>3, CardsAssumption
    <3>2. ~Mountable'
      BY <2>1, <3>1 DEF Mountable
    <3>3. phase' = "idle" /\ last' = "NotFound"
      BY <2>3 DEF Return
    <3> QED
      BY <1>1, <2>1, <2>2, <3>2, <3>3, LimitsAssumption DEF TypeOK, Told, PhaseInv
  <2>4. CASE Goto("table")
    <3>1. phase' = "table" /\ last' = last
      BY <2>4 DEF Goto
    <3> QED
      BY <1>1, <2>1, <2>2, <3>1, LimitsAssumption DEF TypeOK, Told, PhaseInv
  <2>5. (i > 3 /\ Return("NotFound")) \/ Goto("table")
    BY <1>5 DEF Call
  <2> QED
    BY <2>3, <2>4, <2>5
<1>6. ASSUME ReadTable
      PROVE  TypeOK' /\ Told' /\ PhaseInv' /\ VolInv' /\ PlaceInv'
  <2>1. phase = "table" /\ UNCHANGED <<card, part, vols, places, calls>>
    BY <1>6 DEF ReadTable
  <2>2. VolInv' /\ PlaceInv'
    BY <1>1, <2>1, VolumesStay, PlacesStay
  <2>3. Entry' = Entry /\ Boot' = Boot /\ (Mountable' <=> Mountable)
    BY <2>1 DEF Entry, Boot, Mountable, Sound
  <2>4. part \in DOMAIN card.parts => Entry.status \in 0..255
    BY <1>1, EntryOf
  <2>5. CASE (~card.signed \/ Entry.status % 128 # 0) /\ Return("InvalidPartition")
    <3>1. ~Mountable
      BY <2>5 DEF Mountable
    <3>2. phase' = "idle" /\ last' = "InvalidPartition"
      BY <2>5 DEF Return
    <3> QED
      BY <1>1, <2>1, <2>2, <2>3, <3>1, <3>2 DEF TypeOK, Told, PhaseInv
  <2>6. CASE Entry.kind \notin Kinds /\ Return("UnsupportedVolume")
    <3>1. ~Mountable
      BY <2>6 DEF Mountable
    <3>2. phase' = "idle" /\ last' = "UnsupportedVolume"
      BY <2>6 DEF Return
    <3> QED
      BY <1>1, <2>1, <2>2, <2>3, <3>1, <3>2 DEF TypeOK, Told, PhaseInv
  <2>7. CASE card.signed /\ Entry.status % 128 = 0 /\ Entry.kind \in Kinds /\ Goto("boot")
    <3>1. part \in DOMAIN card.parts
      BY <1>1, <2>7, EntryOf
    <3>2. Entry.status \in {0, 128}
      BY <2>4, <2>7, <3>1
    <3>3. phase' = "boot" /\ last' = last
      BY <2>7 DEF Goto
    <3> QED
      BY <1>1, <2>1, <2>2, <2>3, <2>7, <3>1, <3>2, <3>3 DEF TypeOK, Told, PhaseInv
  <2> QED
    BY <1>6, <2>5, <2>6, <2>7 DEF ReadTable
<1>7. ASSUME ReadBoot
      PROVE  TypeOK' /\ Told' /\ PhaseInv' /\ VolInv' /\ PlaceInv'
  <2>1. UNCHANGED <<card, places>>
    BY <1>7 DEF ReadBoot
  <2> QED
    BY <1>1, <1>7, <2>1, BootKeeps, PlacesStay
<1>8. ASSUME ReadInfo
      PROVE  TypeOK' /\ Told' /\ PhaseInv' /\ VolInv' /\ PlaceInv'
  <2>1. UNCHANGED <<card, places>>
    BY <1>8 DEF ReadInfo
  <2> QED
    BY <1>1, <1>8, <2>1, InfoKeeps, PlacesStay
<1>9. ASSUME ReadFails
      PROVE  TypeOK' /\ Told' /\ PhaseInv' /\ VolInv' /\ PlaceInv'
  <2>1. phase' = "idle" /\ last' = "Io" /\ UNCHANGED <<card, vols, places, calls>>
    BY <1>9 DEF ReadFails, Return
  <2> QED
    BY <1>1, <2>1, VolumesStay, PlacesStay DEF TypeOK, Told, PhaseInv
<1>10. ASSUME NEW v \in vols, NEW c \in Asked(v), Locate(v, c)
       PROVE  TypeOK' /\ Told' /\ PhaseInv' /\ VolInv' /\ PlaceInv'
  <2>1. UNCHANGED <<card, phase, part, last, vols, calls>>
    BY <1>10 DEF Locate
  <2>2. Entry' = Entry /\ Boot' = Boot /\ (Mountable' <=> Mountable) /\ (Edge(Boot)' <=> Edge(Boot))
        /\ Wide(Boot)' = Wide(Boot)
    BY <2>1 DEF Entry, Boot, Mountable, Sound, Edge, Wide
  <2>3. TypeOK' /\ Told' /\ PhaseInv'
    BY <1>1, <2>1, <2>2 DEF TypeOK, Told, PhaseInv
  <2> QED
    BY <1>1, <1>10, <2>1, <2>3, VolumesStay, LocateKeeps
<1>11. ASSUME UNCHANGED vars
       PROVE  TypeOK' /\ Told' /\ PhaseInv' /\ VolInv' /\ PlaceInv'
  <2>1. UNCHANGED <<card, phase, part, last, vols, places, calls>>
    BY <1>11 DEF vars
  <2>2. Entry' = Entry /\ Boot' = Boot /\ (Mountable' <=> Mountable) /\ (Edge(Boot)' <=> Edge(Boot))
        /\ Wide(Boot)' = Wide(Boot)
    BY <2>1 DEF Entry, Boot, Mountable, Sound, Edge, Wide
  <2>3. TypeOK' /\ Told' /\ PhaseInv'
    BY <1>1, <2>1, <2>2 DEF TypeOK, Told, PhaseInv
  <2> QED
    BY <1>1, <2>1, <2>3, VolumesStay, PlacesStay
<1> QED
  BY <1>5, <1>6, <1>7, <1>8, <1>9, <1>10, <1>11 DEF Next, Read

-----------------------------------------------------------------------------
(* The theorems.                                                           *)

\* The invariant holds in every state.
LEMMA Invariant == Spec => []Inv
BY InitInv, NextInv, PTL DEF Spec

(* A call whose reads succeed mounts exactly the FAT16 and FAT32 volumes of  *)
(* the card, each with entries of its width; the two sizes of Edge are where *)
(* the code decides otherwise (Storage::volume, Volume::new).                *)
THEOREM SpecConsistent == Spec => []Consistent
<1>1. Inv => Consistent
  BY DEF Inv
<1> QED
  BY <1>1, Invariant, PTL

(* Whatever the sizes of the partitions of a card, every place a volume      *)
(* gives to a cluster lies in its own table and among its own clusters, and  *)
(* two clusters share no entry and no sector (offset, block_pos_at).         *)
THEOREM ClustersApart == Spec => []PlacesApart
<1>1. Inv => PlacesApart
  BY PlacesOfVolumes DEF Inv, Consistent, TypeOK
<1> QED
  BY <1>1, Invariant, PTL
=============================================================================
