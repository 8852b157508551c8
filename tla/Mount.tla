---------------------------------- MODULE Mount ----------------------------------
(***************************************************************************)
(* Mounting a partition of a card (src/src/fs/device.rs Storage::volume,    *)
(* src/src/fs/volume.rs Volume::new) and the places the mounted volume      *)
(* gives to its clusters (Volume::offset, block_pos).  Up to three sectors  *)
(* are read, and each read may fail.  A sector is the record of its fields; *)
(* of a field with a 16-bit and a 32-bit form the one that counts is kept,  *)
(* and the sums stay inside 32 bits.                                        *)
(***************************************************************************)
EXTENDS Integers, FiniteSets

CONSTANTS
  Cards,      \* [signed, parts, boots, infos]: see CardsAssumption
  Indexes,    \* what Storage::volume is asked for
  MaxCalls,   \* bound: calls of Storage::volume
  MaxPlaces,  \* bound: clusters whose places are asked for
  MayFail     \* TRUE: a read may fail

SectorSize == 512
Sectors(bytes) == (bytes + SectorSize - 1) \div SectorSize

\* A volume as the format asks: reserved sectors, tables with an entry for every
\* cluster, the root of a FAT16 volume, then the clusters.  Only the root of a FAT32
\* volume may be wrong: 0, which is no cluster.
DataStart(b) == b.reserved + b.fats * b.perFat + Sectors(b.rootEntries * 32)
Clusters(b) == (b.total - DataStart(b)) \div b.perCluster
Wide(b) == Clusters(b) >= 65525
EntryBytes(b) == IF Wide(b) THEN 4 ELSE 2
WellFormed(b) ==
  /\ {b.bytes, b.perCluster, b.reserved, b.fats, b.perFat, b.rootEntries, b.total, b.info, b.root} \subseteq Nat
  /\ b.perCluster > 0 /\ b.reserved > 0 /\ b.fats > 0 /\ b.perFat > 0
  /\ DataStart(b) + 1 <= b.total
  /\ (Clusters(b) + 2) * EntryBytes(b) <= b.perFat * SectorSize
  /\ Wide(b) => b.rootEntries = 0 /\ b.root \in {0} \union 2..(Clusters(b) + 1)

\* The four partitions of the table by index, their boot sectors by place and the
\* sectors that carry the marks of an FSInfo sector; partitions do not overlap.
ASSUME CardsAssumption ==
  \A c \in Cards :
    /\ DOMAIN c.parts \subseteq 0..3
    /\ \A i \in DOMAIN c.parts :
         c.parts[i].status \in 0..255 /\ {c.parts[i].start, c.parts[i].count} \subseteq Nat
    /\ \A i \in DOMAIN c.parts : \A j \in DOMAIN c.parts \ {i} :
         \/ c.parts[i].start + c.parts[i].count <= c.parts[j].start
         \/ c.parts[j].start + c.parts[j].count <= c.parts[i].start
    /\ \A i \in DOMAIN c.parts :
         LET b == c.boots[c.parts[i].start]
         IN b.signed => WellFormed(b) /\ b.total <= c.parts[i].count
ASSUME LimitsAssumption == MaxCalls \in Nat /\ MaxPlaces \in Nat /\ MayFail \in BOOLEAN

VARIABLES
  card,    \* the card
  phase,   \* "idle", or the sector Storage::volume reads next
  part,    \* the index of the partition
  last,    \* what the last call returned
  vols,    \* the volumes the program holds
  places,  \* history: where offset and block_pos have put clusters
  calls    \* calls so far

vars == <<card, phase, part, last, vols, places, calls>>

-----------------------------------------------------------------------------
Init ==
  /\ card \in Cards
  /\ phase = "idle" /\ part = 0 /\ last = "none"
  /\ vols = {} /\ places = {} /\ calls = 0

Return(what) == phase' = "idle" /\ last' = what
Goto(p) == phase' = p /\ UNCHANGED last

\* Storage::volume, and root for the first partition.
Call(i) ==
  /\ phase = "idle" /\ calls < MaxCalls
  /\ calls' = calls + 1 /\ part' = i
  /\ IF i > 3 THEN Return("NotFound") ELSE Goto("table")
  /\ UNCHANGED <<card, vols, places>>

\* A read fails, and with it the call.
ReadFails ==
  /\ phase # "idle" /\ MayFail
  /\ Return("Io")
  /\ UNCHANGED <<card, part, vols, places, calls>>

\* Sector 0: an unused entry of the partition table has zeros.
Unused == [status |-> 0, kind |-> 0, start |-> 0, count |-> 0]
Entry == IF part \in DOMAIN card.parts THEN card.parts[part] ELSE Unused
Kinds == {6, 11, 12, 14, 22, 27, 30, 102, 118, 131, 146, 151, 152, 154, 208,
          228, 230, 239, 244, 246}
ReadTable ==
  /\ phase = "table"
  /\ IF ~card.signed \/ Entry.status % 128 # 0 THEN Return("InvalidPartition")
     ELSE IF Entry.kind \notin Kinds THEN Return("UnsupportedVolume")
     ELSE Goto("boot")
  /\ UNCHANGED <<card, part, vols, places, calls>>

\* What Volume::new takes from the boot sector.
Boot == card.boots[Entry.start]
Tables(b) == b.fats * b.perFat
RootSectors(b) ==
  LET e == b.rootEntries * 32
      h == e \div SectorSize
  IN IF e # h THEN h + 1 ELSE h
Count(b) == (b.total - (b.reserved + Tables(b) + RootSectors(b))) \div b.perCluster

\* A volume holds its places from the start of the partition.
Mounted(b, wide, data, root) ==
  [lba |-> Entry.start, wide |-> wide, fat |-> b.reserved, data |-> data, root |-> root,
   perCluster |-> b.perCluster, count |-> Count(b)]
Hold(v) == vols' = vols \union {v} /\ Return("mounted")

\* Mutant: a FAT16 volume has no room for its root.
Mount16NoRoot(b) == Hold(Mounted(b, FALSE, b.reserved + Tables(b), b.reserved + Tables(b)))

\* The root of a FAT16 volume is kept as if its sector were a cluster.
Mount16(b) ==
  IF b.bytes # SectorSize THEN Return("InvalidFileSystem") /\ UNCHANGED vols
  ELSE Hold(Mounted(b, FALSE, b.reserved + Tables(b) + Sectors(b.rootEntries * 32),
                    b.reserved + Tables(b)))

\* Mutant: a volume of exactly the largest FAT12 size and above is FAT32.
ReadBootWide ==
  /\ phase = "boot"
  /\ IF ~Boot.signed THEN Return("InvalidFileSystem") /\ UNCHANGED vols
     ELSE IF Count(Boot) < 4085 THEN Return("UnsupportedFileSystem") /\ UNCHANGED vols
     ELSE Goto("info") /\ UNCHANGED vols
  /\ UNCHANGED <<card, part, places, calls>>

ReadBoot ==
  /\ phase = "boot"
  /\ IF ~Boot.signed THEN Return("InvalidFileSystem") /\ UNCHANGED vols
     ELSE IF Count(Boot) < 4085 THEN Return("UnsupportedFileSystem") /\ UNCHANGED vols
     ELSE IF Count(Boot) <= 65525 THEN Mount16(Boot)
     ELSE Goto("info") /\ UNCHANGED vols
  /\ UNCHANGED <<card, part, places, calls>>

\* The FSInfo sector, and Index::new, which wants a root cluster.
ReadInfo ==
  /\ phase = "info"
  /\ IF Entry.start + Boot.info \notin card.infos \/ Boot.root = 0
     THEN Return("InvalidFileSystem") /\ UNCHANGED vols
     ELSE Hold(Mounted(Boot, TRUE, Boot.reserved + Tables(Boot), Boot.root))
  /\ UNCHANGED <<card, part, places, calls>>

\* Volume::offset: the sector of a cluster's table entry, and where it lies there.
Offset(v, c) ==
  LET i == c * (IF v.wide THEN 4 ELSE 2)
  IN [sector |-> v.lba + v.fat + i \div SectorSize, at |-> i % SectorSize]
\* Volume::block_pos_at
BlockPos(v, c) == v.lba + v.data + (c - 2) * v.perCluster

\* The calls of a volume ask for its root, by None, and for clusters of its chains.
Asked(v) == {0, 2, 3, v.count + 1}
Locate(v, c) ==
  /\ phase = "idle" /\ Cardinality(places) < MaxPlaces
  /\ LET k == IF c = 0 THEN v.root ELSE c
     IN places' = places \union
          {[vol |-> v, cluster |-> k, root |-> c = 0, entry |-> Offset(v, k), data |-> BlockPos(v, k)]}
  /\ UNCHANGED <<card, phase, part, last, vols, calls>>

Read == ReadTable \/ ReadBoot \/ ReadInfo
Next ==
  \/ \E i \in Indexes : Call(i)
  \/ Read \/ ReadFails
  \/ \E v \in vols : \E c \in Asked(v) : Locate(v, c)

Spec == Init /\ [][Next]_vars

-----------------------------------------------------------------------------
(* Properties.                                                             *)

\* The one size at which Volume::new takes the narrow tables for the wide ones,
\* and the one at which the rounded root costs the last cluster it needs.
Edge(b) == Clusters(b) \in {4085, 65525}
Sound(b) == b.signed /\ Clusters(b) >= 4085
            /\ IF Wide(b) THEN Entry.start + b.info \in card.infos /\ b.root > 0
                          ELSE b.bytes = SectorSize

(* Consistent: the types; and a call that could read its sectors mounts     *)
(* exactly the FAT16 and FAT32 volumes, each with its own width of entries  *)
(* (Storage::volume, Volume::new).                                          *)
TypeOK ==
  /\ card \in Cards /\ calls \in 0..MaxCalls
  /\ phase \in {"idle", "table", "boot", "info"}
  /\ last \in {"none", "Io", "NotFound", "InvalidPartition", "UnsupportedVolume",
               "InvalidFileSystem", "UnsupportedFileSystem", "mounted"}
Mountable ==
  /\ card.signed /\ part \in DOMAIN card.parts
  /\ Entry.status \in {0, 128} /\ Entry.kind \in Kinds
  /\ Sound(Boot)
Consistent ==
  /\ TypeOK
  /\ phase = "idle" /\ last \notin {"none", "Io"}
     /\ ~(part \in DOMAIN card.parts /\ Boot.signed /\ Edge(Boot)) =>
       /\ last = "mounted" <=> Mountable
       /\ last = "mounted" => \E v \in vols : v.lba = Entry.start /\ v.wide = Wide(Boot)

(* The places a volume gives to its clusters lie in its own table and among  *)
(* its own clusters, and no two clusters, of one volume or of two on the     *)
(* card, share an entry or a sector (offset, block_pos_at).  The root of a   *)
(* FAT16 volume is left out: the code computes no place for it.              *)
Real(p) == p.vol.wide \/ ~p.root
OfVol(p) == LET i == CHOOSE i \in DOMAIN card.parts : card.parts[i].start = p.vol.lba
            IN card.boots[card.parts[i].start]
InRange(p) ==
  LET b == OfVol(p)
      v == p.vol
  IN /\ p.entry.sector \in (v.lba + b.reserved)..(v.lba + b.reserved + b.perFat - 1)
     /\ p.data >= v.lba + DataStart(b)
     /\ p.data + v.perCluster <= v.lba + b.total
Apart(p, q) ==
  /\ p.entry # q.entry
  /\ p.data + p.vol.perCluster <= q.data \/ q.data + q.vol.perCluster <= p.data
PlacesApart ==
  \A p \in places : Real(p) =>
    /\ InRange(p)
    /\ \A q \in places :
         Real(q) /\ <<p.vol.lba, p.cluster>> # <<q.vol.lba, q.cluster>> => Apart(p, q)
=============================================================================
