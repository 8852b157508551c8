------------------------------- MODULE FileWrite -------------------------------
(***************************************************************************)
(* Writing to an open file: File::write with the walk of data(), truncate  *)
(* and seek (src/src/fs/volume/file.rs) and the growth of the file by      *)
(* Volume::allocate (src/src/fs/volume.rs).  The bytes of the card are     *)
(* kept, so that what a later reader of the file finds can be compared with*)
(* what was written.  FatChain has the allocation's own steps and crashes. *)
(* As there, the model ends where the search for an unused cluster goes on *)
(* past the table (phase "astray").                                        *)
(***************************************************************************)
EXTENDS Integers, Sequences, FiniteSetsExt

CONSTANTS
  Clusters,   \* the clusters of the volume
  BlockSize,  \* bytes of a sector
  Blocks,     \* sectors of a cluster
  Images,     \* [head, size, fat]: the file's entry and the table at the start
  MaxLen,     \* bound: bytes of one write
  MaxCalls,   \* bound: writes
  MayFail,    \* TRUE: a device access may fail
  Careful     \* TRUE: only the writes Safe describes

ASSUME ClustersAssumption == Clusters \subseteq Nat \ {0, 1} /\ IsFiniteSet(Clusters)
ASSUME SectorAssumption == BlockSize \in Nat \ {0} /\ Blocks \in Nat \ {0}
ASSUME LimitsAssumption == {MaxLen, MaxCalls} \subseteq Nat /\ {MayFail, Careful} \subseteq BOOLEAN

VARIABLES
  fat,    \* the allocation table
  disk,   \* the bytes of each cluster
  head,   \* File.file.cluster
  size,   \* File.file.size
  pos,    \* File.pos
  short,  \* File.short
  last,   \* File.last
  phase,  \* "idle", "first", "enter", "walk" or "grow" in write, "astray"
  grown,  \* TRUE: data() is called for the second time, after a growth
  want,   \* bytes of the running write
  done,   \* bytes of it that are written
  buf,    \* what cache buffer A holds
  calls,  \* writes so far
  text    \* history: the bytes the file should have

cursor == <<pos, short, last>>
call   == <<want, calls>>
vars   == <<fat, disk, head, size, cursor, phase, grown, done, buf, call, text>>

-----------------------------------------------------------------------------
Free == 0
Eof  == 1
\* No cluster; block_pos_at of it is six clusters before the first one.
Empty == 0
\* What a search may find instead of a cluster: nothing, or a word past the table.
None   == 0
Beyond == -1
\* ClusterIndex::is_valid, which cluster 2 is not.
IsValid(c) == c > 2

ClusterBytes == Blocks * BlockSize
Offsets == 0..(ClusterBytes - 1)
\* The byte at position p that write number k writes, and bytes of no file.
Byte(p, k) == 2 * p + (k % 2)
Noise == -1
Junk == [o \in 0..(BlockSize - 1) |-> Noise]

\* The clusters of the file in order.
ChainFrom(c, table) ==
  LET next[n \in 0..Cardinality(Clusters)] ==
        IF n = 0 THEN <<c>>
        ELSE LET s == next[n - 1]
                 v == IF s[Len(s)] = Empty THEN Eof ELSE table[s[Len(s)]]
             IN IF v \in Clusters THEN Append(s, v) ELSE s
  IN next[Cardinality(Clusters)]
Chain == ChainFrom(head, fat)
Own == {Chain[i] : i \in DOMAIN Chain} \intersect Clusters

\* What a reader of the file finds at position p.
Content(p) == disk[Chain[(p \div ClusterBytes) + 1]][p % ClusterBytes]

Init ==
  /\ \E i \in Images : fat = i.fat /\ head = i.head /\ size = i.size
  /\ text = [p \in 1..size |-> Byte(p - 1, 0)]
  /\ disk = [c \in Clusters \union {Empty} |-> [o \in Offsets |->
       LET at == {i \in DOMAIN Chain : Chain[i] = c /\ (i - 1) * ClusterBytes + o < size}
       IN IF at = {} THEN Noise ELSE Byte(((CHOOSE i \in at : TRUE) - 1) * ClusterBytes + o, 0)]]
  /\ pos = 0 /\ short = 0 /\ last = head
  /\ phase = "idle" /\ grown = FALSE
  /\ want = 0 /\ done = 0 /\ calls = 0 /\ buf = Junk

\* The writes that keep the file whole: those at its end, within its clusters or from
\* its first cluster into a second one.  A file that starts in cluster 2 has to be
\* empty, since it gets a new first cluster; one without a cluster has no such write.
Safe(t) ==
  /\ head # Empty /\ pos = size
  /\ IsValid(head) \/ size = 0
  /\ pos + t <= ClusterBytes * (IF Len(Chain) = 1 THEN 2 ELSE Len(Chain))

\* A remembered cluster with a lower number than the first one, h, is forgotten.
Remember(h) ==
  IF last # Empty /\ last < h THEN last' = h /\ short' = 0 ELSE UNCHANGED <<last, short>>

\* write(b) with t bytes claims buffer A.
Write(t) ==
  /\ phase = "idle" /\ calls < MaxCalls
  /\ Careful => Safe(t)
  /\ calls' = calls + 1 /\ want' = t /\ done' = 0 /\ buf' = Junk /\ grown' = FALSE
  /\ IF IsValid(head) THEN phase' = "enter" /\ Remember(head)
     ELSE phase' = "first" /\ UNCHANGED <<last, short>>
  /\ UNCHANGED <<fat, disk, head, size, pos, text>>

Return == phase' = "idle"

Unused(c) == {f \in Clusters : fat[f] = Free /\ f >= c}

\* Volume::free: the lowest unused cluster from c on; past the table, where any word
\* may hold 0 or none does, when there is none.
Search(c) == IF Unused(c) # {} THEN {Min(Unused(c))} ELSE {Beyond, None}

\* Volume::free_try: from c, and from 2 when that failed.
Picks(c) ==
  LET fails == MayFail \/ None \in Search(c)
  IN  (Search(c) \ {None})
        \union (IF c > 2 /\ fails THEN Search(2) ELSE {})
        \union (IF MayFail \/ (c <= 2 /\ fails) THEN {None} ELSE {})

\* allocate(prev) took cluster n: it is marked, then linked, then the next unused one
\* is looked for, without which it fails; so it does where an access fails.
Allocate(prev, n, ok) ==
  LET marked == [fat EXCEPT ![n] = Eof]
      linked == [c \in Clusters |-> IF c = prev THEN n ELSE marked[c]]
  IN  \/ fat' = linked /\ (ok \/ MayFail \/ Unused(2) = {n})
      \/ fat' \in {fat, marked} /\ MayFail /\ ~ok

\* allocate found no cluster of the volume: an error, or the number of none.
NoSpace ==
  /\ \/ phase = "first" /\ \E n \in Picks(2) \ Clusters : phase' = IF n = None THEN "idle" ELSE "astray"
     \/ phase = "grow" /\ \E n \in Picks(head) \ Clusters : phase' = IF n = None THEN "idle" ELSE "astray"
  /\ UNCHANGED <<fat, disk, head, size, cursor, grown, done, buf, call, text>>

\* The first cluster of a file that has none that is valid.  When it had none at
\* all, the remembered one stays EMPTY, which is not below any number.
First ==
  /\ phase = "first"
  /\ \E n \in Picks(2) \intersect Clusters, ok \in BOOLEAN :
       /\ Allocate(None, n, ok)
       /\ IF ok THEN phase' = "enter" /\ head' = n /\ Remember(n)
          ELSE Return /\ UNCHANGED <<head, last, short>>
  /\ UNCHANGED <<disk, size, pos, grown, done, buf, call, text>>

\* data() met the end of the chain: the new cluster is linked to the FIRST one.
Grow ==
  /\ phase = "grow"
  /\ \E n \in Picks(head) \intersect Clusters, ok \in BOOLEAN :
       /\ Allocate(head, n, ok)
       /\ IF ok THEN phase' = "enter" /\ grown' = TRUE ELSE Return /\ UNCHANGED grown
  /\ UNCHANGED <<disk, head, size, cursor, done, buf, call, text>>

-----------------------------------------------------------------------------
\* data() starts: back to the first cluster when the cursor is before the remembered one.
Enter ==
  /\ phase = "enter" /\ phase' = "walk"
  /\ IF pos < short THEN short' = 0 /\ last' = head ELSE UNCHANGED <<short, last>>
  /\ UNCHANGED <<fat, disk, head, size, pos, grown, done, buf, call, text>>

Far == phase = "walk" /\ pos - short >= ClusterBytes
LastHas == last # Empty /\ fat[last] \in Clusters

\* Mutant: the walk does not move on.
HopStays ==
  /\ Far /\ LastHas
  /\ buf' = Junk
  /\ UNCHANGED <<fat, disk, head, size, cursor, phase, grown, done, call, text>>

\* Mutant: the clusters of a file are taken to be neighbours.
HopToNeighbour ==
  /\ Far /\ LastHas
  /\ last' = (IF last + 1 \in Clusters THEN last + 1 ELSE last) /\ short' = short + ClusterBytes
  /\ buf' = Junk
  /\ UNCHANGED <<fat, disk, head, size, pos, phase, grown, done, call, text>>

Hop ==
  /\ Far /\ LastHas
  /\ last' = fat[last] /\ short' = short + ClusterBytes
  /\ buf' = Junk
  /\ UNCHANGED <<fat, disk, head, size, pos, phase, grown, done, call, text>>

\* Mutant: the last cluster stands for the one after it.
HopPastEnd ==
  /\ Far /\ ~LastHas
  /\ short' = short + ClusterBytes
  /\ UNCHANGED <<fat, disk, head, size, pos, last, phase, grown, done, buf, call, text>>

\* The chain ends: the file grows, once; what follows "no cluster" is an error.
HopEnds ==
  /\ Far /\ ~LastHas
  /\ buf' = Junk
  /\ IF grown \/ last = Empty THEN Return ELSE phase' = "grow"
  /\ UNCHANGED <<fat, disk, head, size, cursor, grown, done, call, text>>

AccessFails ==
  /\ MayFail /\ phase = "walk"
  /\ Return /\ buf' = Junk
  /\ UNCHANGED <<fat, disk, head, size, cursor, grown, done, call, text>>

\* Where data() says the cursor is, and how much fits there.
Sector == ((pos - short) \div BlockSize) * BlockSize
Start  == pos % BlockSize
Fits   == Min({BlockSize - Start, want - done})

\* The sector with the next bytes in it; one that is written from its start is not
\* read, and keeps what the buffer holds after them.
Filled(from) == [o \in 0..(BlockSize - 1) |->
  IF o \in Start..(Start + Fits - 1) THEN Byte(pos + o - Start, calls) ELSE from[o]]
Stored(b) ==
  /\ disk' = [disk EXCEPT ![last] = [o \in Offsets |->
       IF o \in Sector..(Sector + BlockSize - 1) THEN b[o - Sector] ELSE @[o]]]
  /\ buf' = b
Advance ==
  /\ done' = done + Fits /\ pos' = pos + Fits /\ size' = size + Fits
  /\ text' = LET keep == Min({pos, Len(text)})
             IN [p \in 1..(keep + Fits) |-> IF p <= keep THEN text[p] ELSE Byte(pos + p - keep - 1, calls)]
                  \o SubSeq(text, pos + Fits + 1, Len(text))
  /\ grown' = FALSE
  /\ IF done' = want THEN Return ELSE phase' = "enter"
Near == phase = "walk" /\ pos - short < ClusterBytes

\* One round of the loop: read, copy, write and move on.
Store ==
  /\ Near
  /\ Stored(Filled(IF Start = 0 THEN buf ELSE [o \in 0..(BlockSize - 1) |-> disk[last][Sector + o]]))
  /\ Advance
  /\ UNCHANGED <<fat, head, short, last, call>>

-----------------------------------------------------------------------------
Seek(p) ==
  /\ phase = "idle" /\ p \in 0..size /\ pos' = p
  /\ UNCHANGED <<fat, disk, head, size, short, last, phase, grown, done, buf, call, text>>

\* truncate(i): the size is reduced; the cursor moves only when it is before i.
Truncate(i) ==
  /\ phase = "idle" /\ i \in 0..size
  /\ size' = i
  /\ pos' = IF i > pos THEN i ELSE pos
  /\ text' = SubSeq(text, 1, i)
  /\ UNCHANGED <<fat, disk, head, short, last, phase, grown, done, buf, call>>

\* Past the table the model stops.
Astray == phase = "astray" /\ UNCHANGED vars

\* What the code does next; a failing access may come instead.
InWrite == NoSpace \/ First \/ Grow \/ Enter \/ Hop \/ HopEnds \/ Store
Next ==
  \/ \E t \in 1..MaxLen : Write(t)
  \/ InWrite \/ AccessFails \/ Astray
  \/ \E p \in 0..size : Seek(p) \/ Truncate(p)

Spec == Init /\ [][Next]_vars
FairSpec == Spec /\ WF_vars(InWrite)

-----------------------------------------------------------------------------
(* Properties.                                                             *)

\* Every variable keeps its type, and a call never writes more than it was given.
TypeOK ==
  /\ fat \in [Clusters -> Clusters \union {Free, Eof}]
  /\ disk \in [Clusters \union {Empty} -> [Offsets -> Int]]
  /\ {head, last} \subseteq Clusters \union {Empty}
  /\ {size, pos, short} \subseteq Nat
  /\ phase \in {"idle", "first", "enter", "walk", "grow", "astray"} /\ grown \in BOOLEAN
  /\ want \in 0..MaxLen /\ done \in 0..want /\ calls \in 0..MaxCalls
  /\ buf \in [0..(BlockSize - 1) -> Int]
  /\ text \in Seq(Int)

\* What is on the card is what was written: after any number of appends, failed
\* ones, truncations and growths, the chain holds the bytes of the file.
HoldsText ==
  /\ size = Len(text) /\ size <= Len(Chain) * ClusterBytes
  /\ \A p \in 0..(size - 1) : Content(p) = text[p + 1]

\* The remembered cluster is the one of the file that starts at the remembered
\* position, so the next access starts its walk in the file.
RemembersOwn ==
  \E i \in 1..Len(Chain) : last = Chain[i] /\ short = (i - 1) * ClusterBytes

\* The write is well-typed, never writes more bytes than it was given, its cursor
\* stays on the file and the file holds what was written (file.rs 623-667, 720-734).
Consistent == TypeOK /\ RemembersOwn /\ HoldsText

\* A write changes clusters of its own file and no other sector, not those of
\* another file and not the ones before the data area; and it never changes the
\* links of another file's clusters, until the search for an unused cluster leaves
\* the table (file.rs 623-667, volume.rs 433-484).
OnlyOwn ==
  [][/\ \A c \in Clusters \union {Empty} : disk'[c] # disk[c] => c \in Own'
     /\ \A c \in Clusters : fat'[c] # fat[c] => fat[c] = Free \/ c \in Own]_vars

\* Every write returns, or its search for an unused cluster leaves the table
\* (file.rs 642-663).
WriteReturns == phase # "idle" ~> phase \in {"idle", "astray"}
=============================================================================
