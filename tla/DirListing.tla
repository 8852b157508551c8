------------------------------- MODULE DirListing -------------------------------
(***************************************************************************)
(* Listing a directory, DirectoryIndex::next (src/src/fs/volume/iter.rs),  *)
(* while files of it are deleted, DirEntry::delete (volume/file.rs).  The  *)
(* listing keeps one sector in cache buffer B, collects the pieces of a    *)
(* long name as it passes them and hands out an entry when it meets a short*)
(* one; a deletion goes through cache buffer A and changes the card only.  *)
(* A name is cut in pieces of 13 characters, and a piece here in two       *)
(* halves: the last piece of a name fills one half or both.                *)
(***************************************************************************)
EXTENDS Integers, Sequences, FiniteSets

CONSTANTS
  Files,       \* the files and directories listed in the directory
  Halves,      \* [Files -> Nat]: halves of pieces its long name takes, 0: no long name
  Chain,       \* the clusters of the directory, in FAT order
  Blocks,      \* sectors of a cluster
  Slots,       \* entries of a sector
  Images,      \* what the sectors may hold at the start
  MayFail,     \* TRUE: a device read may fail
  Deletable,   \* the files the program deletes
  MaxLists     \* bound: listings started

ASSUME NamesAssumption == Halves \in [Files -> 0..7]
ASSUME DirAssumption ==
  /\ Chain \in Seq(Nat \ {0}) /\ Len(Chain) > 0
  /\ \A i, j \in 1..Len(Chain) : Chain[i] = Chain[j] => i = j
  /\ Blocks \in Nat \ {0} /\ Slots \in Nat \ {0}
ASSUME FlagsAssumption == MayFail \in BOOLEAN /\ Deletable \subseteq Files /\ MaxLists \in Nat

VARIABLES
  disk,    \* the sectors of the directory
  phase,   \* "idle" between two calls, "scan" or "enter" in one, "ended", "failed"
  cluster, \* DirectoryIndex.cluster, as its place in Chain
  block,   \* DirectoryIndex.block
  blocks,  \* DirectoryIndex.blocks, one past the last sector of the cluster
  entry,   \* DirectoryIndex.entry, the next slot of the sector
  buf,     \* what cache buffer B holds
  cached,  \* the sector the BlockCache of the listing believes is in it
  lfn,     \* the name buffer: a half of some name at each place, or None
  sum,     \* DirEntryFull.sum, as the file whose short name has that checksum
  got,     \* what this listing has handed out
  handles, \* the entries the program keeps, from this and earlier listings
  alive,   \* history: the files the directory had when this listing started
  lists    \* listings started

place == <<cluster, block, blocks, entry>>
name  == <<lfn, sum>>
kept  == <<got, handles, alive, lists>>
vars  == <<disk, phase, place, buf, cached, name, kept>>

-----------------------------------------------------------------------------
(* Entries and sectors.                                                    *)

None == <<>>
Zero == [kind |-> "zero"]
Piece(f, p, l) == [kind |-> "piece", file |-> f, part |-> p, live |-> l]
Short(f, l)    == [kind |-> "short", file |-> f, live |-> l]
Label == [kind |-> "label"]

Parts(f) == (Halves[f] + 1) \div 2
FirstOf(c) == Chain[c] * Blocks
Sectors == UNION {FirstOf(c)..(FirstOf(c) + Blocks - 1) : c \in 1..Len(Chain)}
\* A sector of the allocation table.
Fat  == 0
Junk == [o \in 0..(Slots - 1) |-> [kind |-> "junk"]]
Entries ==
  {Zero, Label, [kind |-> "junk"]} \union {Short(f, l) : f \in Files, l \in BOOLEAN}
    \union {Piece(f, p, l) : f \in Files, p \in 1..4, l \in BOOLEAN}

\* A piece whose first byte was set to 0xE5 has the sequence number 5.
DeletedPart == 5
NameRoom == 1..(2 * DeletedPart)
NoName == [i \in NameRoom |-> None]

\* The characters up to the first NUL.
NameLength(n) == CHOOSE i \in 0..(2 * DeletedPart) :
  /\ \A j \in 1..i : n[j] # None
  /\ i = 2 * DeletedPart \/ n[i + 1] = None
LongName(n) == [i \in 1..NameLength(n) |-> n[i]]
OwnName(f) == [i \in 1..Halves[f] |-> <<f, i>>]

\* Mutant: an empty name counts as one piece.
LfnSizeNeverZero(h) == (h \div 2) + 1

\* lfn_size counts 12 characters to a piece: full pieces count as one too many.
LfnSize(h) == IF h = 0 THEN 0 ELSE (h \div 2) + 1

\* The files the directory holds, and how far from its start a slot is.
Places == Sectors \X (0..(Slots - 1))
Live(d) == {f \in Files : \E s \in Sectors, o \in 0..(Slots - 1) : d[s][o] = Short(f, TRUE)}
Rank(at) == LET c == CHOOSE c \in 1..Len(Chain) : at[1] \in FirstOf(c)..(FirstOf(c) + Blocks - 1)
            IN (c * Blocks + at[1] - FirstOf(c)) * Slots + at[2]
-----------------------------------------------------------------------------
\* list_entry has read the first sector.
Init ==
  /\ disk \in Images
  /\ phase = "idle" /\ cluster = 1 /\ entry = 0
  /\ block = FirstOf(1) /\ blocks = FirstOf(1) + Blocks
  /\ buf = disk[FirstOf(1)] /\ cached = FirstOf(1)
  /\ lfn = NoName /\ sum = None
  /\ got = <<>> /\ handles = {} /\ alive = Live(disk) /\ lists = 1

\* next(true): a call of the user forgets the name of the previous entry.
Call ==
  /\ phase = "idle" /\ phase' = "scan"
  /\ lfn' = NoName /\ sum' = None
  /\ UNCHANGED <<disk, place, buf, cached, kept>>

Scanning == phase = "scan" /\ entry < Slots
Slot == buf[entry]

\* An entry that was never used ends the listing.
End ==
  /\ Scanning /\ Slot = Zero
  /\ phase' = "ended"
  /\ UNCHANGED <<disk, place, buf, cached, name, kept>>

Stay == UNCHANGED <<disk, cluster, block, blocks, buf, cached>>

\* lfn(): a piece is copied to its place, up to its NUL.
Fill ==
  /\ Scanning /\ Slot.kind = "piece"
  /\ entry' = entry + 1
  /\ LET from == 2 * Slot.part - 1
         to   == IF Slot.live THEN from ELSE 2 * DeletedPart - 1
     IN lfn' = [i \in NameRoom |->
                  IF i \in {to, to + 1} /\ from + i - to <= Halves[Slot.file]
                    THEN <<Slot.file, from + i - to>> ELSE lfn[i]]
  /\ sum' = Slot.file
  /\ Stay /\ UNCHANGED <<phase, kept>>

Skipped == Slot.kind = "label" \/ (Slot.kind = "short" /\ ~Slot.live)

\* Mutant: a deleted entry is looked at again.
SkipStays == Scanning /\ Skipped /\ UNCHANGED vars

\* A volume label or a deleted entry is passed over.
Skip ==
  /\ Scanning /\ Skipped
  /\ entry' = entry + 1
  /\ Stay /\ UNCHANGED <<phase, name, kept>>

Deliver(f, long, count) ==
  /\ got' = Append(got, [file |-> f, at |-> <<block, entry>>, long |-> long])
  /\ handles' = handles \union {[file |-> f, at |-> <<block, entry>>, count |-> count]}
  /\ UNCHANGED <<alive, lists>>

\* load(): the collected name is kept when its checksum is the one of the entry.
Load ==
  /\ Scanning /\ Slot.kind = "short" /\ Slot.live
  /\ entry' = entry + 1 /\ phase' = "idle"
  /\ lfn' = IF sum = Slot.file THEN lfn ELSE NoName
  /\ Deliver(Slot.file, LongName(lfn'), LfnSize(NameLength(lfn')))
  /\ Stay /\ UNCHANGED sum

-----------------------------------------------------------------------------
(* is_complete: the sector is used up.                                     *)

UsedUp == phase = "scan" /\ entry = Slots

\* BlockCache::read_single of a sector other than the one it has.
ReadSector(s) == cached' = s /\ buf' = disk[s]


NextSector ==
  /\ UsedUp /\ block + 1 < blocks
  /\ entry' = 0 /\ block' = block + 1
  /\ ReadSector(block + 1)
  /\ UNCHANGED <<disk, phase, cluster, blocks, name, kept>>

\* Volume::next reads the FAT into the same buffer.
NextCluster ==
  /\ UsedUp /\ block + 1 = blocks
  /\ entry' = 0 /\ block' = block + 1
  /\ cached' = Fat /\ buf' = Junk
  /\ IF cluster = Len(Chain) THEN phase' = "ended" /\ UNCHANGED cluster
                             ELSE phase' = "enter" /\ cluster' = cluster + 1
  /\ UNCHANGED <<disk, blocks, name, kept>>

\* Mutant: the entries of the new cluster are said to be in the old one.
EnterKeepsBlock ==
  /\ phase = "enter" /\ phase' = "scan"
  /\ block' = FirstOf(cluster - 1) /\ blocks' = FirstOf(cluster - 1) + Blocks
  /\ ReadSector(FirstOf(cluster))
  /\ UNCHANGED <<disk, cluster, entry, name, kept>>

EnterCluster ==
  /\ phase = "enter" /\ phase' = "scan"
  /\ block' = FirstOf(cluster) /\ blocks' = FirstOf(cluster) + Blocks
  /\ ReadSector(FirstOf(cluster))
  /\ UNCHANGED <<disk, cluster, entry, name, kept>>

\* A device read fails: the index has moved and the BlockCache has the new sector
\* number all the same.  find, iter and delete stop here.
ReadFails ==
  /\ MayFail /\ (UsedUp \/ phase = "enter")
  /\ phase' = "failed" /\ buf' = Junk
  /\ IF phase = "scan"
       THEN /\ entry' = 0 /\ block' = block + 1
            /\ cached' = IF block + 1 < blocks THEN block + 1 ELSE Fat
            /\ UNCHANGED blocks
       ELSE /\ block' = FirstOf(cluster) /\ blocks' = FirstOf(cluster) + Blocks
            /\ cached' = FirstOf(cluster)
            /\ UNCHANGED entry
  /\ UNCHANGED <<disk, cluster, name, kept>>
-----------------------------------------------------------------------------
Restart ==
  /\ phase \in {"idle", "ended", "failed"} /\ lists < MaxLists
  /\ lists' = lists + 1
  /\ cluster' = 1 /\ entry' = 0
  /\ block' = FirstOf(1) /\ blocks' = FirstOf(1) + Blocks
  /\ cached' = FirstOf(1)
  /\ got' = <<>> /\ alive' = Live(disk)
  /\ UNCHANGED <<disk, name, handles>>

\* reset(): the listing starts again with an empty BlockCache.
Reset == Restart /\ phase' = "idle" /\ buf' = disk[FirstOf(1)]

ResetFails == MayFail /\ Restart /\ phase' = "failed" /\ buf' = Junk

\* File::delete: the entry is marked, and the slots before it that are counted
\* as its name are cleared when they are all in its sector.
Delete ==
  \E h \in handles :
    /\ h.file \in Deletable
    /\ handles' = {g \in handles : g.file # h.file}
    /\ LET s == h.at[1]
           o == h.at[2]
           first == IF h.count > o THEN o ELSE o - h.count
       IN disk' = [disk EXCEPT ![s] = [i \in 0..(Slots - 1) |->
            CASE i = o -> Short(h.file, FALSE)
              [] first <= i /\ i < o -> Zero
              [] OTHER -> @[i]]]
    /\ UNCHANGED <<phase, place, buf, cached, name, got, alive, lists>>

\* What next does next; a failing read may come instead.
InCall == End \/ Fill \/ Skip \/ Load \/ NextSector \/ NextCluster \/ EnterCluster
Next == Call \/ InCall \/ ReadFails \/ Reset \/ ResetFails \/ Delete

Spec == Init /\ [][Next]_vars
FairSpec == Spec /\ WF_vars(InCall)
-----------------------------------------------------------------------------
(* Properties.                                                             *)

\* Every variable keeps its type, and the index stays within the sector.
TypeOK ==
  /\ disk \in [Sectors -> [0..(Slots - 1) -> Entries]]
  /\ phase \in {"idle", "scan", "enter", "ended", "failed"}
  /\ cluster \in 1..Len(Chain) /\ block \in Nat /\ blocks \in Nat
  /\ entry \in 0..Slots
  /\ buf \in [0..(Slots - 1) -> Entries]
  /\ cached \in Sectors \union {Fat}
  /\ lfn \in [NameRoom -> (Files \X NameRoom) \union {None}]
  /\ sum \in Files \union {None}
  /\ alive \subseteq Files /\ lists \in 1..MaxLists

\* A listing hands out entries in the order of the directory and none twice,
\* across sectors and clusters, whatever is deleted meanwhile; and never a file
\* that was deleted before it started, although the buffer may hold the sector as
\* it was (iter.rs 130-164, 194-250).
InOrder ==
  /\ \A i, j \in DOMAIN got : i < j => Rank(got[i].at) < Rank(got[j].at)
  /\ \A i \in DOMAIN got : got[i].file \in alive

\* The files before the first slot that ends every listing, which the slots of a
\* deleted name do as well.
Shown(d) ==
  {f \in Files : \E at \in Places :
     /\ d[at[1]][at[2]] = Short(f, TRUE)
     /\ \A b \in Places : Rank(b) < Rank(at) => d[b[1]][b[2]] # Zero}

\* A listing that came to its end has called on each entry: every file that is
\* still there, and not behind a cleared name, was handed out (README.md:339-340,
\* "Called on each entry..").
Complete == phase = "ended" => Shown(disk) \subseteq {got[i].file : i \in DOMAIN got}

\* Pieces without an owner lie between the entry at a place and the last one handed
\* out before it, are not marked as deleted, and reach beyond the entry's own name:
\* what they leave in the collected name is not cleared (name.rs 141-157).
Overhung(f, at) ==
  \E b \in Places :
    LET e == disk[b[1]][b[2]]
    IN /\ Rank(b) < Rank(at) /\ e.kind = "piece" /\ e.live /\ e.file # f
       /\ 2 * e.part > Halves[f] /\ Halves[e.file] > Halves[f] /\ Halves[f] > 0
       /\ \A c \in Places : Rank(b) < Rank(c) /\ Rank(c) < Rank(at) =>
            LET m == disk[c[1]][c[2]] IN ~(m.kind = "short" /\ m.live)

\* The long name of an entry is the whole name of its file, and of no other,
\* although pieces of deleted names lie between and names cross sectors; but for
\* an entry that longer pieces hang over.
NameBelongs ==
  \A i \in DOMAIN got :
    \/ got[i].long = OwnName(got[i].file)
    \/ Overhung(got[i].file, got[i].at)


\* The place an entry is said to be at is where its file is or was, so that a
\* deletion or a flush through it rewrites that file's entry and no other; or it was
\* cleared with the name of another file.
HandleAtFile ==
  \A h \in handles : disk[h.at[1]][h.at[2]] \in {Zero} \union {Short(h.file, l) : l \in BOOLEAN}

\* The listing is well-typed and every entry it handed out, in this or an earlier
\* listing, still names the place of its file (iter.rs 207-249).
Consistent == TypeOK /\ HandleAtFile

\* The entry of f lies in the slot before the name of h, whose pieces are all full.
BeforeFullName(f, h) ==
  /\ Halves[h.file] > 0 /\ Halves[h.file] % 2 = 0
  /\ h.at[2] > Parts(h.file)
  /\ disk[h.at[1]][h.at[2] - Parts(h.file) - 1] = Short(f, TRUE)

\* A step takes no file out of the directory but the one it deletes, and the one in
\* the slot before its name when the pieces of that are full: lfn_size counts one
\* too many for them (name.rs 92-101). It reaches no further neighbour, also when
\* the name that was counted is not the file's own.
OthersStay ==
  [][\A f \in Live(disk) \ Live(disk') :
       \E h \in handles \ handles' : h.file = f \/ BeforeFullName(f, h)]_vars

\* Every call of next returns.
CallReturns == phase \in {"scan", "enter"} ~> phase \notin {"scan", "enter"}
=============================================================================
