------------------------------ MODULE FileCursor ------------------------------
(***************************************************************************)
(* Reading an open file: File::read, Reader::read, seek, truncate and the  *)
(* conversions between File and Reader (src/src/fs/volume/file.rs).  The   *)
(* cursor is a byte position; "last" and "short" remember the cluster the  *)
(* previous access ended in and the position where it starts, and data()   *)
(* walks the FAT chain from there.  Data sectors and FAT sectors go through*)
(* the one cache buffer A.                                                 *)
(***************************************************************************)
EXTENDS Naturals, Sequences, FiniteSetsExt

CONSTANTS
  Chain,      \* the clusters of the file, in FAT order
  Size,       \* its size in bytes, which its chain may or may not cover
  BlockSize,  \* bytes of a sector
  Blocks,     \* sectors of a cluster
  PerFat,     \* chain entries of a FAT sector
  MaxLen,     \* bound: length of the caller's buffer
  MayFail,    \* TRUE: a device read may fail
  Careful     \* TRUE: a Reader meets no failing read and no chain that is too short

ASSUME ChainAssumption ==
  /\ Chain \in Seq(Nat) /\ Len(Chain) > 0
  /\ \A i, j \in 1..Len(Chain) : Chain[i] = Chain[j] => i = j
ASSUME SizeAssumption == Size \in Nat /\ MaxLen \in Nat
ASSUME ShapeAssumption == BlockSize \in Nat \ {0} /\ Blocks \in Nat \ {0} /\ PerFat \in Nat \ {0}
ASSUME FlagAssumption == {MayFail, Careful} \subseteq BOOLEAN

VARIABLES
  pos,     \* File.pos
  size,    \* File.file.size
  short,   \* File.short
  last,    \* File.last
  kind,    \* "file", or "reader" after into_reader
  phase,   \* "idle", "loop" (in read, between accesses) or "walk" (in data())
  want,    \* length of the caller's buffer
  got,     \* bytes copied to it by the running or the last read
  tag,     \* the sector the reading loop believes is in the buffer: l or Reader.bp
  buf,     \* what cache buffer A holds
  cached,  \* the FAT sector the BlockCache of the call believes is in the buffer
  res      \* how the last read returned

vars == <<pos, size, short, last, kind, phase, want, got, tag, buf, cached, res>>
call == <<kind, want, size>>

-----------------------------------------------------------------------------
(* Where bytes are.                                                        *)

ClusterBytes == Blocks * BlockSize
Capacity == Len(Chain) * ClusterBytes

DataSector(c, b) == <<"data", c, b>>
FatSector(c) == <<"fat", c \div PerFat>>
Junk == <<"junk">>
None == <<"none">>

\* The byte of the file at position p: its sector and its place in the sector.
Content(p) ==
  <<DataSector(Chain[(p \div ClusterBytes) + 1], (p % ClusterBytes) \div BlockSize), p % BlockSize>>

HasNext(c) == \E i \in 1..(Len(Chain) - 1) : Chain[i] = c
NextOf(c)  == Chain[(CHOOSE i \in 1..(Len(Chain) - 1) : Chain[i] = c) + 1]

-----------------------------------------------------------------------------
Init ==
  /\ pos = 0 /\ size = Size
  /\ short = 0 /\ last = Chain[1]
  /\ kind = "file" /\ phase = "idle"
  /\ want = 0 /\ got = <<>> /\ res = "none"
  /\ tag = None /\ cached = None /\ buf = Junk

\* read(b) with a buffer of t bytes.  A File claims buffer A, which other calls
\* have used since, and starts with no sector; a Reader kept both.
Call(t) ==
  /\ phase = "idle" /\ phase' = "loop"
  /\ want' = t /\ got' = <<>>
  /\ cached' = None
  /\ IF kind = "file" THEN tag' = None /\ buf' = Junk ELSE UNCHANGED <<tag, buf>>
  /\ UNCHANGED <<pos, size, short, last, kind, res>>

Return(r) == phase' = "idle" /\ res' = r

\* The loop condition of read fails.
Done ==
  /\ phase = "loop"
  /\ Len(got) = want \/ pos >= size
  /\ Return("ok")
  /\ UNCHANGED <<pos, short, last, got, tag, buf, cached, call>>

\* Mutant: the rewind forgets the remembered cluster.
EnterKeepsLast ==
  /\ phase = "loop" /\ phase' = "walk"
  /\ Len(got) < want /\ pos < size
  /\ short' = IF pos < short THEN 0 ELSE short
  /\ cached' = None
  /\ UNCHANGED <<pos, last, got, tag, buf, res, call>>

\* data() starts: rewind when the cursor moved before the remembered cluster.
Enter ==
  /\ phase = "loop" /\ phase' = "walk"
  /\ Len(got) < want /\ pos < size
  /\ IF pos < short THEN short' = 0 /\ last' = Chain[1] ELSE UNCHANGED <<short, last>>
  /\ cached' = None
  /\ UNCHANGED <<pos, got, tag, buf, res, call>>

\* Mutant: the walk does not move on.
HopStays ==
  /\ phase = "walk" /\ pos - short >= ClusterBytes
  /\ cached' = FatSector(last)
  /\ buf' = FatSector(last)
  /\ UNCHANGED <<pos, short, last, phase, got, tag, res, call>>

\* One turn of the loop of data(): the next cluster, or the end of the chain,
\* which read answers with what it has.
Hop ==
  /\ phase = "walk" /\ pos - short >= ClusterBytes
  /\ cached' = FatSector(last)
  /\ buf' = IF cached = FatSector(last) THEN buf ELSE FatSector(last)
  /\ IF HasNext(last)
       THEN last' = NextOf(last) /\ short' = short + ClusterBytes /\ UNCHANGED <<phase, res>>
       ELSE Return("ok") /\ UNCHANGED <<last, short>>
  /\ UNCHANGED <<pos, got, tag, call>>

\* A device read may fail here.
ReadsFail == MayFail /\ (Careful => kind = "file")

\* A failed device read leaves the buffer alone or half overwritten.
Spoil == buf' \in {buf, Junk}

HopFails ==
  /\ ReadsFail
  /\ phase = "walk" /\ pos - short >= ClusterBytes
  /\ cached # FatSector(last)
  /\ Spoil
  /\ Return("err")
  /\ UNCHANGED <<pos, short, last, got, tag, cached, call>>

Target == DataSector(last, (pos - short) \div BlockSize)
Offset == pos % BlockSize

\* Mutant: the copy ignores the size of the file.
CountPastSize == Min({BlockSize - Offset, want - Len(got)})

\* What is copied from one sector.
Count == Min({BlockSize - Offset, want - Len(got), size - pos})

\* The cluster is reached: read the sector unless it is the one in the buffer,
\* and copy up to the end of the sector, of the caller's buffer or of the file.
Fetch ==
  /\ phase = "walk" /\ pos - short < ClusterBytes
  /\ buf' = IF tag = Target THEN buf ELSE Target
  /\ tag' = Target
  /\ got' = got \o [i \in 1..Count |-> <<buf', Offset + i - 1>>]
  /\ pos' = pos + Count
  /\ phase' = "loop"
  /\ UNCHANGED <<short, last, cached, res, call>>

FetchFails ==
  /\ ReadsFail
  /\ phase = "walk" /\ pos - short < ClusterBytes
  /\ tag # Target
  /\ Spoil
  /\ Return("err")
  /\ UNCHANGED <<pos, short, last, got, tag, cached, call>>

\* seek: Start(v), Current(+-v) and End(-v), which counts back from the cursor;
\* a target past the size is an error that changes nothing.
SeekTarget(from, v) ==
  CASE from = "start"   -> v
    [] from = "forward" -> pos + v
    [] from = "back"    -> IF v > pos THEN 0 ELSE pos - v

Seek ==
  /\ phase = "idle"
  /\ \E from \in {"start", "forward", "back"}, v \in 0..size :
       /\ SeekTarget(from, v) <= size
       /\ pos' = SeekTarget(from, v)
  /\ UNCHANGED <<short, last, phase, got, tag, buf, cached, res, call>>

\* File::truncate: only the size changes, and a cursor inside moves to the end.
Truncate ==
  /\ phase = "idle" /\ kind = "file"
  /\ size' \in 0..size
  /\ pos' = IF size' > pos THEN size' ELSE pos
  /\ UNCHANGED <<short, last, kind, phase, want, got, tag, buf, cached, res>>

\* into_reader claims buffer A for good, with no sector known; into_file frees it.
IntoReader ==
  /\ Careful => size <= Capacity
  /\ phase = "idle" /\ kind = "file" /\ kind' = "reader"
  /\ tag' = None /\ buf' = Junk
  /\ UNCHANGED <<pos, size, short, last, phase, want, got, cached, res>>

IntoFile ==
  /\ phase = "idle" /\ kind = "reader" /\ kind' = "file"
  /\ UNCHANGED <<pos, size, short, last, phase, want, got, tag, buf, cached, res>>

Step == Done \/ Enter \/ Hop \/ HopFails \/ Fetch \/ FetchFails

Next ==
  \/ \E t \in 1..MaxLen : Call(t)
  \/ Step
  \/ Seek \/ Truncate \/ IntoReader \/ IntoFile

Spec == Init /\ [][Next]_vars

\* A call that started keeps running.
FairSpec == Spec /\ WF_vars(Step)

-----------------------------------------------------------------------------
(* Properties.                                                             *)

\* What a buffer may hold, and the bytes of it.
Sectors == ({"data"} \X Nat \X Nat) \union ({"fat"} \X Nat) \union {Junk}
Cells   == Sectors \X Nat

\* Every variable has its type.
TypeOK ==
  /\ pos \in Nat /\ size \in 0..Size /\ short \in Nat /\ last \in Nat
  /\ kind \in {"file", "reader"}
  /\ phase \in {"idle", "loop", "walk"}
  /\ want \in 0..MaxLen
  /\ got \in Seq(Cells) /\ Len(got) <= want
  /\ buf \in Sectors
  /\ {tag, cached} \subseteq Sectors \union {None}
  /\ res \in {"none", "ok", "err"}

\* "last" is the cluster that starts at position "short", after any sequence of
\* reads, seeks, truncations, failed device reads and ends of chain.
CursorOK ==
  \E k \in 1..Len(Chain) : last = Chain[k] /\ short = (k - 1) * ClusterBytes

\* The bytes copied by the running read are the bytes of the file that end at
\* the cursor: none skipped, repeated or taken from another sector.
GotIsFile ==
  /\ Len(got) <= pos
  /\ \A i \in 1..Len(got) : got[i] = Content(pos - Len(got) + i - 1)

\* File::read delivers the file, whatever failed before (file.rs 682-709).
FileDelivers == kind = "file" /\ phase # "idle" => GotIsFile

\* A file is read right: the variables are typed, the cursor is on the chain and
\* what was copied are the bytes of the file (file.rs 682-734).
Consistent == TypeOK /\ CursorOK /\ FileDelivers

\* Every read returns: it neither walks the chain nor copies for ever.
ReadReturns == []<>(phase = "idle")

\* Reading is reading from the byte file, through a File and through a Reader,
\* which "does NOT re-read nearby chunks inside the same Block" (file.rs 474-493):
\* every step copies the next bytes of the file, moves the cursor as the program
\* asked, fails without moving it, or changes nothing a caller sees.
Bytes == INSTANCE ByteFile WITH Stored <- Capacity, busy <- (phase # "idle")
RefinesByteFile == Bytes!Spec
=============================================================================
