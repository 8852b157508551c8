------------------------------- MODULE FatChain -------------------------------
(***************************************************************************)
(* The allocation table of a mounted volume: how files grow, are truncated *)
(* and are deleted (src/src/fs/volume.rs allocate, truncate, update, free; *)
(* volume/file.rs write, delete, flush).  Every device write is a step of  *)
(* its own, may fail, and the power may go between any two of them.  All   *)
(* of it runs under the lock of cache buffer A, so one operation runs at a *)
(* time; files stay open between operations.                               *)
(*                                                                         *)
(* The code takes numbers for clusters that the table does not have: its   *)
(* search goes on into the sectors after the table (the bound is the       *)
(* sectors of the partition), and ClusterIndex::EMPTY names a word of      *)
(* some other sector.  What it then reads, writes and frees is not the     *)
(* table's.  The model follows the code up to that step, which leads to    *)
(* the program counter "full" or "lost", and no further.                   *)
(***************************************************************************)
EXTENDS Integers

CONSTANTS
  Files,       \* files of the volume
  LongNamed,   \* those with a long name whose entries fit one sector
  PerSector,   \* entries of a FAT sector
  End,         \* one past the last cluster of the volume (Clusters.count + 2)
  Images,      \* volumes a mount may find: records [fat, dir, next, free]
  MaxCrashes,  \* bound: losses of power
  MayFail      \* TRUE: a device access may fail

Slots == 2..(End - 1)

\* The last entry of every FAT sector: update() never writes it.
LastSlots == {c \in Slots : c % PerSector = PerSector - 1}

Free == 0       \* an unused entry
Eof  == End     \* an end-of-chain mark
None == 0       \* no cluster: Option::None, or 0 in a directory entry
Empty == End + 1    \* ClusterIndex::EMPTY, which is not a cluster
Deleted == End + 2  \* a directory entry that is marked 0xE5
Beyond == End + 3   \* a number past the table, whose word there holds 0

VARIABLES
  fat,      \* the allocation table on the device
  dir,      \* dir[f]: first cluster in the directory entry of f, on the device
  status,   \* status[f]: "closed" or "open", by the one handle of f
  mem,      \* mem[f]: File.file.cluster of the open file
  dirty,    \* dirty[f]: the 0x80 bit of File.mode
  info,     \* Clusters: the next-cluster hint and the free count
  disk,     \* the same two numbers in the FSInfo sector
  op,       \* the running operation: kind, file, program counter, cluster
  crashes   \* number of losses of power so far

vars == <<fat, dir, status, mem, dirty, info, disk, op, crashes>>

NoOp == [kind |-> "none", f |-> "none", pc |-> "idle", n |-> None]
Idle == op.pc = "idle"

\* The code works outside the table: the search found no unused cluster in it, or
\* a number that is no cluster was followed.  The model ends there.
Astray == op.pc \in {"full", "lost"}

-----------------------------------------------------------------------------
(* Chains.                                                                 *)

\* The clusters reached from cluster h by following links.
Chain(h) ==
  LET at[i \in 0..End] ==
        IF i = 0 THEN h
        ELSE LET c == at[i - 1] IN IF c \in Slots THEN fat[c] ELSE c
  IN  {at[i] : i \in 0..End} \intersect Slots

\* Walking from h meets the end mark, and no unused entry on the way.
EndsWell(h) == \E c \in Chain(h) : fat[c] = Eof

Head(f) == IF status[f] = "open" THEN mem[f] ELSE dir[f]

\* What a write of v to the entry of cluster c leaves (Volume::update).  The cut to
\* 16 bits changes no number of a cluster: a FAT16 volume has at most 0xFFF5.
Update(c, v) == IF c \in LastSlots THEN fat ELSE [fat EXCEPT ![c] = v]

\* ClusterIndex::is_valid.
IsValid(c) == c > 2

\* A volume another system formatted and wrote: disjoint chains that end, none
\* of them through the last entry of a FAT sector.
SoundImage(i) ==
  /\ i.fat \in [Slots -> Slots \union {Free, Eof}]
  /\ i.dir \in [Files -> (Slots \ LastSlots) \union {None, Deleted}]
  /\ i.next \in Nat /\ i.free \in Nat
  /\ \A c \in Slots :
       /\ c \in LastSlots => i.fat[c] \in {Free, Eof}
       /\ i.fat[c] \notin LastSlots
       /\ i.fat[c] \in Slots =>
            /\ i.fat[i.fat[c]] # Free
            /\ \A f \in Files : i.dir[f] # i.fat[c]
            /\ \A b \in Slots : i.fat[b] = i.fat[c] => b = c
  /\ \A f \in Files : i.dir[f] \in Slots =>
       /\ i.fat[i.dir[f]] # Free
       /\ \A g \in Files : i.dir[f] = i.dir[g] => f = g

ASSUME ShapeAssumption == PerSector \in Nat \ {0} /\ End \in Nat \ {0, 1}
ASSUME FilesAssumption == LongNamed \subseteq Files /\ "none" \notin Files
ASSUME BoundAssumption == MaxCrashes \in Nat /\ MayFail \in BOOLEAN
ASSUME ImageAssumption == \A i \in Images : SoundImage(i)

-----------------------------------------------------------------------------
Init ==
  /\ \E i \in Images :
       /\ fat = i.fat /\ dir = i.dir
       /\ info = [next |-> i.next, free |-> i.free]
       /\ disk = info
  /\ status = [f \in Files |-> "closed"]
  /\ mem = [f \in Files |-> None]
  /\ dirty = [f \in Files |-> FALSE]
  /\ op = NoOp
  /\ crashes = 0

Goto(pc) == op' = [op EXCEPT !.pc = pc]
Start(kind, f, pc, n) == op' = [kind |-> kind, f |-> f, pc |-> pc, n |-> n]

\* A handle goes away: what the file held in memory is lost.
CloseHandle(f) ==
  /\ status' = [status EXCEPT ![f] = "closed"]
  /\ mem' = [mem EXCEPT ![f] = None]
  /\ dirty' = [dirty EXCEPT ![f] = FALSE]

\* Open an existing file for reading or writing.
Open(f) ==
  /\ Idle /\ status[f] = "closed" /\ dir[f] # Deleted
  /\ status' = [status EXCEPT ![f] = "open"]
  /\ mem' = [mem EXCEPT ![f] = dir[f]]
  /\ UNCHANGED <<fat, dir, dirty, info, disk, op, crashes>>

\* A write inside the chain: only the dirty bit matters here.
WriteInside(f) ==
  /\ Idle /\ status[f] = "open" /\ mem[f] \in Slots /\ IsValid(mem[f])
  /\ dirty' = [dirty EXCEPT ![f] = TRUE]
  /\ UNCHANGED <<fat, dir, status, mem, info, disk, op, crashes>>

\* A write to a file whose entry holds EMPTY: its sector is none of a cluster, and
\* its successor and the link from it are words of another sector.  Or there is no such sector.
WriteOutside(f) ==
  /\ Idle /\ status[f] = "open" /\ mem[f] = Empty
  /\ dirty' = [dirty EXCEPT ![f] = TRUE]
  /\ Start("grow", f, "lost", Empty) \/ op' = op
  /\ UNCHANGED <<fat, dir, status, mem, info, disk, crashes>>

\* A FAT32 volume has an FSInfo sector, whose hint is the number of a cluster.
Fat32 == disk.next # None

\* The numbers of Clusters.  On FAT16 they are counted but never read.
Note(i) == info' = IF Fat32 THEN i ELSE info

(* File::write at the end of the chain: Volume::allocate.                  *)

\* The file has no cluster (is_allocated), or data() found the end of its chain.
Grow(f) ==
  /\ Idle /\ status[f] = "open"
  /\ mem[f] # Empty
  /\ IsValid(mem[f]) => EndsWell(mem[f])
  /\ dirty' = [dirty EXCEPT ![f] = TRUE]
  /\ Start("grow", f, "pick", None)
  /\ UNCHANGED <<fat, dir, status, mem, info, disk, crashes>>

\* The cluster allocate links from: the FIRST cluster of the file.
Prev == IF IsValid(mem[op.f]) THEN mem[op.f] ELSE None

\* Mutant: an entry that ends a chain counts as unused.
FirstFreeOrEof(s) ==
  {c \in Slots : /\ s <= c /\ fat[c] \in {Free, Eof}
                /\ \A b \in Slots : s <= b /\ b < c => fat[b] \notin {Free, Eof}}

\* The first unused cluster at or after s, if there is one.
FirstFree(s) ==
  {c \in Slots : /\ s <= c /\ fat[c] = Free
                /\ \A b \in Slots : s <= b /\ b < c => fat[b] # Free}

\* Volume::free: past the last cluster the search goes on through the second table,
\* the root directory and the data, where any word may hold 0 or none does.
Search(s) == IF FirstFree(s) # {} THEN FirstFree(s) ELSE {Beyond, None}

\* Volume::free_try: from s, and from 2 when that failed: no space, or a failing read.
FreeTry(s) ==
  LET fails == MayFail \/ None \in Search(s)
  IN  (Search(s) \ {None})
        \union (IF s > 2 /\ fails THEN Search(2) ELSE {})
        \union (IF MayFail \/ (s <= 2 /\ fails) THEN {None} ELSE {})

SearchStart == IF Prev = None THEN 2 ELSE Prev

Abort == op' = NoOp

Pick ==
  /\ op.pc = "pick"
  /\ \E n \in FreeTry(SearchStart) :
       CASE n = None   -> Abort
         [] n = Beyond -> Goto("full")
         [] OTHER      -> op' = [op EXCEPT !.pc = "mark", !.n = n]
  /\ UNCHANGED <<fat, dir, status, mem, dirty, info, disk, crashes>>

\* A device write of the table: done, or failed before or after it took effect.
WriteFat(c, v, done, failed) ==
  \/ fat' = Update(c, v) /\ done
  \/ MayFail /\ fat' \in {fat, Update(c, v)} /\ failed

Mark ==
  /\ op.pc = "mark"
  /\ WriteFat(op.n, Eof, Goto(IF Prev = None THEN "hint" ELSE "link"), Abort)
  /\ UNCHANGED <<dir, status, mem, dirty, info, disk, crashes>>

Link ==
  /\ op.pc = "link"
  /\ WriteFat(Prev, op.n, Goto("hint"), Abort)
  /\ UNCHANGED <<dir, status, mem, dirty, info, disk, crashes>>

\* Clusters::free_remove and free_add; 0 is the missing count.
FreeRemove(n) == IF n = 0 THEN 0 ELSE n - 1
FreeAdd(n) == n + 1

\* The search for the next free cluster comes before the bookkeeping: when it
\* fails, allocate fails, although the cluster is already marked and linked.  The
\* hint is never searched from, so a number past the table does no harm there.
\* The bytes of a file that had no cluster are not written to the new one: EMPTY stays
\* in File.last.
Hint ==
  /\ op.pc = "hint"
  /\ \E n \in FreeTry(op.n) :
       IF n = None
       THEN Abort /\ UNCHANGED <<info, mem>>
       ELSE /\ Note([next |-> n, free |-> FreeRemove(info.free)])
            /\ mem' = IF Prev = None THEN [mem EXCEPT ![op.f] = op.n] ELSE mem
            /\ IF mem[op.f] = None THEN Goto("lost") ELSE Abort
  /\ UNCHANGED <<fat, dir, status, dirty, disk, crashes>>

(* Volume::truncate, of a file opened with TRUNCATE or being deleted, and the  *)
(* flush of a dirty file.                                                      *)

\* Volume::sync has something to write on FAT32, when a number is known.
FlushStart == IF Fat32 /\ info # [next |-> None, free |-> 0] THEN "fsinfo" ELSE "entry"

\* How a step ends the operation.  A deleted file that was dirty is flushed when
\* its handle is dropped; a truncated one has its entry written; a handle being
\* closed, or one whose open failed, goes away.
Finish(ok) ==
  IF op.kind = "delete" /\ op.pc \notin {"fsinfo", "entry"} /\ dirty[op.f]
  THEN Goto(FlushStart) /\ UNCHANGED <<status, mem, dirty>>
  ELSE IF op.kind = "truncate" /\ op.pc # "entry" /\ ok
  THEN Goto("entry") /\ UNCHANGED <<status, mem, dirty>>
  ELSE /\ Abort
       /\ IF op.kind = "flush" \/ (op.kind = "truncate" /\ ok)
            THEN UNCHANGED <<status, mem, dirty>>
            ELSE CloseHandle(op.f)

\* Volume::create_file with TRUNCATE on an existing file.
Truncate(f) ==
  /\ Idle /\ status[f] = "closed" /\ dir[f] # Deleted
  /\ status' = [status EXCEPT ![f] = "open"]
  /\ mem' = [mem EXCEPT ![f] = dir[f]]
  /\ Start("truncate", f, "cut", dir[f])
  /\ UNCHANGED <<fat, dir, dirty, info, disk, crashes>>

\* Volume::next of a cluster fails: its entry is an unused one.
NoRead(c) == fat[c] = Free

\* Clusters::free_set is given a cluster number.
FreeSet(v) == IF info.free # 0 /\ info.free <= v THEN info.free ELSE v

\* Mutant: the rest is freed without cutting it off first.
CutNothing ==
  /\ op.pc = "cut" /\ op.n \in Slots /\ IsValid(op.n) /\ ~NoRead(op.n) /\ fat[op.n] # Eof
  /\ op' = [op EXCEPT !.pc = "free", !.n = fat[op.n]]
  /\ UNCHANGED <<fat, dir, status, mem, dirty, info, disk, crashes>>

\* A file without a cluster is cut by ClusterIndex::EMPTY, whose word may be one that
\* stands for the end of a chain, or missing, or a number: then it is overwritten and
\* the numbers from there on are freed.
CutNone ==
  /\ op.pc = "cut" /\ op.n \in {None, Empty}
  /\ \/ Finish(TRUE)
     \/ Finish(FALSE)
     \/ Goto("lost") /\ UNCHANGED <<status, mem, dirty>>
  /\ UNCHANGED <<fat, dir, info, disk, crashes>>

\* The first cluster is kept: its entry becomes the end mark.  Cluster 2 is not valid
\* (ClusterIndex::is_valid), so nothing of its file is freed.
Cut ==
  /\ op.pc = "cut" /\ op.n \in Slots
  /\ \/ /\ ~IsValid(op.n)
        /\ Finish(TRUE)
        /\ UNCHANGED <<fat, info>>
     \/ /\ IsValid(op.n)
        /\ NoRead(op.n) \/ MayFail
        /\ Finish(FALSE)
        /\ UNCHANGED <<fat, info>>
     \/ /\ IsValid(op.n) /\ ~NoRead(op.n) /\ fat[op.n] = Eof
        /\ Finish(TRUE)
        /\ UNCHANGED <<fat, info>>
     \/ /\ IsValid(op.n) /\ ~NoRead(op.n) /\ fat[op.n] # Eof
        /\ Note([info EXCEPT !.free = FreeSet(fat[op.n])])
        /\ WriteFat(op.n, Eof,
                    op' = [op EXCEPT !.pc = "free", !.n = fat[op.n]] /\ UNCHANGED <<status, mem, dirty>>,
                    Finish(FALSE))
  /\ UNCHANGED <<dir, disk, crashes>>

\* Mutant: the cluster that was freed is taken for its successor.
FreeSame ==
  /\ op.pc = "free" /\ ~NoRead(op.n)
  /\ UNCHANGED vars

\* The rest of the chain, one entry at a time; the last one is not counted.
FreeNext ==
  /\ op.pc = "free"
  /\ \/ /\ NoRead(op.n) \/ MayFail
        /\ Finish(FALSE)
        /\ UNCHANGED <<fat, info>>
     \/ /\ ~NoRead(op.n) /\ fat[op.n] = Eof
        /\ WriteFat(op.n, Free, Finish(TRUE), Finish(FALSE))
        /\ UNCHANGED info
     \/ /\ ~NoRead(op.n) /\ fat[op.n] # Eof
        /\ \/ /\ fat' = Update(op.n, Free)
              /\ op' = [op EXCEPT !.n = fat[op.n]]
              /\ Note([info EXCEPT !.free = FreeAdd(@)])
              /\ UNCHANGED <<status, mem, dirty>>
           \/ /\ MayFail /\ fat' \in {fat, Update(op.n, Free)}
              /\ Finish(FALSE)
              /\ UNCHANGED info
  /\ UNCHANGED <<dir, disk, crashes>>

\* File::delete: the directory entry goes first; the chain follows only for a
\* long name whose entries do not span sectors.
Delete(f) ==
  /\ Idle /\ status[f] = "open"
  /\ Start("delete", f, "unlist", mem[f])
  /\ UNCHANGED <<fat, dir, status, mem, dirty, info, disk, crashes>>

Unlist ==
  /\ op.pc = "unlist"
  /\ \/ /\ dir' = [dir EXCEPT ![op.f] = Deleted]
        /\ IF op.f \in LongNamed /\ op.n # None
             THEN Goto("cut") /\ UNCHANGED <<status, mem, dirty>>
             ELSE Finish(TRUE)
     \/ /\ MayFail
        /\ dir' \in {dir, [dir EXCEPT ![op.f] = Deleted]}
        /\ Finish(FALSE)
  /\ UNCHANGED <<fat, info, disk, crashes>>

\* File::flush, and close or drop of the handle, which flushes a dirty file.
Flush(f, kind) ==
  /\ Idle /\ status[f] = "open" /\ dirty[f]
  /\ Start(kind, f, FlushStart, None)
  /\ UNCHANGED <<fat, dir, status, mem, dirty, info, disk, crashes>>

CloseClean(f) ==
  /\ Idle /\ status[f] = "open" /\ ~dirty[f]
  /\ CloseHandle(f)
  /\ UNCHANGED <<fat, dir, info, disk, op, crashes>>

\* Volume::sync: the numbers that are known go to the FSInfo sector.
Synced == [next |-> IF info.next = None THEN disk.next ELSE info.next,
           free |-> IF info.free = 0 THEN disk.free ELSE info.free]

FsInfo ==
  /\ op.pc = "fsinfo"
  /\ \/ /\ disk' = Synced
        /\ Goto("entry") /\ UNCHANGED <<status, mem, dirty>>
     \/ /\ MayFail /\ disk' \in {disk, Synced}
        /\ Finish(FALSE)
  /\ UNCHANGED <<fat, dir, info, crashes>>

\* DirEntry::sync: a file without a cluster is written as ClusterIndex::EMPTY.
EntryCluster(f) == IF mem[f] = None THEN Empty ELSE mem[f]

Entry ==
  /\ op.pc = "entry"
  /\ \/ /\ dir' = [dir EXCEPT ![op.f] = EntryCluster(op.f)]
        /\ Finish(TRUE)
     \/ /\ MayFail
        /\ dir' \in {dir, [dir EXCEPT ![op.f] = EntryCluster(op.f)]}
        /\ Finish(FALSE)
  /\ UNCHANGED <<fat, info, disk, crashes>>

-----------------------------------------------------------------------------
\* The power goes: what is on the device stays, and the volume is mounted again.
Crash ==
  /\ crashes < MaxCrashes /\ ~Astray
  /\ crashes' = crashes + 1
  /\ op' = NoOp
  /\ status' = [f \in Files |-> "closed"]
  /\ mem' = [f \in Files |-> None]
  /\ dirty' = [f \in Files |-> FALSE]
  /\ info' = disk
  /\ UNCHANGED <<fat, dir, disk>>

Run == Pick \/ Mark \/ Link \/ Hint \/ CutNone \/ Cut \/ FreeNext \/ Unlist \/ FsInfo \/ Entry

Next ==
  \/ \E f \in Files :
       \/ Open(f) \/ WriteInside(f) \/ WriteOutside(f) \/ Grow(f) \/ Truncate(f) \/ Delete(f)
       \/ \E kind \in {"flush", "close"} : Flush(f, kind)
       \/ CloseClean(f)
  \/ Run
  \/ Crash

Spec == Init /\ [][Next]_vars

\* An operation that started keeps running while there is power.
FairSpec == Spec /\ WF_vars(Run)

-----------------------------------------------------------------------------
(* Properties.                                                             *)

Entries == Slots \union {Free, Eof}
Heads   == Slots \union {None, Empty}

\* Every variable has its type.
TypeOK ==
  /\ fat \in [Slots -> Entries]
  /\ dir \in [Files -> Heads \union {Deleted}]
  /\ status \in [Files -> {"closed", "open"}]
  /\ mem \in [Files -> Heads]
  /\ dirty \in [Files -> BOOLEAN]
  /\ {info, disk} \subseteq [next : Nat, free : Nat]
  /\ op = NoOp \/ op \in [kind : {"grow", "truncate", "delete", "flush", "close"}, f : Files,
                          pc : {"pick", "mark", "link", "hint", "cut", "free", "unlist", "fsinfo", "entry",
                                "full", "lost"},
                          n : Heads]
  /\ crashes \in 0..MaxCrashes

\* The clusters something on the device or in memory starts from: entries, open
\* files, the cluster being added and the chain being freed.
Roots ==
  {dir[f] : f \in Files} \union {mem[f] : f \in Files}
    \union (IF op.pc \in {"link", "hint", "cut", "free"} THEN {op.n} ELSE {})

Links(c, d) == fat[c] = d /\ d \in Slots

\* No chain runs into an unused cluster, whatever failed and whenever the power
\* went: nothing that is still in use can be given away again.  The last entry
\* of a FAT sector is the exception this code makes.
NoDangling ==
  \A d \in Slots \ LastSlots :
    d \in Roots \/ (\E c \in Slots : Links(c, d)) => fat[d] # Free

\* A cluster has one link to it, or a file that starts with it, never two.
NoSharing ==
  \A d \in Slots \ LastSlots :
    /\ \A b, c \in Slots : Links(b, d) /\ Links(c, d) => b = c
    /\ \A f, g \in Files : d \in {dir[f], mem[f]} /\ d \in {dir[g], mem[g]} => f = g

\* Two files never have a cluster in common, on the device or in memory, so a write
\* to one never lands in the other.  The last entry of a FAT sector is the exception.
FilesApart ==
  \A f, g \in Files : f # g =>
    \A h \in {dir[f], mem[f]}, k \in {dir[g], mem[g]} :
      Chain(h) \intersect Chain(k) \subseteq LastSlots

\* A search leaves the table only when every cluster from where it starts, the first
\* one of the file, to the last one of the volume is in use, also when some before it
\* are not.
LeavesWhenFull == op.pc = "full" => \A c \in Slots : SearchStart <= c => fat[c] # Free

\* The volume is sound until the code leaves the table: typed, no chain leads to an
\* unused cluster, has a cluster with two owners or meets another, whatever fails and
\* whenever the power goes (volume.rs 370-393, 425-484).
Consistent == TypeOK /\ NoDangling /\ NoSharing /\ FilesApart /\ LeavesWhenFull

\* What is done to one file never changes the clusters of another, until the code
\* leaves the table (volume.rs 370-393, 433-484).
OthersUntouched ==
  [][crashes' = crashes /\ op' # op =>
       \A g \in Files \ {op.f, op'.f} : Chain(Head(g))' = Chain(Head(g))]_vars

\* Every operation ends or leaves the table: a chain that is being freed has an end,
\* and so has the search (volume.rs 381-392, 447-461).
OperationsEnd == []<>(Idle \/ Astray)
=============================================================================
