---------------------------- MODULE FatChain_proofs ----------------------------
(***************************************************************************)
(* Proofs about FatChain for every set of files, FAT sector size, table    *)
(* length, volume a mount may find, and number of failures and crashes.    *)
(* They speak of the code until it leaves the table (pc full or lost):     *)
(* what it changes from there on is outside the model.                     *)
(***************************************************************************)
EXTENDS FatChain, WellFoundedInduction, TLAPS

USE ShapeAssumption, FilesAssumption, BoundAssumption

-----------------------------------------------------------------------------
(* Constants.                                                              *)

\* The numbers below another one.
LEMMA LessIsWellFounded == IsWellFoundedOn({p \in Nat \X Nat : p[1] < p[2]}, Nat)
<1>1. {p \in Nat \X Nat : p[1] < p[2]} = OpToRel(<, Nat)
  BY Zenon DEF OpToRel
<1> QED
  BY <1>1, NatLessThanWellFounded, Zenon

\* A set of numbers has a least one.
LEMMA Least ==
  ASSUME NEW T, T \subseteq Nat, T # {}
  PROVE  \E x \in T : \A y \in T : x <= y
<1>1. PICK x \in T : \A y \in T : ~(<<y, x>> \in {p \in Nat \X Nat : p[1] < p[2]})
  BY WFMin, LessIsWellFounded, Zenon
<1>2. \A y \in T : ~(y < x)
  <2> TAKE y \in T
  <2>1. y \in Nat /\ x \in Nat /\ <<y, x>> \in Nat \X Nat
    OBVIOUS
  <2> QED
    BY <1>1, <2>1
<1> QED
  BY <1>2

\* The table has a length.
LEMMA EndNat == End \in Nat
OBVIOUS

\* The special values are no clusters.
LEMMA Special ==
  /\ Slots \subseteq Nat /\ LastSlots \subseteq Slots
  /\ {Free, Eof, None, Empty, Deleted, Beyond} \intersect Slots = {}
  /\ \A c \in Slots : Eof # Free
  /\ {Free, Eof, None, Empty, Deleted, Beyond} \subseteq Nat /\ Beyond # None
  /\ Deleted \notin Slots \union {None, Empty}
BY EndNat DEF Slots, LastSlots, Free, Eof, None, Empty, Deleted, Beyond

\* What a search returns: nothing, a number past the table or an unused cluster.
LEMMA FreeTryPicks ==
  ASSUME NEW s, NEW n \in FreeTry(s)
  PROVE  n = None \/ n = Beyond \/ (n \in Slots /\ fat[n] = Free)
BY DEF FreeTry, Search, FirstFree

\* A search that goes past the table met no unused cluster in it.
LEMMA SearchFull ==
  ASSUME NEW s \in Nat, Beyond \in Search(s)
  PROVE  \A c \in Slots : s <= c => fat[c] # Free
<1>1. FirstFree(s) = {}
  BY Special DEF Search, FirstFree
<1> DEFINE T == {c \in Slots : s <= c /\ fat[c] = Free}
<1> SUFFICES ASSUME T # {} PROVE FALSE
  OBVIOUS
<1>2. PICK x \in T : \A y \in T : x <= y
  <2>1. T \subseteq Nat
    BY Special
  <2> HIDE DEF T
  <2> QED
    BY <2>1, Least
<1>3. ASSUME NEW b \in Slots, s <= b, b < x PROVE fat[b] # Free
  <2>1. b \in Nat /\ x \in Nat
    BY <1>2, Special
  <2> QED
    BY <1>2, <1>3, <2>1
<1> QED
  BY <1>1, <1>2, <1>3 DEF FirstFree

\* Nor did one that started again from 2.
LEMMA FreeTryFull ==
  ASSUME NEW s \in Nat, Beyond \in FreeTry(s)
  PROVE  \A c \in Slots : s <= c => fat[c] # Free
<1>1. CASE Beyond \in Search(s)
  BY <1>1, SearchFull
<1>2. CASE Beyond \in Search(2)
  <2>1. \A c \in Slots : 2 <= c
    BY EndNat DEF Slots
  <2> QED
    BY <1>2, <2>1, SearchFull
<1> QED
  BY <1>1, <1>2, Special DEF FreeTry

-----------------------------------------------------------------------------
(* Types.                                                                  *)

Pcs == {"pick", "mark", "link", "hint", "cut", "free", "unlist", "fsinfo", "entry", "full", "lost"}
Ops == [kind : {"grow", "truncate", "delete", "flush", "close"}, f : Files, pc : Pcs, n : Heads]

\* A running operation has a file.
LEMMA Running ==
  ASSUME TypeOK, op.pc # "idle"
  PROVE  op \in Ops /\ op.f \in Files
BY DEF TypeOK, NoOp, Ops, Pcs

\* How a step may end an operation.
LEMMA FinishEnds ==
  ASSUME TypeOK, op.pc # "idle", NEW ok, Finish(ok)
  PROVE  /\ op' = NoOp \/ (op' \in Ops /\ op'.pc \in {"fsinfo", "entry"})
         /\ mem' = mem \/ mem' = [mem EXCEPT ![op.f] = None]
         /\ status' \in [Files -> {"closed", "open"}]
         /\ mem' \in [Files -> Heads]
         /\ dirty' \in [Files -> BOOLEAN]
<1>1. op \in Ops /\ op.f \in Files
  BY Running
<1>2. FlushStart \in {"fsinfo", "entry"}
  BY DEF FlushStart
<1>3. ASSUME NEW pc \in {"fsinfo", "entry"}, Goto(pc)
      PROVE  op' \in Ops /\ op'.pc \in {"fsinfo", "entry"}
  BY <1>1, <1>3 DEF Goto, Ops, Pcs
<1>4. CASE Goto(FlushStart) /\ UNCHANGED <<status, mem, dirty>>
  BY <1>2, <1>3, <1>4 DEF TypeOK
<1>5. CASE Goto("entry") /\ UNCHANGED <<status, mem, dirty>>
  BY <1>3, <1>5 DEF TypeOK
<1>6. CASE Abort /\ UNCHANGED <<status, mem, dirty>>
  BY <1>6 DEF TypeOK, Abort
<1>7. CASE Abort /\ CloseHandle(op.f)
  BY <1>1, <1>7 DEF TypeOK, Abort, CloseHandle, Heads
<1> QED
  BY <1>4, <1>5, <1>6, <1>7 DEF Finish

\* A write of the table leaves a table.
LEMMA UpdateType ==
  ASSUME TypeOK, NEW c, NEW v \in Entries
  PROVE  Update(c, v) \in [Slots -> Entries]
BY DEF TypeOK, Update

\* The numbers of Clusters stay numbers.
LEMMA NoteType ==
  ASSUME TypeOK, NEW i \in [next : Nat, free : Nat], Note(i)
  PROVE  info' \in [next : Nat, free : Nat]
BY DEF TypeOK, Note

\* The first state has its type.
LEMMA TypeInit == Init => TypeOK
<1> SUFFICES ASSUME Init PROVE TypeOK
  OBVIOUS
<1>1. PICK i \in Images : /\ fat = i.fat /\ dir = i.dir
                          /\ info = [next |-> i.next, free |-> i.free]
                          /\ disk = info
  BY DEF Init
<1>2. SoundImage(i)
  BY ImageAssumption
<1>3. fat \in [Slots -> Entries] /\ dir \in [Files -> Heads \union {Deleted}]
  BY <1>1, <1>2 DEF SoundImage, Entries, Heads
<1>4. {info, disk} \subseteq [next : Nat, free : Nat]
  BY <1>1, <1>2 DEF SoundImage
<1>5. /\ status \in [Files -> {"closed", "open"}] /\ mem \in [Files -> Heads]
      /\ dirty \in [Files -> BOOLEAN] /\ op = NoOp /\ crashes \in 0..MaxCrashes
  BY DEF Init, Heads
<1> QED
  BY <1>3, <1>4, <1>5 DEF TypeOK

\* The cluster being added, or freed next, is one.
OpCluster == op.pc \in {"mark", "link", "hint", "free"} => op.n \in Slots
Typed == TypeOK /\ OpCluster

\* A step that starts, or a record update of the running operation, is typed.
LEMMA StartType ==
  ASSUME NEW kind \in {"grow", "truncate", "delete", "flush", "close"}, NEW f \in Files,
         NEW pc \in Pcs \ {"mark", "link", "hint", "free"}, NEW n \in Heads, Start(kind, f, pc, n)
  PROVE  op' \in Ops /\ op'.pc = pc
BY DEF Start, Ops, Pcs

\* An operation that moves on keeps its type and its file.
LEMMA GotoType ==
  ASSUME op \in Ops, NEW pc \in Pcs, Goto(pc)
  PROVE  op' \in Ops /\ op'.pc = pc /\ op'.n = op.n /\ op'.f = op.f
BY DEF Goto, Ops, Pcs

\* With the other variables typed, a record or the idle operation makes TypeOK.
LEMMA TypedFrom ==
  ASSUME fat' \in [Slots -> Entries],
         dir' \in [Files -> Heads \union {Deleted}],
         status' \in [Files -> {"closed", "open"}],
         mem' \in [Files -> Heads],
         dirty' \in [Files -> BOOLEAN],
         info' \in [next : Nat, free : Nat], disk' \in [next : Nat, free : Nat],
         op' = NoOp \/ (op' \in Ops /\ (op'.pc \in {"mark", "link", "hint", "free"} => op'.n \in Slots)),
         crashes' \in 0..MaxCrashes
  PROVE  Typed'
<1>1. NoOp.pc \notin {"mark", "link", "hint", "free"}
  BY DEF NoOp
<1> QED
  BY <1>1 DEF Typed, TypeOK, OpCluster, Ops, Pcs

\* Every step keeps the types.
LEMMA TypeNext == Typed /\ [Next]_vars => Typed'
<1> SUFFICES ASSUME Typed, [Next]_vars PROVE Typed'
  OBVIOUS
<1> USE DEF Typed
<1>0. Eof \in Entries /\ Free \in Entries /\ None \in Heads /\ Empty \in Heads
  BY DEF Entries, Heads
<1>1. /\ fat \in [Slots -> Entries] /\ dir \in [Files -> Heads \union {Deleted}]
      /\ status \in [Files -> {"closed", "open"}] /\ mem \in [Files -> Heads]
      /\ dirty \in [Files -> BOOLEAN]
      /\ info \in [next : Nat, free : Nat] /\ disk \in [next : Nat, free : Nat]
      /\ op = NoOp \/ op \in Ops
      /\ crashes \in 0..MaxCrashes
  BY DEF TypeOK, Ops, Pcs
<1>2. CASE UNCHANGED vars
  BY <1>2 DEF vars, TypeOK, OpCluster
<1>3. ASSUME NEW f \in Files, Open(f) PROVE Typed'
  BY <1>1, <1>3 DEF Open, TypeOK, OpCluster
<1>4. ASSUME NEW f \in Files, WriteInside(f) PROVE Typed'
  BY <1>1, <1>4 DEF WriteInside, TypeOK, OpCluster
<1>40. ASSUME NEW f \in Files, WriteOutside(f) PROVE Typed'
  <2>1. op' = op \/ (op' \in Ops /\ op'.pc = "lost")
    BY <1>0, <1>40, StartType DEF WriteOutside, Pcs
  <2>2. op = NoOp \/ (op \in Ops /\ (op.pc \in {"mark", "link", "hint", "free"} => op.n \in Slots))
    BY <1>1 DEF OpCluster
  <2>3. CASE op' = op
    BY <1>1, <1>40, <2>2, <2>3, TypedFrom DEF WriteOutside
  <2>4. CASE op' \in Ops /\ op'.pc = "lost"
    BY <1>1, <1>40, <2>4, TypedFrom DEF WriteOutside
  <2> QED
    BY <2>1, <2>3, <2>4
<1>5. ASSUME NEW f \in Files, Grow(f) PROVE Typed'
  <2>1. op' \in Ops /\ op'.pc = "pick"
    BY <1>0, <1>5, StartType DEF Grow, Pcs
  <2> QED
    BY <1>1, <1>5, <2>1, TypedFrom DEF Grow
<1>6. ASSUME NEW f \in Files, Truncate(f) PROVE Typed'
  <2>1. dir[f] \in Heads
    BY <1>1, <1>6 DEF Truncate
  <2>2. op' \in Ops /\ op'.pc = "cut"
    BY <1>6, <2>1, StartType DEF Truncate, Pcs
  <2> QED
    BY <1>1, <1>6, <2>1, <2>2, TypedFrom DEF Truncate
<1>7. ASSUME NEW f \in Files, Delete(f) PROVE Typed'
  <2>1. op' \in Ops /\ op'.pc = "unlist"
    BY <1>1, <1>7, StartType DEF Delete, Pcs
  <2> QED
    BY <1>1, <1>7, <2>1, TypedFrom DEF Delete
<1>8. ASSUME NEW f \in Files, NEW kind \in {"flush", "close"}, Flush(f, kind) PROVE Typed'
  <2>1. op' \in Ops /\ op'.pc \in {"fsinfo", "entry"}
    BY <1>0, <1>8, StartType DEF Flush, FlushStart, Pcs
  <2> QED
    BY <1>1, <1>8, <2>1, TypedFrom DEF Flush
<1>9. ASSUME NEW f \in Files, CloseClean(f) PROVE Typed'
  BY <1>0, <1>1, <1>9 DEF CloseClean, CloseHandle, TypeOK, OpCluster
<1>10. CASE Pick
  <2>1. op \in Ops
    BY <1>10, Running DEF Pick
  <2>2. op' = NoOp \/ (op' \in Ops /\ (op'.n \in Slots \/ op'.pc = "full"))
    <3>1. PICK n \in FreeTry(SearchStart) :
            CASE n = None   -> Abort
              [] n = Beyond -> Goto("full")
              [] OTHER      -> op' = [op EXCEPT !.pc = "mark", !.n = n]
      BY <1>10 DEF Pick
    <3>2. n = None \/ n = Beyond \/ n \in Slots
      BY FreeTryPicks
    <3>3. CASE n = None
      BY <3>1, <3>3, Special DEF Abort
    <3>4. CASE n = Beyond
      BY <2>1, <3>1, <3>4, Special, GotoType DEF Pcs
    <3>5. CASE n # None /\ n # Beyond
      BY <2>1, <3>1, <3>2, <3>5 DEF Ops, Pcs, Heads
    <3> QED
      BY <3>3, <3>4, <3>5
  <2> QED
    BY <1>1, <1>10, <2>2, TypedFrom DEF Pick
<1>11. CASE Mark
  <2>1. op \in Ops /\ op.n \in Slots
    BY <1>11, Running DEF Mark, OpCluster
  <2>2. fat' \in [Slots -> Entries]
    <3>1. Update(op.n, Eof) \in [Slots -> Entries]
      BY <1>0, UpdateType
    <3> QED
      BY <1>1, <1>11, <3>1 DEF Mark, WriteFat
  <2>3. op' = NoOp \/ (op' \in Ops /\ op'.n \in Slots)
    BY <1>11, <2>1, GotoType DEF Mark, WriteFat, Abort, Pcs
  <2> QED
    BY <1>1, <1>11, <2>2, <2>3, TypedFrom DEF Mark
<1>12. CASE Link
  <2>1. op \in Ops /\ op.n \in Slots
    BY <1>12, Running DEF Link, OpCluster
  <2>2. fat' \in [Slots -> Entries]
    BY <1>1, <1>12, <2>1, UpdateType DEF Link, WriteFat, Entries
  <2>3. op' = NoOp \/ (op' \in Ops /\ op'.n \in Slots)
    BY <1>12, <2>1, GotoType DEF Link, WriteFat, Abort, Pcs
  <2> QED
    BY <1>1, <1>12, <2>2, <2>3, TypedFrom DEF Link
<1>13. CASE Hint
  <2>1. op \in Ops /\ op.n \in Slots
    BY <1>13, Running DEF Hint, OpCluster
  <2>2. PICK n \in FreeTry(op.n) :
          IF n = None
          THEN Abort /\ UNCHANGED <<info, mem>>
          ELSE /\ Note([next |-> n, free |-> FreeRemove(info.free)])
               /\ mem' = IF Prev = None THEN [mem EXCEPT ![op.f] = op.n] ELSE mem
               /\ IF mem[op.f] = None THEN Goto("lost") ELSE Abort
    BY <1>13 DEF Hint
  <2>3. n \in Nat
    BY FreeTryPicks, Special
  <2>4. mem' \in [Files -> Heads]
    BY <1>1, <2>1, <2>2 DEF Heads
  <2>5. info' \in [next : Nat, free : Nat]
    <3>1. FreeRemove(info.free) \in Nat
      BY <1>1 DEF FreeRemove
    <3> QED
      BY <1>1, <2>2, <2>3, <3>1, NoteType
  <2>6. op \in Ops
    BY <1>13, Running DEF Hint
  <2>7. op' = NoOp \/ (op' \in Ops /\ op'.pc = "lost")
    BY <2>2, <2>6, GotoType DEF Abort, Pcs
  <2> QED
    BY <1>1, <1>13, <2>4, <2>5, <2>7, TypedFrom DEF Hint
<1>14. CASE Cut
  <2>1. op \in Ops /\ op.pc # "idle"
    BY <1>14, Running DEF Cut
  <2>2. CASE (\E ok \in BOOLEAN : Finish(ok)) /\ UNCHANGED <<fat, info>>
    BY <1>1, <1>14, <2>1, <2>2, FinishEnds, TypedFrom DEF Cut
  <2>3. CASE /\ ~NoRead(op.n) /\ fat[op.n] # Eof
             /\ Note([info EXCEPT !.free = FreeSet(fat[op.n])])
             /\ WriteFat(op.n, Eof,
                    op' = [op EXCEPT !.pc = "free", !.n = fat[op.n]] /\ UNCHANGED <<status, mem, dirty>>,
                    Finish(FALSE))
    <3>1. op.n \in Slots /\ fat[op.n] \in Slots /\ fat[op.n] \in Nat
      BY <1>1, <1>14, <2>3, Special DEF Cut, NoRead, Entries
    <3>2. info' \in [next : Nat, free : Nat]
      <4>1. FreeSet(fat[op.n]) \in Nat
        BY <1>1, <3>1 DEF FreeSet
      <4>2. [info EXCEPT !.free = FreeSet(fat[op.n])] \in [next : Nat, free : Nat]
        BY <1>1, <4>1
      <4> QED
        BY <2>3, <4>2, NoteType
    <3>3. fat' \in [Slots -> Entries]
      <4>1. Update(op.n, Eof) \in [Slots -> Entries]
        BY <1>0, UpdateType
      <4> QED
        BY <1>1, <2>3, <4>1 DEF WriteFat
    <3>4. CASE op' = [op EXCEPT !.pc = "free", !.n = fat[op.n]] /\ UNCHANGED <<status, mem, dirty>>
      <4>1. op' \in Ops /\ op'.n \in Slots
        BY <2>1, <3>1, <3>4 DEF Ops, Pcs, Heads
      <4> QED
        BY <1>1, <1>14, <3>2, <3>3, <3>4, <4>1, TypedFrom DEF Cut
    <3>5. CASE Finish(FALSE)
      BY <1>1, <1>14, <2>1, <3>2, <3>3, <3>5, FinishEnds, TypedFrom DEF Cut
    <3> QED
      BY <2>3, <3>4, <3>5 DEF WriteFat
  <2> QED
    BY <1>14, <2>2, <2>3 DEF Cut
<1>41. CASE CutNone
  <2>1. op \in Ops /\ op.pc # "idle"
    BY <1>41, Running DEF CutNone
  <2>2. CASE \E ok \in BOOLEAN : Finish(ok)
    BY <1>1, <1>41, <2>1, <2>2, FinishEnds, TypedFrom DEF CutNone
  <2>3. CASE Goto("lost") /\ UNCHANGED <<status, mem, dirty>>
    <3>1. op' \in Ops /\ op'.pc = "lost"
      BY <2>1, <2>3, GotoType DEF Pcs
    <3> QED
      BY <1>1, <1>41, <2>3, <3>1, TypedFrom DEF CutNone
  <2> QED
    BY <1>41, <2>2, <2>3 DEF CutNone
<1>15. CASE FreeNext
  <2>1. op \in Ops /\ op.pc # "idle" /\ op.n \in Slots
    BY <1>15, Running DEF FreeNext, OpCluster
  <2>2. Update(op.n, Free) \in [Slots -> Entries]
    BY <1>0, UpdateType
  <2>3. CASE (\E ok \in BOOLEAN : Finish(ok)) /\ fat' \in {fat, Update(op.n, Free)} /\ UNCHANGED info
    BY <1>1, <1>15, <2>1, <2>2, <2>3, FinishEnds, TypedFrom DEF FreeNext
  <2>4. CASE /\ ~NoRead(op.n) /\ fat[op.n] # Eof
             /\ fat' = Update(op.n, Free)
             /\ op' = [op EXCEPT !.n = fat[op.n]]
             /\ Note([info EXCEPT !.free = FreeAdd(@)])
             /\ UNCHANGED <<status, mem, dirty>>
    <3>1. fat[op.n] \in Slots
      BY <1>1, <2>1, <2>4 DEF NoRead, Entries
    <3>2. info' \in [next : Nat, free : Nat]
      <4>1. [info EXCEPT !.free = FreeAdd(@)] \in [next : Nat, free : Nat]
        BY <1>1 DEF FreeAdd
      <4> QED
        BY <2>4, <4>1, NoteType
    <3>3. op' \in Ops /\ op'.n \in Slots
      BY <2>1, <2>4, <3>1 DEF Ops, Heads
    <3> QED
      BY <1>1, <1>15, <2>2, <2>4, <3>2, <3>3, TypedFrom DEF FreeNext
  <2> QED
    BY <1>15, <2>3, <2>4 DEF FreeNext, WriteFat
<1>16. CASE Unlist
  <2>1. op \in Ops /\ op.pc # "idle"
    BY <1>16, Running DEF Unlist
  <2>2. dir' \in [Files -> Heads \union {Deleted}]
    BY <1>1, <1>16 DEF Unlist
  <2>3. CASE \E ok \in BOOLEAN : Finish(ok)
    BY <1>1, <1>16, <2>1, <2>2, <2>3, FinishEnds, TypedFrom DEF Unlist
  <2>4. CASE Goto("cut") /\ UNCHANGED <<status, mem, dirty>>
    <3>1. op' \in Ops /\ op'.pc = "cut"
      BY <2>1, <2>4, GotoType DEF Pcs
    <3> QED
      BY <1>1, <1>16, <2>2, <2>4, <3>1, TypedFrom DEF Unlist
  <2> QED
    BY <1>16, <2>3, <2>4 DEF Unlist
<1>17. CASE FsInfo
  <2>1. op \in Ops /\ op.pc # "idle"
    BY <1>17, Running DEF FsInfo
  <2>2. disk' \in [next : Nat, free : Nat]
    <3>1. Synced \in [next : Nat, free : Nat]
      BY <1>1 DEF Synced
    <3> QED
      BY <1>1, <1>17, <3>1 DEF FsInfo
  <2>3. CASE Finish(FALSE)
    BY <1>1, <1>17, <2>1, <2>2, <2>3, FinishEnds, TypedFrom DEF FsInfo
  <2>4. CASE Goto("entry") /\ UNCHANGED <<status, mem, dirty>>
    <3>1. op' \in Ops /\ op'.pc = "entry"
      BY <2>1, <2>4, GotoType DEF Pcs
    <3> QED
      BY <1>1, <1>17, <2>2, <2>4, <3>1, TypedFrom DEF FsInfo
  <2> QED
    BY <1>17, <2>3, <2>4 DEF FsInfo
<1>18. CASE Entry
  <2>1. op \in Ops /\ op.pc # "idle" /\ op.f \in Files
    BY <1>18, Running DEF Entry
  <2>2. EntryCluster(op.f) \in Heads
    BY <1>0, <1>1, <2>1 DEF EntryCluster
  <2>3. dir' \in [Files -> Heads \union {Deleted}]
    BY <1>1, <1>18, <2>2 DEF Entry
  <2>4. \E ok \in BOOLEAN : Finish(ok)
    BY <1>18 DEF Entry
  <2> QED
    BY <1>1, <1>18, <2>1, <2>3, <2>4, FinishEnds, TypedFrom DEF Entry
<1>19. CASE Crash
  BY <1>0, <1>1, <1>19, TypedFrom DEF Crash
<1> QED
  BY <1>2, <1>3, <1>4, <1>5, <1>6, <1>7, <1>8, <1>9, <1>10, <1>11, <1>12, <1>13, <1>14,
     <1>15, <1>16, <1>17, <1>18, <1>19, <1>40, <1>41 DEF Next, Run

\* Every variable keeps its type, whatever the bounds and the images.
THEOREM TypeCorrect == Spec => []TypeOK
<1>1. Init => Typed
  BY TypeInit DEF Typed, OpCluster, Init, NoOp
<1>2. Typed => TypeOK
  BY DEF Typed
<1> QED
  BY <1>1, <1>2, TypeNext, PTL DEF Spec

-----------------------------------------------------------------------------
(* Safety: the invariant behind NoDangling and NoSharing.                  *)

\* The clusters whose entries the table really changes.
Own == Slots \ LastSlots

Root(f, d) == d = dir[f] \/ d = mem[f]
Linked(d)  == \E c \in Slots : fat[c] = d

\* The last entry of a FAT sector never links anywhere.
LastFixed == \A c \in LastSlots : fat[c] \in {Free, Eof}

\* The first cluster of a file is in use, nothing links to it, no other file has it.
RootsOK ==
  \A f \in Files, d \in Own : Root(f, d) =>
    fat[d] # Free /\ ~Linked(d) /\ \A g \in Files : Root(g, d) => f = g

\* A cluster that is linked to is in use, and has one link.
LinksOK ==
  \A b \in Slots, d \in Own : fat[b] = d =>
    fat[d] # Free /\ \A c \in Slots : fat[c] = d => b = c

\* The cluster the running operation works on: picked and still unused; marked,
\* or cut off, and known to no one else; or the first one of the file.
Pending ==
  /\ op.pc = "mark" => fat[op.n] = Free
  /\ op.pc \in {"link", "hint", "free"} /\ op.n \in Own =>
       /\ fat[op.n] # Free
       /\ \A f \in Files : ~Root(f, op.n)
       /\ op.pc # "hint" \/ Prev = None => ~Linked(op.n)
  /\ op.pc \in {"unlist", "cut"} => op.n = mem[op.f]
  /\ LeavesWhenFull

Core == LastFixed /\ RootsOK /\ LinksOK
IInv == Typed /\ Core /\ Pending

\* Which clusters are roots may shrink, per file.
Shrinks == \A f \in Files, d \in Own : Root(f, d)' => Root(f, d)

\* Nobody knows cluster n, which is in use.
Unknown(n) == n \in Own => fat[n] # Free /\ ~Linked(n) /\ \A f \in Files : ~Root(f, n)

\* No new root and the same table: nothing is lost.
LEMMA SameTable ==
  ASSUME Core, fat' = fat, Shrinks
  PROVE  Core'
BY DEF Core, LastFixed, RootsOK, LinksOK, Shrinks, Root, Linked

\* An entry becomes an end mark, or is freed when nobody knows the cluster.
LEMMA CutTable ==
  ASSUME Typed, Core, NEW n \in Slots, NEW v \in {Eof, Free}, fat' = Update(n, v), Shrinks,
         v = Free => Unknown(n)
  PROVE  Core'
<1>1. /\ fat \in [Slots -> Entries] /\ fat' \in [Slots -> Entries]
      /\ \A c \in Slots : fat'[c] = fat[c] \/ (c = n /\ n \in Own /\ fat'[c] = v)
  BY Special DEF Typed, TypeOK, Update, Own, Entries
<1>2. \A c \in Slots, d \in Own : fat'[c] = d => fat[c] = d
  BY <1>1, Special DEF Own
<1>3. \A d \in Own : fat'[d] = Free => fat[d] = Free \/ (d = n /\ v = Free)
  BY <1>1, Special DEF Own
<1>4. LastFixed'
  BY <1>1, Special DEF Core, LastFixed, Own
<1>5. RootsOK'
  <2> SUFFICES ASSUME NEW f \in Files, NEW d \in Own, Root(f, d)'
               PROVE  fat'[d] # Free /\ ~Linked(d)' /\ \A g \in Files : Root(g, d)' => f = g
    BY DEF RootsOK
  <2>1. Root(f, d)
    BY DEF Shrinks
  <2>2. fat[d] # Free /\ ~Linked(d) /\ \A g \in Files : Root(g, d) => f = g
    BY <2>1 DEF Core, RootsOK
  <2>3. fat'[d] # Free
    BY <1>3, <2>1, <2>2 DEF Unknown
  <2>4. ~Linked(d)'
    BY <1>2, <2>2 DEF Linked
  <2> QED
    BY <2>2, <2>3, <2>4 DEF Shrinks
<1>6. LinksOK'
  <2> SUFFICES ASSUME NEW b \in Slots, NEW d \in Own, fat'[b] = d
               PROVE  fat'[d] # Free /\ \A c \in Slots : fat'[c] = d => b = c
    BY DEF LinksOK
  <2>1. fat[b] = d
    BY <1>2
  <2>2. fat[d] # Free /\ \A c \in Slots : fat[c] = d => b = c
    BY <2>1 DEF Core, LinksOK
  <2>3. fat'[d] # Free
    BY <1>3, <2>1, <2>2 DEF Unknown, Linked
  <2> QED
    BY <1>2, <2>2, <2>3
<1> QED
  BY <1>4, <1>5, <1>6 DEF Core

\* A cluster nobody knows gets its one link.
LEMMA LinkTable ==
  ASSUME Typed, Core, NEW p, NEW n \in Slots, fat' = Update(p, n), Shrinks, Unknown(n)
  PROVE  Core'
<1>1. /\ fat \in [Slots -> Entries]
      /\ \A c \in Slots : fat'[c] = fat[c] \/ (c = p /\ p \in Own /\ fat'[c] = n)
  BY Special DEF Typed, TypeOK, Update, Own, Entries
<1>2. \A d \in Own : fat'[d] = Free => fat[d] = Free
  BY <1>1, Special DEF Own
<1>3. \A c \in Slots, d \in Own : fat'[c] = d => fat[c] = d \/ (d = n /\ c = p)
  BY <1>1
<1>4. LastFixed'
  BY <1>1, Special DEF Core, LastFixed, Own
<1>5. RootsOK'
  <2> SUFFICES ASSUME NEW f \in Files, NEW d \in Own, Root(f, d)'
               PROVE  fat'[d] # Free /\ ~Linked(d)' /\ \A g \in Files : Root(g, d)' => f = g
    BY DEF RootsOK
  <2>1. Root(f, d) /\ d # n
    BY DEF Shrinks, Unknown
  <2>2. fat[d] # Free /\ ~Linked(d) /\ \A g \in Files : Root(g, d) => f = g
    BY <2>1 DEF Core, RootsOK
  <2>3. ~Linked(d)'
    BY <1>3, <2>1, <2>2 DEF Linked
  <2> QED
    BY <1>2, <2>2, <2>3 DEF Shrinks
<1>6. LinksOK'
  <2> SUFFICES ASSUME NEW b \in Slots, NEW d \in Own, fat'[b] = d
               PROVE  fat'[d] # Free /\ \A c \in Slots : fat'[c] = d => b = c
    BY DEF LinksOK
  <2>1. CASE d = n
    BY <1>2, <1>3, <2>1 DEF Unknown, Linked
  <2>2. CASE d # n
    BY <1>2, <1>3, <2>2 DEF Core, LinksOK
  <2> QED
    BY <2>1, <2>2
<1> QED
  BY <1>4, <1>5, <1>6 DEF Core

\* A cluster nobody knows becomes the first one of a file.
LEMMA NewRoot ==
  ASSUME Typed, Core, NEW f \in Files, NEW n \in Slots, Unknown(n),
         fat' = fat, dir' = dir, mem' = [mem EXCEPT ![f] = n]
  PROVE  Core'
<1>1. \A g \in Files, d \in Own : Root(g, d)' => Root(g, d) \/ (g = f /\ d = n)
  BY DEF Root, Typed, TypeOK
<1>2. LastFixed' /\ LinksOK'
  BY DEF Core, LastFixed, LinksOK
<1>3. RootsOK'
  <2> SUFFICES ASSUME NEW g \in Files, NEW d \in Own, Root(g, d)'
               PROVE  fat[d] # Free /\ ~Linked(d) /\ \A h \in Files : Root(h, d)' => g = h
    BY DEF RootsOK, Linked
  <2>1. CASE d = n
    BY <1>1, <2>1 DEF Unknown
  <2>2. CASE d # n
    BY <1>1, <2>2 DEF Core, RootsOK
  <2> QED
    BY <2>1, <2>2
<1> QED
  BY <1>2, <1>3 DEF Core

\* An operation that starts, ends or goes on with a flush works on no cluster.
LEMMA NothingPending ==
  ASSUME op' = NoOp \/ op'.pc \in {"pick", "fsinfo", "entry", "lost"}
  PROVE  Pending'
BY DEF Pending, NoOp, LeavesWhenFull

\* A step that ends its operation, without a new first cluster in any entry.
LEMMA FinishKeeps ==
  ASSUME Typed, Core, op.pc # "idle", NEW ok, Finish(ok),
         \A f \in Files, d \in Own : d = dir'[f] => Root(f, d)
  PROVE  Shrinks /\ Pending'
<1>1. /\ op' = NoOp \/ op'.pc \in {"fsinfo", "entry"}
      /\ mem' = mem \/ mem' = [mem EXCEPT ![op.f] = None]
  BY FinishEnds DEF Typed
<1>2. \A f \in Files, d \in Own : d = mem'[f] => d = mem[f]
  BY <1>1, Special DEF Own, Typed, TypeOK
<1> QED
  BY <1>1, <1>2, NothingPending DEF Shrinks, Root

\* A cluster that is unused is unknown.
LEMMA UnusedUnknown ==
  ASSUME Core, NEW n \in Slots, fat[n] = Free
  PROVE  (\A f \in Files : n \in Own => ~Root(f, n)) /\ (n \in Own => ~Linked(n))
BY Special DEF Core, RootsOK, LinksOK, Linked

\* The successor of a cluster that is cut off is known to nobody else.
LEMMA SuccessorUnknown ==
  ASSUME Typed, Core, NEW n \in Slots, NEW v \in {Eof, Free}, NEW m \in Slots, fat[n] = m,
         fat' = Update(n, v), Shrinks, m # n
  PROVE  Unknown(m)'
<1>0. fat \in [Slots -> Entries]
  BY DEF Typed, TypeOK
<1> SUFFICES ASSUME m \in Own
             PROVE  fat'[m] # Free /\ ~Linked(m)' /\ \A f \in Files : ~Root(f, m)'
  BY DEF Unknown
<1>1. n \in Own
  BY Special DEF Core, LastFixed, Own
<1>2. fat[m] # Free /\ \A c \in Slots : fat[c] = m => c = n
  BY DEF Core, LinksOK
<1>3. fat' = [fat EXCEPT ![n] = v]
  BY <1>1 DEF Update, Own
<1>4. fat'[m] # Free
  BY <1>0, <1>2, <1>3
<1>5. ~Linked(m)'
  BY <1>0, <1>2, <1>3, Special DEF Linked, Own
<1>6. \A f \in Files : ~Root(f, m)'
  BY DEF Shrinks, Core, RootsOK, Linked
<1> QED
  BY <1>4, <1>5, <1>6

\* Every step keeps the invariant.
LEMMA SafeNext == IInv /\ [Next]_vars => Core' /\ Pending'
<1> SUFFICES ASSUME IInv, [Next]_vars PROVE Core' /\ Pending'
  OBVIOUS
<1> USE DEF IInv
<1>1. /\ fat \in [Slots -> Entries] /\ mem \in [Files -> Heads]
      /\ dir \in [Files -> Heads \union {Deleted}]
  BY DEF Typed, TypeOK
<1>2. CASE UNCHANGED vars
  <2>1. Pending'
    BY <1>2 DEF vars, Pending, Root, Linked, Prev, LeavesWhenFull, SearchStart
  <2>2. Shrinks
    BY <1>2 DEF vars, Shrinks, Root
  <2> QED
    BY <1>2, <2>1, <2>2, SameTable DEF vars
<1>3. ASSUME NEW f \in Files, UNCHANGED <<fat, dir>>, mem' = [mem EXCEPT ![f] = dir[f]]
      PROVE  Shrinks
  BY <1>1, <1>3 DEF Shrinks, Root
<1>4. ASSUME NEW f \in Files, Open(f) PROVE Core' /\ Pending'
  <2>1. Pending'
    BY <1>4 DEF Open, Pending, Idle, LeavesWhenFull
  <2> QED
    BY <1>3, <1>4, <2>1, SameTable DEF Open
<1>5. ASSUME NEW f \in Files, WriteInside(f) \/ CloseClean(f) PROVE Core' /\ Pending'
  <2>1. Pending'
    BY <1>5 DEF WriteInside, CloseClean, Pending, Idle, LeavesWhenFull
  <2>2. Shrinks
    BY <1>1, <1>5, Special DEF WriteInside, CloseClean, CloseHandle, Shrinks, Root, Own
  <2> QED
    BY <1>5, <2>1, <2>2, SameTable DEF WriteInside, CloseClean
<1>6. ASSUME NEW f \in Files, Grow(f) \/ \E kind \in {"flush", "close"} : Flush(f, kind)
      PROVE  Core' /\ Pending'
  <2>1. Pending'
    BY <1>6, NothingPending DEF Grow, Flush, FlushStart, Start
  <2>2. Shrinks
    BY <1>6 DEF Grow, Flush, Shrinks, Root
  <2> QED
    BY <1>6, <2>1, <2>2, SameTable DEF Grow, Flush
<1>7. ASSUME NEW f \in Files, Truncate(f) PROVE Core' /\ Pending'
  <2>1. Pending'
    BY <1>1, <1>7 DEF Truncate, Start, Pending, LeavesWhenFull
  <2> QED
    BY <1>3, <1>7, <2>1, SameTable DEF Truncate
<1>8. ASSUME NEW f \in Files, Delete(f) PROVE Core' /\ Pending'
  <2>1. Pending'
    BY <1>8 DEF Delete, Start, Pending, LeavesWhenFull
  <2>2. Shrinks
    BY <1>8 DEF Delete, Shrinks, Root
  <2> QED
    BY <1>8, <2>1, <2>2, SameTable DEF Delete
<1>9. CASE Pick
  <2>1. PICK n \in FreeTry(SearchStart) :
          CASE n = None   -> Abort
            [] n = Beyond -> Goto("full")
            [] OTHER      -> op' = [op EXCEPT !.pc = "mark", !.n = n]
    BY <1>9 DEF Pick
  <2>2. n = None \/ n = Beyond \/ fat[n] = Free
    BY FreeTryPicks
  <2>3. op \in Ops /\ op.f \in Files
    BY <1>9, Running DEF Pick, Typed
  <2>4. Pending'
    <3>1. CASE n = None
      BY <2>1, <3>1, Special, NothingPending DEF Abort
    <3>2. CASE n = Beyond
      <4>1. op'.pc = "full" /\ op'.f = op.f
        BY <2>1, <2>3, <3>2, Special, GotoType DEF Pcs
      <4>2. SearchStart' = SearchStart
        BY <1>9, <4>1 DEF Pick, SearchStart, Prev
      <4>3. SearchStart \in Nat
        BY <1>1, <2>3, Special DEF SearchStart, Prev, Heads
      <4>4. \A c \in Slots : SearchStart <= c => fat[c] # Free
        BY <2>1, <3>2, <4>3, FreeTryFull
      <4>5. LeavesWhenFull'
        BY <1>9, <4>2, <4>4 DEF Pick, LeavesWhenFull
      <4> QED
        BY <4>1, <4>5 DEF Pending
    <3>3. CASE n # None /\ n # Beyond
      <4>1. op'.pc = "mark" /\ op'.n = n /\ fat' = fat
        BY <1>9, <2>1, <2>3, <3>3 DEF Ops, Pick
      <4> QED
        BY <2>2, <3>3, <4>1 DEF Pending, LeavesWhenFull
    <3> QED
      BY <3>1, <3>2, <3>3
  <2>5. Shrinks
    BY <1>9 DEF Pick, Shrinks, Root
  <2> QED
    BY <1>9, <2>4, <2>5, SameTable DEF Pick
<1>10. CASE Mark
  <2>1. op \in Ops /\ op.n \in Slots /\ fat[op.n] = Free
    BY <1>10, Running DEF Mark, Typed, OpCluster, Pending
  <2>2. Shrinks
    BY <1>10 DEF Mark, Shrinks, Root
  <2>3. Core'
    <3>1. fat' = fat \/ fat' = Update(op.n, Eof)
      BY <1>10 DEF Mark, WriteFat
    <3> QED
      BY <2>1, <2>2, <3>1, SameTable, CutTable, Special
  <2>4. Pending'
    <3>1. CASE op' = NoOp
      BY <3>1, NothingPending
    <3>2. CASE fat' = Update(op.n, Eof) /\ Goto(IF Prev = None THEN "hint" ELSE "link")
      <4>1. PICK n \in Slots : n = op.n
        BY <2>1
      <4>2. op'.n = n /\ op'.f = op.f /\ op'.pc = (IF Prev = None THEN "hint" ELSE "link")
        BY <2>1, <3>2, <4>1, GotoType DEF Pcs
      <4>3. (\A f \in Files : n \in Own => ~Root(f, n)) /\ (n \in Own => ~Linked(n))
        BY <2>1, <4>1, UnusedUnknown
      <4>4. ASSUME n \in Own
            PROVE  fat'[n] # Free /\ (\A f \in Files : ~Root(f, n)') /\ ~Linked(n)'
        <5>1. fat' = [fat EXCEPT ![n] = Eof]
          BY <3>2, <4>1, <4>4 DEF Update, Own
        <5>2. fat'[n] # Free /\ ~Linked(n)'
          BY <1>1, <4>3, <4>4, <5>1, Special DEF Linked, Own
        <5> QED
          BY <2>2, <4>3, <4>4, <5>2 DEF Shrinks
      <4> QED
        BY <4>2, <4>4 DEF Pending, LeavesWhenFull
    <3> QED
      BY <1>10, <3>1, <3>2 DEF Mark, WriteFat, Abort
  <2> QED
    BY <2>3, <2>4
<1>11. CASE Link
  <2>1. op \in Ops /\ op.n \in Slots /\ Unknown(op.n)
    BY <1>11, Running DEF Link, Typed, OpCluster, Pending, Unknown
  <2>2. Shrinks
    BY <1>11 DEF Link, Shrinks, Root
  <2>3. Core'
    BY <1>11, <2>1, <2>2, SameTable, LinkTable DEF Link, WriteFat
  <2>4. Pending'
    <3>1. CASE op' = NoOp
      BY <3>1, NothingPending
    <3>2. CASE fat' = Update(Prev, op.n) /\ Goto("hint")
      <4>1. PICK n \in Slots : n = op.n
        BY <2>1
      <4>2. op'.n = n /\ op'.f = op.f /\ op'.pc = "hint" /\ Prev' = Prev
        BY <1>11, <2>1, <3>2, <4>1, GotoType DEF Pcs, Prev, Link
      <4>3. ASSUME n \in Own
            PROVE  fat'[n] # Free /\ (\A f \in Files : ~Root(f, n)') /\ (Prev = None => ~Linked(n)')
        <5>1. fat'[n] # Free
          BY <1>1, <2>1, <3>2, <4>1, <4>3, Special DEF Unknown, Update
        <5>2. ASSUME Prev = None PROVE fat' = fat
          BY <1>1, <3>2, <5>2, Special DEF Update
        <5>3. Prev = None => ~Linked(n)'
          BY <2>1, <4>1, <4>3, <5>2 DEF Linked, Unknown
        <5> QED
          BY <2>1, <2>2, <4>1, <4>3, <5>1, <5>3 DEF Shrinks, Unknown
      <4> QED
        BY <4>2, <4>3 DEF Pending, LeavesWhenFull
    <3> QED
      BY <1>11, <3>1, <3>2 DEF Link, WriteFat, Abort
  <2> QED
    BY <2>3, <2>4
<1>12. CASE Hint
  <2>1. op \in Ops /\ op.n \in Slots /\ op.f \in Files
    BY <1>12, Running DEF Hint, Typed, OpCluster
  <2>2. Pending'
    <3>1. Goto("lost") => op'.pc = "lost"
      BY <2>1, GotoType DEF Pcs
    <3> QED
      BY <1>12, <3>1, NothingPending DEF Hint, Abort
  <2>3. CASE mem' = mem
    BY <1>12, <2>2, <2>3, SameTable DEF Hint, Shrinks, Root
  <2>4. CASE Prev = None /\ mem' = [mem EXCEPT ![op.f] = op.n]
    <3>1. Unknown(op.n)
      BY <1>12, <2>4 DEF Hint, Pending, Unknown
    <3> QED
      BY <1>12, <2>1, <2>2, <2>4, <3>1, NewRoot DEF Hint
  <2> QED
    BY <1>12, <2>3, <2>4 DEF Hint
<1>13. CASE Cut
  <2>1. op \in Ops /\ op.n = mem[op.f] /\ op.f \in Files /\ op.pc # "idle"
    BY <1>13, Running DEF Cut, Typed, Pending
  <2>2. CASE (\E ok \in BOOLEAN : Finish(ok)) /\ fat' = fat
    BY <1>13, <2>1, <2>2, FinishKeeps, SameTable DEF Cut, Root
  <2>3. CASE /\ ~NoRead(op.n) /\ fat[op.n] # Eof
             /\ WriteFat(op.n, Eof,
                    op' = [op EXCEPT !.pc = "free", !.n = fat[op.n]] /\ UNCHANGED <<status, mem, dirty>>,
                    Finish(FALSE))
    <3>1. op.n \in Slots /\ fat[op.n] \in Slots
      BY <1>1, <1>13, <2>3, Special DEF Cut, NoRead, Entries
    <3>2. CASE fat' = Update(op.n, Eof) /\ op' = [op EXCEPT !.pc = "free", !.n = fat[op.n]]
               /\ UNCHANGED <<status, mem, dirty>>
      <4>1. Shrinks
        BY <1>13, <3>2 DEF Cut, Shrinks, Root
      <4>2. Core'
        BY <3>1, <3>2, <4>1, CutTable, Special
      <4>3. PICK m \in Slots : m = fat[op.n]
        BY <3>1
      <4>4. op.n \in Own /\ m # op.n
        BY <2>1, <2>3, <3>1, <4>3, Special DEF Core, LastFixed, Own, RootsOK, Root, Linked
      <4>5. Unknown(m)'
        BY <3>1, <3>2, <4>1, <4>3, <4>4, SuccessorUnknown
      <4>6. op'.pc = "free" /\ op'.n = m
        BY <2>1, <3>2, <4>3 DEF Ops
      <4>7. Pending'
        BY <4>5, <4>6 DEF Pending, Unknown, LeavesWhenFull
      <4> QED
        BY <4>2, <4>7
    <3>3. CASE Finish(FALSE) /\ fat' \in {fat, Update(op.n, Eof)}
      <4>1. Shrinks /\ Pending'
        BY <1>13, <2>1, <3>3, FinishKeeps DEF Cut, Root
      <4> QED
        BY <3>1, <3>3, <4>1, SameTable, CutTable, Special
    <3> QED
      BY <2>3, <3>2, <3>3 DEF WriteFat
  <2> QED
    BY <1>13, <2>2, <2>3 DEF Cut
<1>14. CASE FreeNext
  <2>1. op \in Ops /\ op.n \in Slots /\ op.pc # "idle" /\ Unknown(op.n)
    BY <1>14, Running DEF FreeNext, Typed, OpCluster, Pending, Unknown
  <2>2. CASE (\E ok \in BOOLEAN : Finish(ok)) /\ fat' \in {fat, Update(op.n, Free)}
    <3>1. Shrinks /\ Pending'
      BY <1>14, <2>1, <2>2, FinishKeeps DEF FreeNext, Root
    <3> QED
      BY <2>1, <2>2, <3>1, SameTable, CutTable
  <2>3. CASE /\ ~NoRead(op.n) /\ fat[op.n] # Eof
             /\ fat' = Update(op.n, Free)
             /\ op' = [op EXCEPT !.n = fat[op.n]]
             /\ UNCHANGED <<status, mem, dirty>>
    <3>1. Shrinks
      BY <1>14, <2>3 DEF FreeNext, Shrinks, Root
    <3>2. Core'
      BY <2>1, <2>3, <3>1, CutTable
    <3>3. PICK m \in Slots : m = fat[op.n]
      BY <1>1, <2>1, <2>3 DEF NoRead, Entries
    <3>4. op.n \in Own /\ m # op.n
      BY <2>1, <2>3, <3>3, Special DEF Core, LastFixed, Own, Unknown, Linked, NoRead
    <3>5. Unknown(m)'
      BY <2>1, <2>3, <3>1, <3>3, <3>4, SuccessorUnknown
    <3>6. op'.pc = "free" /\ op'.n = m
      BY <1>14, <2>1, <2>3, <3>3 DEF FreeNext, Ops
    <3>7. Pending'
      BY <3>5, <3>6 DEF Pending, Unknown, LeavesWhenFull
    <3> QED
      BY <3>2, <3>7
  <2> QED
    BY <1>14, <2>2, <2>3 DEF FreeNext, WriteFat
<1>15. CASE Unlist
  <2>1. op \in Ops /\ op.n = mem[op.f] /\ op.f \in Files /\ op.pc # "idle"
    BY <1>15, Running DEF Unlist, Typed, Pending
  <2>2. \A f \in Files, d \in Own : d = dir'[f] => Root(f, d)
    BY <1>1, <1>15, Special DEF Unlist, Own, Root
  <2>3. CASE \E ok \in BOOLEAN : Finish(ok)
    BY <1>15, <2>1, <2>2, <2>3, FinishKeeps, SameTable DEF Unlist
  <2>4. CASE Goto("cut") /\ UNCHANGED <<status, mem, dirty>>
    <3>1. Shrinks
      BY <2>2, <2>4 DEF Shrinks, Root
    <3>2. op'.pc = "cut" /\ op'.n = op.n /\ op'.f = op.f
      BY <2>1, <2>4, GotoType DEF Pcs
    <3>3. Pending'
      BY <2>1, <2>4, <3>2 DEF Pending, LeavesWhenFull
    <3> QED
      BY <1>15, <3>1, <3>3, SameTable DEF Unlist
  <2> QED
    BY <1>15, <2>3, <2>4 DEF Unlist
<1>16. CASE FsInfo
  <2>1. op \in Ops /\ op.pc # "idle"
    BY <1>16, Running DEF FsInfo, Typed
  <2>2. CASE Finish(FALSE)
    BY <1>16, <2>1, <2>2, FinishKeeps, SameTable DEF FsInfo, Root
  <2>3. CASE Goto("entry") /\ UNCHANGED <<status, mem, dirty>>
    <3>1. Pending'
      BY <2>1, <2>3, GotoType, NothingPending DEF Pcs
    <3> QED
      BY <1>16, <2>3, <3>1, SameTable DEF FsInfo, Shrinks, Root
  <2> QED
    BY <1>16, <2>2, <2>3 DEF FsInfo
<1>17. CASE Entry
  <2>1. op \in Ops /\ op.f \in Files /\ op.pc # "idle"
    BY <1>17, Running DEF Entry, Typed
  <2>2. \A f \in Files, d \in Own : d = dir'[f] => Root(f, d)
    BY <1>1, <1>17, Special DEF Entry, EntryCluster, Own, Root
  <2>3. \E ok \in BOOLEAN : Finish(ok)
    BY <1>17 DEF Entry
  <2> QED
    BY <1>17, <2>1, <2>2, <2>3, FinishKeeps, SameTable DEF Entry
<1>19. CASE CutNone
  <2>1. op \in Ops /\ op.f \in Files /\ op.pc # "idle"
    BY <1>19, Running DEF CutNone, Typed
  <2>2. CASE \E ok \in BOOLEAN : Finish(ok)
    BY <1>19, <2>1, <2>2, FinishKeeps, SameTable DEF CutNone, Root
  <2>3. CASE Goto("lost") /\ UNCHANGED <<status, mem, dirty>>
    <3>1. Pending'
      BY <2>1, <2>3, GotoType, NothingPending DEF Pcs
    <3> QED
      BY <1>19, <2>3, <3>1, SameTable DEF CutNone, Shrinks, Root
  <2> QED
    BY <1>19, <2>2, <2>3 DEF CutNone
<1>20. ASSUME NEW f \in Files, WriteOutside(f) PROVE Core' /\ Pending'
  <2>1. Pending'
    <3>1. CASE op' = op
      BY <1>20, <3>1 DEF WriteOutside, Pending, Idle, LeavesWhenFull
    <3>2. CASE Start("grow", f, "lost", Empty)
      BY <3>2, NothingPending DEF Start
    <3> QED
      BY <1>20, <3>1, <3>2 DEF WriteOutside
  <2>2. Shrinks
    BY <1>20 DEF WriteOutside, Shrinks, Root
  <2> QED
    BY <1>20, <2>1, <2>2, SameTable DEF WriteOutside
<1>18. CASE Crash
  <2>1. Shrinks
    BY <1>18, Special DEF Crash, Shrinks, Root, Own
  <2> QED
    BY <1>18, <2>1, NothingPending, SameTable DEF Crash
<1> QED
  BY <1>2, <1>4, <1>5, <1>6, <1>7, <1>8, <1>9, <1>10, <1>11, <1>12, <1>13, <1>14,
     <1>15, <1>16, <1>17, <1>18, <1>19, <1>20 DEF Next, Run

\* A volume a mount may find satisfies the invariant.
LEMMA SafeInit == Init => IInv
<1> SUFFICES ASSUME Init PROVE IInv
  OBVIOUS
<1>1. PICK i \in Images : fat = i.fat /\ dir = i.dir
  BY DEF Init
<1>2. SoundImage(i) /\ op = NoOp /\ mem = [f \in Files |-> None]
  BY ImageAssumption DEF Init
<1>3. Typed /\ Pending
  BY <1>2, TypeInit DEF Typed, OpCluster, Pending, NoOp, LeavesWhenFull
<1>4. LastFixed /\ LinksOK
  BY <1>1, <1>2, Special DEF SoundImage, LastFixed, LinksOK, Own
<1>5. RootsOK
  BY <1>1, <1>2, Special DEF SoundImage, RootsOK, Root, Linked, Own
<1> QED
  BY <1>3, <1>4, <1>5 DEF IInv, Core

\* The invariant is one of the specification.
LEMMA Invariant == Spec => []IInv
<1>1. IInv /\ [Next]_vars => IInv'
  BY SafeNext, TypeNext DEF IInv
<1> QED
  BY <1>1, SafeInit, PTL DEF Spec

\* Until the code leaves the table, no chain ever runs into a cluster that is
\* given away as unused, whatever device writes failed and whenever the power went.
THEOREM NeverDangling == Spec => []NoDangling
<1>1. IInv => NoDangling
  <2> SUFFICES ASSUME IInv, NEW d \in Slots \ LastSlots, d \in Roots \/ \E c \in Slots : Links(c, d)
               PROVE  fat[d] # Free
    BY DEF NoDangling
  <2>1. ASSUME NEW f \in Files, Root(f, d) PROVE fat[d] # Free
    BY <2>1 DEF IInv, Core, RootsOK, Own
  <2>2. CASE \E c \in Slots : Links(c, d)
    BY <2>2 DEF IInv, Core, LinksOK, Links, Own
  <2>3. CASE op.pc \in {"link", "hint", "free"} /\ d = op.n
    BY <2>3 DEF IInv, Pending, Own
  <2>4. CASE op.pc = "cut" /\ d = op.n
    <3>1. op.f \in Files /\ Root(op.f, d)
      BY <2>4, Running DEF IInv, Typed, Pending, Root
    <3> QED
      BY <2>1, <3>1
  <2> QED
    BY <2>1, <2>2, <2>3, <2>4 DEF Roots, Root
<1> QED
  BY <1>1, Invariant, PTL

\* The search for an unused cluster goes on past the table only when every cluster
\* from where it starts is in use.
THEOREM LeavesOnlyWhenFull == Spec => []LeavesWhenFull
<1>1. IInv => LeavesWhenFull
  BY DEF IInv, Pending
<1> QED
  BY <1>1, Invariant, PTL

\* Until the code leaves the table, a cluster never gets a second link or a second
\* file that starts with it.
THEOREM NeverShared == Spec => []NoSharing
<1>1. IInv => NoSharing
  BY DEF IInv, Core, RootsOK, LinksOK, NoSharing, Links, Root, Own
<1> QED
  BY <1>1, Invariant, PTL

-----------------------------------------------------------------------------
(* Chains, cluster by cluster.  A chain is a recursive function of its      *)
(* place, so what holds along it is shown by induction over the place.      *)

\* What holds of 0 and of the successor of every number it holds of holds of all.
LEMMA NatInd ==
  ASSUME NEW S, 0 \in S, \A n \in Nat : n \in S => n + 1 \in S
  PROVE  Nat \subseteq S
<1> SUFFICES ASSUME Nat \ S # {} PROVE FALSE
  OBVIOUS
<1>1. PICK x \in Nat \ S : \A y \in Nat \ S : x <= y
  BY Least
<1>2. x # 0 /\ x - 1 \in Nat
  BY <1>1
<1>3. x - 1 \in S
  BY <1>1, <1>2
<1> QED
  BY <1>2, <1>3

\* The cluster after c in table t.
After(t, c) == IF c \in Slots THEN t[c] ELSE c

\* The first n + 1 places of the chain that starts with h in table t.
IsWalk(w, t, h, n) == w = [i \in 0..n |-> IF i = 0 THEN h ELSE After(t, w[i - 1])]
Walk(t, h) == CHOOSE w : IsWalk(w, t, h, End)

\* A chain has a place for every number.
LEMMA WalkExists == ASSUME NEW t, NEW h PROVE IsWalk(Walk(t, h), t, h, End)
<1> DEFINE S == {n \in Nat : \E w : IsWalk(w, t, h, n)}
<1>1. 0 \in S
  <2> DEFINE w == [i \in 0..0 |-> h]
  <2>1. IsWalk(w, t, h, 0)
    BY DEF IsWalk
  <2> QED
    BY <2>1, Zenon
<1>2. ASSUME NEW n \in Nat, n \in S PROVE n + 1 \in S
  <2>1. PICK g : IsWalk(g, t, h, n)
    BY <1>2
  <2>2. g = [i \in 0..n |-> IF i = 0 THEN h ELSE After(t, g[i - 1])]
    BY <2>1 DEF IsWalk
  <2> DEFINE w == [i \in 0..(n + 1) |-> IF i <= n THEN g[i] ELSE After(t, g[n])]
  <2>3. ASSUME NEW i \in 0..(n + 1)
        PROVE  w[i] = IF i = 0 THEN h ELSE After(t, w[i - 1])
    <3>1. CASE i = 0
      BY <2>2, <3>1
    <3>2. CASE i > 0 /\ i <= n
      <4>1. g[i] = After(t, g[i - 1]) /\ i - 1 \in 0..n
        BY <2>2, <3>2
      <4> QED
        BY <3>2, <4>1
    <3>3. CASE i = n + 1
      <4>1. i - 1 = n /\ w[n] = g[n] /\ w[i] = After(t, g[n])
        BY <3>3
      <4> QED
        BY <3>3, <4>1
    <3> QED
      BY <3>1, <3>2, <3>3
  <2>4. w = [i \in 0..(n + 1) |-> w[i]]
    OBVIOUS
  <2> HIDE DEF w
  <2>5. IsWalk(w, t, h, n + 1)
    BY <2>3, <2>4 DEF IsWalk
  <2>6. \E x : IsWalk(x, t, h, n + 1)
    BY <2>5, Zenon
  <2> QED
    BY <2>6
<1>3. Nat \subseteq S
  <2> HIDE DEF S
  <2> QED
    BY <1>1, <1>2, NatInd
<1>4. \E w : IsWalk(w, t, h, End)
  BY <1>3, EndNat
<1> QED
  BY <1>4, Zenon DEF Walk

\* The places of a chain, one after the other.
LEMMA WalkSteps ==
  ASSUME NEW t, NEW h
  PROVE  /\ Walk(t, h)[0] = h
         /\ \A i \in 1..End : i - 1 \in 0..End /\ Walk(t, h)[i] = After(t, Walk(t, h)[i - 1])
<1> DEFINE w == Walk(t, h)
<1>1. w = [i \in 0..End |-> IF i = 0 THEN h ELSE After(t, w[i - 1])]
  BY WalkExists DEF IsWalk
<1> HIDE DEF w
<1>2. w[0] = h
  BY <1>1, EndNat
<1>3. ASSUME NEW i \in 1..End PROVE i - 1 \in 0..End /\ w[i] = After(t, w[i - 1])
  BY <1>1, EndNat
<1> QED
  BY <1>2, <1>3 DEF w

\* A chain is made of the clusters at its places.
LEMMA ChainIsWalk ==
  ASSUME NEW h
  PROVE  /\ Chain(h) = {Walk(fat, h)[i] : i \in 0..End} \intersect Slots
         /\ Chain(h)' = {Walk(fat', h)[i] : i \in 0..End} \intersect Slots
BY Zenon DEF Chain, Walk, IsWalk, After

\* Nothing links to x in table t, and table u differs from t at x alone.
Aside(t, u, x) == \A c \in Slots : t[c] # x /\ (c # x => u[c] = t[c])

\* A chain that does not start with x, in a table where nothing links to x, does
\* not notice what happens to the entry of x.
LEMMA WalkKept ==
  ASSUME NEW t, NEW u, NEW x, NEW h, h # x, Aside(t, u, x)
  PROVE  \A i \in 0..End : Walk(u, h)[i] = Walk(t, h)[i]
<1> DEFINE S == {n \in Nat : n <= End => Walk(t, h)[n] # x /\ Walk(u, h)[n] = Walk(t, h)[n]}
<1>1. 0 \in S
  BY WalkSteps
<1>2. ASSUME NEW n \in Nat, n \in S PROVE n + 1 \in S
  <2> SUFFICES ASSUME n + 1 <= End
               PROVE  Walk(t, h)[n + 1] # x /\ Walk(u, h)[n + 1] = Walk(t, h)[n + 1]
    OBVIOUS
  <2>1. n + 1 \in 1..End /\ (n + 1) - 1 = n /\ n <= End
    BY EndNat
  <2>2. /\ Walk(t, h)[n + 1] = After(t, Walk(t, h)[n])
        /\ Walk(u, h)[n + 1] = After(u, Walk(u, h)[n])
    BY <2>1, WalkSteps
  <2>3. Walk(t, h)[n] # x /\ Walk(u, h)[n] = Walk(t, h)[n]
    BY <1>2, <2>1
  <2> QED
    BY <2>2, <2>3 DEF After, Aside
<1> HIDE DEF S
<1>3. Nat \subseteq S
  BY <1>1, <1>2, NatInd
<1> QED
  BY <1>3, EndNat DEF S

\* A write to the entry of a cluster nothing links to leaves the other chains.
LEMMA ChainKept ==
  ASSUME TypeOK, NEW x, NEW v, fat' \in {fat, Update(x, v)}, NEW h,
         x \in Own => h # x /\ ~Linked(x)
  PROVE  Chain(h)' = Chain(h)
<1>1. CASE fat' = fat
  BY <1>1, ChainIsWalk
<1>2. CASE fat' # fat
  <2>1. fat' = [fat EXCEPT ![x] = v] /\ x \in Own
    BY <1>2, Special DEF Update, TypeOK, Own
  <2>2. \A c \in Slots : fat[c] # x /\ (c # x => fat'[c] = fat[c])
    BY <2>1 DEF Linked, TypeOK
  <2>3. \A i \in 0..End : Walk(fat', h)[i] = Walk(fat, h)[i]
    <3>1. h # x /\ Aside(fat, fat', x)
      BY <2>1, <2>2 DEF Aside
    <3> QED
      BY <3>1, WalkKept
  <2> QED
    BY <2>3, ChainIsWalk
<1> QED
  BY <1>1, <1>2

\* A step that ends an operation leaves the handles of the other files.
LEMMA FinishOthers ==
  ASSUME TypeOK, op.pc # "idle", NEW ok, Finish(ok), NEW g \in Files \ {op.f}
  PROVE  status'[g] = status[g] /\ mem'[g] = mem[g]
BY DEF TypeOK, Finish, CloseHandle

\* No step works on a file but its own.
LEMMA OthersStep ==
  ASSUME IInv, Next, crashes' = crashes, op' # op, NEW g \in Files \ {op.f, op'.f}
  PROVE  Chain(Head(g))' = Chain(Head(g))
<1>0. /\ TypeOK /\ fat \in [Slots -> Entries] /\ dir \in [Files -> Heads \union {Deleted}]
      /\ status \in [Files -> {"closed", "open"}] /\ mem \in [Files -> Heads]
  BY DEF IInv, Typed, TypeOK
<1>1. ASSUME NEW x, NEW v, fat' \in {fat, Update(x, v)},
             status'[g] = status[g], mem'[g] = mem[g], dir'[g] = dir[g],
             x \in Own => ~Linked(x) /\ ~Root(g, x)
      PROVE  Chain(Head(g))' = Chain(Head(g))
  <2>1. PICK h : h = Head(g)
    OBVIOUS
  <2>2. Head(g)' = h /\ h \in {dir[g], mem[g]}
    BY <1>1, <2>1 DEF Head
  <2>3. x \in Own => h # x /\ ~Linked(x)
    BY <1>1, <2>2 DEF Root
  <2>4. Chain(h)' = Chain(h)
    BY <1>0, <1>1, <2>3, ChainKept
  <2>5. Chain(Head(g))' = {Walk(fat', Head(g)')[i] : i \in 0..End} \intersect Slots
    BY Zenon DEF Chain, Walk, IsWalk, After
  <2>6. Chain(Head(g))' = Chain(h)'
    BY <2>2, <2>5, ChainIsWalk, Zenon
  <2>7. Chain(Head(g)) = Chain(h)
    BY <2>1, Zenon
  <2> QED
    BY <2>4, <2>6, <2>7
<1>2. ASSUME fat' = fat, status'[g] = status[g], mem'[g] = mem[g], dir'[g] = dir[g]
      PROVE  Chain(Head(g))' = Chain(Head(g))
  BY <1>1, <1>2, Special DEF Own
<1>3. ASSUME NEW f \in Files, Open(f) \/ WriteInside(f) \/ CloseClean(f) PROVE FALSE
  BY <1>3 DEF Open, WriteInside, CloseClean
<1>13. CASE CutNone
  <2>1. g # op.f /\ op.pc # "idle"
    BY <1>13 DEF CutNone
  <2>2. status'[g] = status[g] /\ mem'[g] = mem[g]
    BY <1>0, <1>13, <2>1, FinishOthers DEF CutNone
  <2> QED
    BY <1>2, <1>13, <2>2 DEF CutNone
<1>14. ASSUME NEW f \in Files, WriteOutside(f) PROVE Chain(Head(g))' = Chain(Head(g))
  BY <1>2, <1>14 DEF WriteOutside
<1>4. ASSUME NEW f \in Files, Grow(f) \/ Truncate(f) \/ Delete(f) \/ \E kind \in {"flush", "close"} : Flush(f, kind)
      PROVE  Chain(Head(g))' = Chain(Head(g))
  <2>1. op'.f = f
    BY <1>4 DEF Grow, Truncate, Delete, Flush, Start
  <2>2. g # f
    BY <2>1
  <2> QED
    BY <1>0, <1>2, <1>4, <2>2 DEF Grow, Truncate, Delete, Flush
<1>5. CASE Pick
  BY <1>2, <1>5 DEF Pick
<1>6. CASE Mark
  <2>1. op.n \in Slots /\ fat[op.n] = Free
    BY <1>6 DEF Mark, IInv, Typed, OpCluster, Pending
  <2>2. op.n \in Own => ~Linked(op.n) /\ ~Root(g, op.n)
    BY <2>1, UnusedUnknown DEF IInv
  <2> QED
    BY <1>1, <1>6, <2>2 DEF Mark, WriteFat
<1>7. CASE Link
  <2>1. op.f \in Files /\ g # op.f
    BY <1>7, Running DEF Link, IInv, Typed
  <2>2. Prev \in Own => Prev = mem[op.f]
    BY Special DEF Prev, Own
  <2>3. Prev \in Own => ~Linked(Prev) /\ ~Root(g, Prev)
    BY <2>1, <2>2 DEF IInv, Core, RootsOK, Root
  <2> QED
    BY <1>1, <1>7, <2>3 DEF Link, WriteFat
<1>8. CASE Hint
  BY <1>0, <1>2, <1>8 DEF Hint
<1>9. CASE Cut
  <2>1. op.f \in Files /\ g # op.f /\ op.n = mem[op.f] /\ op.pc # "idle"
    BY <1>9, Running DEF Cut, IInv, Typed, Pending
  <2>2. op.n \in Own => ~Linked(op.n) /\ ~Root(g, op.n)
    BY <2>1 DEF IInv, Core, RootsOK, Root
  <2>3. status'[g] = status[g] /\ mem'[g] = mem[g] /\ dir'[g] = dir[g]
    BY <1>0, <1>9, <2>1, FinishOthers DEF Cut, WriteFat
  <2>4. fat' \in {fat, Update(op.n, Eof)}
    BY <1>9 DEF Cut, WriteFat
  <2> QED
    BY <1>1, <2>2, <2>3, <2>4
<1>10. CASE FreeNext
  <2>1. op.pc # "idle" /\ (op.n \in Own => ~Linked(op.n) /\ ~Root(g, op.n))
    BY <1>10 DEF FreeNext, IInv, Pending
  <2>2. status'[g] = status[g] /\ mem'[g] = mem[g] /\ dir'[g] = dir[g]
    BY <1>0, <1>10, <2>1, FinishOthers DEF FreeNext, WriteFat
  <2>3. fat' \in {fat, Update(op.n, Free)}
    BY <1>10 DEF FreeNext, WriteFat
  <2> QED
    BY <1>1, <2>1, <2>2, <2>3
<1>11. CASE Unlist \/ FsInfo \/ Entry
  <2>1. op.pc # "idle" /\ g # op.f
    BY <1>11 DEF Unlist, FsInfo, Entry
  <2>2. status'[g] = status[g] /\ mem'[g] = mem[g]
    BY <1>0, <1>11, <2>1, FinishOthers DEF Unlist, FsInfo, Entry
  <2>3. fat' = fat /\ dir'[g] = dir[g]
    BY <1>0, <1>11, <2>1 DEF Unlist, FsInfo, Entry
  <2> QED
    BY <1>2, <2>2, <2>3
<1>12. CASE Crash
  BY <1>0, <1>12 DEF Crash, IInv, Typed, TypeOK
<1> QED
  BY <1>3, <1>4, <1>5, <1>6, <1>7, <1>8, <1>9, <1>10, <1>11, <1>12, <1>13, <1>14 DEF Next, Run

\* Until the code leaves the table, what is done to one file, whatever fails, never
\* changes the clusters of another, however long the chains are.
THEOREM OthersKept == Spec => OthersUntouched
<1> DEFINE Stays == crashes' = crashes /\ op' # op =>
                      \A g \in Files \ {op.f, op'.f} : Chain(Head(g))' = Chain(Head(g))
<1>1. IInv /\ [Next]_vars => [Stays]_vars
  BY OthersStep
<1>2. [][Stays]_vars => OthersUntouched
  BY DEF OthersUntouched
<1> QED
  BY <1>1, <1>2, Invariant, PTL DEF Spec

\* A cluster on two chains is the first one of either, or their last common link.
LEMMA FirstShared ==
  ASSUME IInv, NEW f \in Files, NEW g \in Files, f # g,
         NEW h \in {dir[f], mem[f]}, NEW k \in {dir[g], mem[g]}
  PROVE  Chain(h) \intersect Chain(k) \subseteq LastSlots
<1> DEFINE S == {i \in 0..End : \E j \in 0..End : Walk(fat, h)[i] \in Own /\ Walk(fat, h)[i] = Walk(fat, k)[j]}
<1>1. ASSUME S # {} PROVE FALSE
  <2>1. S \subseteq Nat
    BY EndNat
  <2>2. PICK i \in S : \A y \in S : i <= y
    BY <1>1, <2>1, Least
  <2>3. PICK j \in 0..End : Walk(fat, h)[i] \in Own /\ Walk(fat, h)[i] = Walk(fat, k)[j]
    BY <2>2
  <2>4. PICK c \in Own : c = Walk(fat, h)[i] /\ c = Walk(fat, k)[j]
    BY <2>3
  <2>5. /\ i = 0 => c = h
        /\ i # 0 => i - 1 \in 0..End /\ c = After(fat, Walk(fat, h)[i - 1])
    <3>1. i \in 0..End /\ (i # 0 => i \in 1..End)
      BY <2>2, EndNat
    <3>2. i # 0 => i - 1 \in 0..End /\ Walk(fat, h)[i] = After(fat, Walk(fat, h)[i - 1])
      BY <3>1, WalkSteps
    <3>3. i = 0 => Walk(fat, h)[i] = h
      BY WalkSteps
    <3> QED
      BY ONLY <2>4, <3>2, <3>3
  <2>6. /\ j = 0 => c = k
        /\ j # 0 => j - 1 \in 0..End /\ c = After(fat, Walk(fat, k)[j - 1])
    <3>1. j # 0 => j \in 1..End
      BY <2>3, EndNat
    <3> QED
      BY <2>4, <3>1, WalkSteps
  <2>7. \A x : c = After(fat, x) => x = c \/ (x \in Slots /\ fat[x] = c)
    BY DEF After
  <2>8. ASSUME i # 0, Walk(fat, h)[i - 1] = c PROVE FALSE
    <3>1. i - 1 \in S /\ i \in Nat
      BY <2>1, <2>2, <2>3, <2>4, <2>5, <2>8
    <3> QED
      BY <2>2, <3>1
  <2>9. PICK m \in 0..End : /\ Walk(fat, k)[m] = c
                            /\ m # 0 => Walk(fat, k)[m - 1] # c
    <3> DEFINE T == {m \in 0..End : Walk(fat, k)[m] = c}
    <3>1. T \subseteq Nat /\ T # {}
      BY <2>3, <2>4, EndNat
    <3>2. PICK m \in T : \A y \in T : m <= y
      BY <3>1, Least
    <3>3. m # 0 /\ Walk(fat, k)[m - 1] = c => m - 1 \in T
      BY <3>2, EndNat
    <3> QED
      BY <3>1, <3>2, <3>3
  <2>10. m = 0 \/ (m - 1 \in 0..End /\ Walk(fat, k)[m - 1] \in Slots /\ fat[Walk(fat, k)[m - 1]] = c)
    <3>1. m # 0 => m \in 1..End
      BY EndNat
    <3>2. m # 0 => m - 1 \in 0..End /\ Walk(fat, k)[m] = After(fat, Walk(fat, k)[m - 1])
      BY <3>1, WalkSteps
    <3> QED
      BY <2>7, <2>9, <3>2
  <2>11. m = 0 => c = k
    <3>1. Walk(fat, k)[0] = k
      BY WalkSteps
    <3> QED
      BY ONLY <2>9, <3>1
  <2>12. i = 0 \/ (Walk(fat, h)[i - 1] \in Slots /\ fat[Walk(fat, h)[i - 1]] = c)
    BY <2>5, <2>7, <2>8
  <2>13. Root(f, h) /\ Root(g, k)
    BY DEF Root
  <2>14. CASE i = 0
    <3>1. Root(f, c)
      BY <2>5, <2>13, <2>14
    <3>2. ~Linked(c) /\ (Root(g, c) => f = g)
      BY <3>1 DEF IInv, Core, RootsOK
    <3> QED
      BY <2>10, <2>11, <2>13, <3>2 DEF Linked
  <2>15. CASE m = 0
    <3>1. Root(g, c)
      BY <2>11, <2>13, <2>15
    <3>2. ~Linked(c) /\ (Root(f, c) => g = f)
      BY <3>1 DEF IInv, Core, RootsOK
    <3> QED
      BY <2>5, <2>12, <2>13, <3>2 DEF Linked
  <2>16. CASE i # 0 /\ m # 0
    <3>1. PICK b \in Slots : b = Walk(fat, h)[i - 1] /\ fat[b] = c
      BY <2>12, <2>16
    <3>2. b = Walk(fat, k)[m - 1]
      BY <2>10, <2>16, <3>1 DEF IInv, Core, LinksOK
    <3>3. b \in Own
      BY <3>1, Special DEF IInv, Core, LastFixed, Own
    <3>4. i - 1 \in S /\ i \in Nat
      BY <2>1, <2>2, <2>5, <2>10, <2>16, <3>1, <3>2, <3>3
    <3> QED
      BY <2>2, <3>4
  <2> QED
    BY <2>14, <2>15, <2>16
<1>2. ASSUME NEW c \in Chain(h), c \in Chain(k) PROVE c \in LastSlots
  <2>1. \E i, j \in 0..End : c = Walk(fat, h)[i] /\ c = Walk(fat, k)[j] /\ c \in Slots
    BY <1>2, ChainIsWalk
  <2> QED
    BY <1>1, <2>1 DEF Own
<1> QED
  BY <1>2

\* Until the code leaves the table, two files never have a cluster in common,
\* however long their chains are.
THEOREM NeverCommon == Spec => []FilesApart
<1>1. IInv => FilesApart
  BY FirstShared DEF FilesApart
<1> QED
  BY <1>1, Invariant, PTL

\* Until the code leaves the table the volume is sound: typed, nothing dangles,
\* nothing is shared, no two files meet; and the search leaves a full table only.
THEOREM SpecConsistent == Spec => []Consistent
<1>1. TypeOK /\ NoDangling /\ NoSharing /\ FilesApart /\ IInv => Consistent
  BY DEF Consistent, IInv, Pending
<1> QED
  BY <1>1, Invariant, TypeCorrect, NeverDangling, NeverShared, NeverCommon, PTL
=============================================================================
