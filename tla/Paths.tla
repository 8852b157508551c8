--------------------------------- MODULE Paths ---------------------------------
(***************************************************************************)
(* Names in directories: the calls of Volume and Directory that look up a   *)
(* path or a name and open what they find (src/src/fs/volume.rs), with the  *)
(* modes of a file, and the deletion of a directory                         *)
(* (src/src/fs/volume/file.rs).  A directory is a sequence of entries; of a *)
(* chain of clusters only the first one and whether the rest is there are   *)
(* kept (FatChain has the chains, DirListing the slots of the entries).     *)
(* A name is a sequence of characters (Names).                              *)
(* Every device access may fail.  The model ends (phase "lost") where a     *)
(* truncation without a cluster follows a link that lies outside the table. *)
(***************************************************************************)
EXTENDS Names, FiniteSets, SequencesExt

CONSTANTS
  Trees,      \* the entries of each directory of a volume, by its first cluster
  Routes,     \* the paths, sequences of names and separators "/"
  Asked,      \* the names that Directory::file and dir are asked for
  Modes,      \* sets of "write", "create", "append", "truncate"
  MaxCalls,   \* bound: calls
  MayFail     \* TRUE: a device access may fail

ASSUME LimitsAssumption == MaxCalls \in Nat /\ MayFail \in BOOLEAN
ASSUME ModesAssumption == Modes \subseteq SUBSET {"write", "create", "append", "truncate"}

VARIABLES
  dirs,    \* the entries of the directory at each cluster, 0 for the root
  whole,   \* the first clusters whose chain is complete
  boot,    \* TRUE: sector 0 is as it was
  here,    \* the Directory the program holds
  phase,   \* what the running call does next
  op,      \* its arguments and its local variables, see Idle
  result,  \* what it returned: an outcome, an entry and the cursor of a file
  calls,   \* calls so far
  torn     \* history: a truncation or deletion has failed or began at a dot entry

disk == <<dirs, whole, boot>>
vars == <<disk, here, phase, op, result, calls, torn>>

-----------------------------------------------------------------------------
\* DirEntry, and where it lies; cluster 0 is None.  An entry is "live", "gone" or
\* "blank": gone, and its name's slots cleared, at which every listing ends.
Entry(n, sh, d, c, s, l) ==
  [name |-> n, short |-> sh, dir |-> d, at |-> c, size |-> s, long |-> l, mark |-> "live"]
\* ShortName::is_self and is_parent
IsDots(e) == e.short \in {SelfName, ParentName}

\* DirEntry::new_root, also what a missing parent stands for.
NoPlace == -1
Root == [name |-> <<>>, short |-> Blank, dir |-> TRUE, at |-> 0, size |-> 0, long |-> "no",
         mark |-> "live", home |-> NoPlace, slot |-> 0]
\* ClusterIndex::EMPTY: what DirEntry::sync writes for None.
Empty == -2
Held(c, k) ==
  LET e == dirs[c][k]
  IN [name |-> e.name, short |-> e.short, dir |-> e.dir, at |-> e.at, size |-> e.size,
      long |-> e.long, mark |-> e.mark, home |-> c, slot |-> k]

\* What a listing of the directory at c hands out.
Listed(c) ==
  {k \in DOMAIN dirs[c] : /\ dirs[c][k].mark = "live"
                          /\ \A j \in 1..k : dirs[c][j].mark # "blank"}
\* DirectoryIndex::find: the first entry the name matches, if there is one.
FindIn(c, n) ==
  LET hits == {k \in Listed(c) : Matches(dirs[c][k], n)}
  IN IF hits = {} THEN {} ELSE {Held(c, Min(hits))}

(* Paths.                                                                  *)

Sep == <<"/">>
IsSep(t) == t = Sep
\* PathIter: a leading separator, and "./" before it, are left out; after a part
\* one separator is, and last says that nothing follows.
Parts(r) ==
  LET skip(i) == IF i <= Len(r) /\ IsSep(r[i]) THEN i + 1 ELSE i
      from[i \in 1..(Len(r) + 2)] ==
        IF i > Len(r) THEN <<>>
        ELSE IF IsSep(r[i]) THEN from[skip(i + 1)]
        ELSE IF r[i] = Dot /\ i < Len(r) THEN from[skip(i + 2)]
        ELSE <<[name |-> r[i], last |-> skip(i + 1) > Len(r)]>> \o from[skip(i + 1)]
  IN from[1]
IsRootRoute(r) == r = <<>> \/ (Len(r) = 1 /\ IsSep(r[1]))
LastSep(r) == LastOf(Sep, r)

\* Mode::is_create and is_mode_valid; append with truncate is not refused.
IsCreate(m) == "create" \in m /\ ("write" \in m \/ "append" \in m)
IsModeValid(m) == m # {"create"}

-----------------------------------------------------------------------------
\* The kind of a call, on a Directory (inside) or with a path; leaf and mode of a
\* file, make and force as given; base is where its names start; todo is what
\* PathIter has left; p and o are those of find_dir; file is the entry that was
\* found, or the directory to delete, and list what its listing has left.
Idle == [kind |-> "none", inside |-> FALSE, base |-> 0, leaf |-> <<>>, mode |-> {}, make |-> FALSE, force |-> FALSE,
         route |-> <<>>, todo |-> <<>>, p |-> Root, o |-> Root, file |-> Root, list |-> <<>>]
Nothing == [what |-> "none", entry |-> Root, pos |-> 0]

Init ==
  /\ dirs \in Trees
  /\ whole = UNION {{dirs[c][k].at : k \in DOMAIN dirs[c]} : c \in DOMAIN dirs} \ {0}
  /\ boot = TRUE /\ here = Root
  /\ phase = "idle" /\ op = Idle /\ result = Nothing
  /\ calls = 0 /\ torn = FALSE

Finish(what, e, pos) ==
  /\ phase' = "done" /\ result' = [what |-> what, entry |-> e, pos |-> pos]
Goto(p) == phase' = p /\ UNCHANGED result
Error(what) == Finish(what, Root, 0)

\* Every access of a call may fail, and with it the call.
Fails == /\ MayFail /\ Error("Io") /\ UNCHANGED <<disk, op>>

Begin == phase = "idle" /\ calls < MaxCalls /\ calls' = calls + 1
StartWalk(c, r) ==
  IF IsRootRoute(r)
  THEN IF c.kind = "dir" THEN op' = c /\ Finish("dir", Root, 0) ELSE op' = c /\ Goto("leaf")
  ELSE op' = [c EXCEPT !.todo = Parts(r)] /\ Goto("walk")

\* Volume::open, file_create and file_open: open_inner.
OpenFile(r, m) ==
  /\ Begin
  /\ LET c == [Idle EXCEPT !.kind = "file", !.route = r, !.mode = m, !.make = "create" \in m]
         i == LastSep(r)
     IN IF ~IsModeValid(m) THEN Error("InvalidOptions") /\ op' = c
        ELSE IF r = <<>> THEN Error("NotFound") /\ op' = c
        ELSE IF i = Len(r) THEN Error("NotAFile") /\ op' = c
        ELSE IF i = 0 THEN op' = [c EXCEPT !.leaf = r[1]] /\ Goto("rootfile")
        ELSE StartWalk([c EXCEPT !.leaf = r[Len(r)]], SubSeq(r, 1, i - 1))
  /\ UNCHANGED <<disk, here, torn>>

\* Volume::dir_open and dir_create: find_dir.
OpenDir(r, make) ==
  /\ Begin
  /\ StartWalk([Idle EXCEPT !.kind = "dir", !.route = r, !.make = make], r)
  /\ UNCHANGED <<disk, here, torn>>

\* Directory::file and dir: file_entry and dir_entry in the directory itself.
FileHere(n, m) ==
  /\ Begin
  /\ LET c == [Idle EXCEPT !.kind = "file", !.leaf = n, !.mode = m, !.make = "create" \in m,
                           !.inside = TRUE, !.base = here.at, !.p = here, !.route = <<n>>]
     IN op' = c /\ IF IsModeValid(m) THEN Goto("leaf") ELSE Error("InvalidOptions")
  /\ UNCHANGED <<disk, here, torn>>
DirHere(n, make) ==
  /\ Begin
  /\ op' = [Idle EXCEPT !.kind = "dir", !.make = make, !.inside = TRUE, !.base = here.at,
                        !.p = here, !.route = <<n>>,
                        !.todo = <<[name |-> n, last |-> TRUE]>>]
  /\ Goto("enter")
  /\ UNCHANGED <<disk, here, torn>>

\* Volume::create and create_dir claim the buffer of long names, which the listing
\* of the same call holds: they never return (CacheLocks).
Hang == phase' = "hung" /\ UNCHANGED <<result, op>>

\* Mutant: going up keeps the parent of the parent.
UpKeepsParent ==
  /\ phase = "walk" /\ op.todo # <<>> /\ Head(op.todo).name = DotDot
  /\ op' = [op EXCEPT !.p = op.o, !.todo = Tail(op.todo)]
  /\ Goto("walk")
  /\ UNCHANGED <<disk, here, calls, torn>>

\* Mutant: the part of the path is not left behind.
UpStays ==
  /\ phase = "walk" /\ op.todo # <<>> /\ Head(op.todo).name = DotDot
  /\ op' = [op EXCEPT !.p = op.o, !.o = Root]
  /\ Goto("walk")
  /\ UNCHANGED <<disk, here, calls, torn>>

\* find_dir: ".." makes the previous parent the current one.
Up ==
  /\ phase = "walk" /\ op.todo # <<>> /\ Head(op.todo).name = DotDot
  /\ op' = [op EXCEPT !.p = op.o, !.o = Root, !.todo = Tail(op.todo)]
  /\ Goto("walk")
  /\ UNCHANGED <<disk, here, calls, torn>>

\* find_dir, and dir_entry for one name, in which ".." is the entry of that name.
Enter ==
  /\ \/ phase = "enter"
     \/ phase = "walk" /\ op.todo # <<>> /\ Head(op.todo).name # DotDot
  /\ LET part == Head(op.todo)
         hit == FindIn(op.p.at, part.name)
         ready == [op EXCEPT !.todo = Tail(op.todo)]
     IN \/ Fails
        \/ hit = {} /\ op.make /\ Hang
        \/ hit = {} /\ ~op.make /\ Error("NotFound") /\ UNCHANGED op
        \/ \E e \in hit :
             \/ ~e.dir /\ Error("NotADirectory") /\ UNCHANGED op
             \/ e.dir /\ part.last /\ op.kind = "dir" /\ Finish("dir", e, 0) /\ UNCHANGED op
             \/ e.dir /\ part.last /\ op.kind = "file"
                /\ op' = [ready EXCEPT !.p = e] /\ Goto("leaf")
             \/ e.dir /\ ~part.last
                /\ op' = [ready EXCEPT !.o = op.p, !.p = e] /\ Goto("walk")
  /\ UNCHANGED <<disk, here, calls, torn>>

\* The path ends with "..": the directory it came back to, but not the root.
WalkEnds ==
  /\ phase = "walk" /\ op.todo = <<>>
  /\ IF op.p = Root THEN Error("NotFound")
     ELSE IF op.kind = "dir" THEN Finish("dir", op.p, 0)
     ELSE Goto("leaf")
  /\ UNCHANGED <<disk, here, op, calls, torn>>

\* The file's name in its directory: nothing is found.
Missing == IF IsCreate(op.mode) THEN Hang ELSE Error("NotFound") /\ UNCHANGED op

\* open_inner_file, for a path without separator: the mode is only remembered.
RootFile ==
  /\ phase = "rootfile"
  /\ \/ Fails
     \/ FindIn(0, op.leaf) = {} /\ Missing
     \/ \E e \in FindIn(0, op.leaf) :
          /\ UNCHANGED op
          /\ IF e.dir THEN Error("NotAFile") ELSE Finish("file", e, 0)
  /\ UNCHANGED <<disk, here, calls, torn>>

\* Mutant: appending starts at the beginning.
LeafAtStart ==
  /\ phase = "leaf"
  /\ \/ Fails
     \/ FindIn(op.p.at, op.leaf) = {} /\ Missing
     \/ \E e \in FindIn(op.p.at, op.leaf) :
          IF e.dir THEN Error("NotAFile") /\ UNCHANGED op
          ELSE IF "truncate" \in op.mode /\ "append" \notin op.mode
               THEN op' = [op EXCEPT !.file = e] /\ Goto("cut")
          ELSE Finish("file", e, 0) /\ UNCHANGED op
  /\ UNCHANGED <<disk, here, calls, torn>>

\* create_file: append goes before truncate.
Leaf ==
  /\ phase = "leaf"
  /\ \/ Fails
     \/ FindIn(op.p.at, op.leaf) = {} /\ Missing
     \/ \E e \in FindIn(op.p.at, op.leaf) :
          IF e.dir THEN Error("NotAFile") /\ UNCHANGED op
          ELSE IF "append" \in op.mode THEN Finish("file", e, e.size) /\ UNCHANGED op
          ELSE IF "truncate" \in op.mode THEN op' = [op EXCEPT !.file = e] /\ Goto("cut")
          ELSE Finish("file", e, 0) /\ UNCHANGED op
  /\ UNCHANGED <<disk, here, calls, torn>>

\* Volume::truncate from an entry's cluster: the chain is cut to its first one,
\* except from cluster 2, which is not valid.
Cuts(c) == whole' = IF c > 2 THEN whole \ {c} ELSE whole
\* Without a cluster it goes by EMPTY, whose link is looked for outside the table.
\* That word may end the chain, be an error, or lead into any other chain.
Outside(c) == c \in {0, Empty}
Lost == Goto("lost")

\* Mutant: the chain of the directory is cut, not the file's.
CutParent ==
  /\ phase = "cut"
  /\ Cuts(op.p.at) /\ op' = [op EXCEPT !.file.size = 0] /\ Goto("sync")
  /\ UNCHANGED <<dirs, boot, here, calls, torn>>

\* create_file with truncate: the chain, then the size of the handle.
Cut ==
  /\ phase = "cut"
  /\ \/ Cuts(op.file.at) /\ op' = [op EXCEPT !.file.size = 0] /\ Goto("sync") /\ UNCHANGED torn
     \/ Cuts(op.file.at) /\ MayFail /\ Error("Io") /\ torn' = TRUE /\ UNCHANGED op
     \/ Outside(op.file.at) /\ (Error("Io") \/ Lost) /\ UNCHANGED <<whole, op, torn>>
     \/ Fails /\ UNCHANGED torn
  /\ UNCHANGED <<dirs, boot, here, calls>>

\* Mutant: only the handle is emptied.
SyncForgotten ==
  /\ phase = "sync"
  /\ Finish("file", op.file, 0)
  /\ UNCHANGED <<disk, here, op, calls, torn>>

\* DirEntry::sync writes the entry of the handle to its place.
Synced(e) == [e EXCEPT !.size = op.file.size, !.at = IF op.file.at = 0 THEN Empty ELSE @]
Sync ==
  /\ phase = "sync"
  /\ \/ /\ dirs' = [dirs EXCEPT ![op.file.home][op.file.slot] = Synced(@)]
        /\ Finish("file", op.file, 0) /\ UNCHANGED torn
     \/ /\ MayFail /\ Error("Io") /\ torn' = TRUE
        /\ UNCHANGED dirs
  /\ UNCHANGED <<whole, boot, here, op, calls>>

(* Directory::delete.                                                      *)

\* The listing starts; the Directory is consumed.
Delete(force) ==
  /\ Begin
  /\ op' = [Idle EXCEPT !.kind = "delete", !.force = force, !.file = here,
                        !.list = SetToSortSeq(Listed(here.at), <)]
  /\ here' = Root
  /\ torn' = (torn \/ IsDots(here))
  /\ \/ Goto("visit")
     \/ MayFail /\ Error("Io")
  /\ UNCHANGED disk

\* Mutant: the entry is not marked.
UnlistNothing(e) == UNCHANGED <<dirs, boot>>

\* DirEntry::delete of a short entry, of one whose name lies in its own sector,
\* and of one whose name began in the sector before: only the second one has
\* its chain cut.
Unlist(e) ==
  IF e.home = NoPlace THEN boot' = FALSE /\ UNCHANGED dirs
  ELSE /\ dirs' = [dirs EXCEPT ![e.home][e.slot].mark =
                     IF e.long = "near" THEN "blank" ELSE "gone"]
       /\ UNCHANGED boot
UnlistCuts(e) == e.long = "near" /\ e.at # 0 /\ e.home # NoPlace
\* It fails after the entry is written, or in the middle of the chain.
UnlistInPart(e) ==
  Unlist(e) /\ whole' \in {whole} \union {whole \ {c} : c \in {c \in {e.at} : UnlistCuts(e)}}

\* is_root_or_parent stops the deletion of the contents: so does "." at once.
\* An entry that holds EMPTY is read as such on FAT32, but not on FAT16.
Stops(e) == e.at = 0 \/ IsDots(e)
MayStop(e) == Stops(e) \/ e.at = Empty

\* The listing is over, or stopped.
VisitEnds ==
  /\ phase = "visit"
  /\ \/ op.list = <<>>
     \/ op.list # <<>> /\ op.force /\ MayStop(Held(op.file.at, Head(op.list)))
  /\ Goto("self")
  /\ UNCHANGED <<disk, here, op, calls, torn>>

\* One entry of it.  A subdirectory is listed while the buffer of this listing is
\* held, so that the call never returns (CacheLocks).
Visit ==
  /\ phase = "visit" /\ op.list # <<>>
  /\ LET e == Held(op.file.at, Head(op.list))
         on == op' = [op EXCEPT !.list = Tail(op.list)] /\ Goto("visit")
     IN \/ /\ ~op.force /\ Error("NonEmptyDirectory")
           /\ UNCHANGED <<disk, op, torn>>
        \/ /\ op.force /\ ~Stops(e) /\ e.dir /\ Hang
           /\ UNCHANGED <<disk, torn>>
        \/ /\ op.force /\ ~Stops(e) /\ ~e.dir
           /\ Unlist(e)
           /\ IF UnlistCuts(e) THEN Cuts(e.at) ELSE UNCHANGED whole
           /\ \/ on
              \/ UnlistCuts(e) /\ Outside(e.at) /\ (Error("Io") \/ Lost) /\ UNCHANGED op
           /\ UNCHANGED torn
        \/ /\ op.force /\ ~Stops(e) /\ ~e.dir /\ MayFail
           /\ UNCHANGED disk \/ UnlistInPart(e)
           /\ Error("Io") /\ torn' = TRUE
           /\ UNCHANGED op
  /\ UNCHANGED <<here, calls>>

\* The entry of the directory itself, then its chain.
Self ==
  /\ phase = "self"
  /\ \/ /\ Unlist(op.file)
        /\ IF UnlistCuts(op.file) THEN Cuts(op.file.at) ELSE UNCHANGED whole
        /\ Goto("rest") /\ UNCHANGED torn
     \/ /\ MayFail /\ Error("Io") /\ torn' = TRUE
        /\ UNCHANGED disk \/ UnlistInPart(op.file)
  /\ UNCHANGED <<here, op, calls>>
Rest ==
  /\ phase = "rest"
  /\ \/ Cuts(op.file.at) /\ Finish("deleted", Root, 0) /\ UNCHANGED torn
     \/ Outside(op.file.at) /\ (Error("Io") \/ Lost) /\ UNCHANGED <<whole, torn>>
     \/ MayFail /\ Error("Io") /\ torn' = TRUE /\ whole' \in {whole, whole \ {op.file.at}}
  /\ UNCHANGED <<dirs, boot, here, op, calls>>

\* The program takes what it got, and may go on in a directory.
Take ==
  /\ phase = "done"
  /\ phase' = "idle" /\ op' = Idle /\ result' = Nothing
  /\ here' \in IF result.what = "dir" THEN {here, result.entry} ELSE {here}
  /\ UNCHANGED <<disk, calls, torn>>

Call ==
  \/ \E r \in Routes : (\E m \in Modes : OpenFile(r, m)) \/ (\E b \in BOOLEAN : OpenDir(r, b))
  \/ \E n \in Asked : (\E m \in Modes : FileHere(n, m)) \/ (\E b \in BOOLEAN : DirHere(n, b))
  \/ \E b \in BOOLEAN : Delete(b)
Step ==
  \/ Up \/ Enter \/ WalkEnds \/ RootFile \/ Leaf \/ Cut \/ Sync
  \/ VisitEnds \/ Visit \/ Self \/ Rest
Next == Call \/ Step \/ Take

Spec == Init /\ [][Next]_vars
\* A call goes on by itself.
FairSpec == Spec /\ WF_vars(Step)

-----------------------------------------------------------------------------
(* Properties.                                                             *)

\* What a path names: separators part the names, "." stays, ".." is the parent,
\* which the root is of itself.
NowhereAt == -1
ParentOf(c) == IF c = 0 THEN 0
               ELSE LET k == CHOOSE k \in DOMAIN dirs[c] : dirs[c][k].short = ParentName
                    IN dirs[c][k].at
\* The entries that are known by a name.
Called(c, n) == {Held(c, k) : k \in {k \in Listed(c) : Shown(dirs[c][k]) = n}}
Child(c, n) ==
  IF c = NowhereAt THEN NowhereAt
  ELSE IF n = Dot THEN c
  ELSE IF n = DotDot THEN ParentOf(c)
  ELSE LET hits == {e \in Called(c, n) : e.dir}
       IN IF hits = {} THEN NowhereAt ELSE (CHOOSE e \in hits : TRUE).at
NamesOf(r) == SelectSeq(r, LAMBDA t : ~IsSep(t))
Place(base, names) == FoldLeft(Child, base, names)
\* The directories of a path: all of it, or what is before a file's own name.
DirRoute(r, kind) == IF kind = "dir" THEN r ELSE SubSeq(r, 1, LastSep(r) - 1)

\* find_dir remembers one parent: a second ".." in a row goes to the root.
OneUp(names) ==
  \A k \in 2..Len(names) :
    names[k] = DotDot /\ names[k - 1] = DotDot => Place(0, SubSeq(names, 1, k)) = 0

\* A name that ShortOf changes is compared as it should be with long names only.
AllLong == \A c \in DOMAIN dirs : \A k \in DOMAIN dirs[c] :
             IsDots(dirs[c][k]) \/ dirs[c][k].long # "no"
Exact(names) == AllLong \/ \A k \in DOMAIN names : Fits(names[k])
(* Consistent: the types, and the handle a call works on is the entry as it *)
(* is on the card at its place, until a truncation empties it; one without  *)
(* a cluster is EMPTY there once it was truncated.                          *)
Outcomes == {"none", "Io", "NotFound", "NotAFile", "NotADirectory", "InvalidOptions",
             "NonEmptyDirectory", "dir", "file", "deleted"}
TypeOK ==
  /\ phase \in {"idle", "walk", "enter", "rootfile", "leaf", "cut", "sync",
                "visit", "self", "rest", "done", "hung", "lost"}
  /\ op.kind \in {"none", "file", "dir", "delete"} /\ op.mode \in Modes \union {{}}
  /\ result.what \in Outcomes /\ result.pos \in 0..result.entry.size
  /\ whole \subseteq Nat /\ boot \in BOOLEAN /\ torn \in BOOLEAN
  /\ calls \in 0..MaxCalls
AtPlace(e) ==
  \/ e = Root
  \/ LET there == Held(e.home, e.slot)
     IN there = e \/ (e.at = 0 /\ there = [e EXCEPT !.at = Empty])
Consistent ==
  /\ TypeOK
  /\ AtPlace(here)
  /\ phase = "walk" => AtPlace(op.p) /\ AtPlace(op.o) /\ op.p.dir
  /\ phase = "done" => AtPlace(result.entry)

(* A path leads where it says: the directory or the file that is opened is   *)
(* the one it names, and what is not found is not there or was in a path     *)
(* that came back to the root (open_inner, find_dir, PathIter, dir_entry).   *)
FindsNamed ==
  phase = "done" /\ op.kind \in {"dir", "file"} /\ ~torn =>
    LET r == DirRoute(op.route, op.kind)
        at == Place(op.base, NamesOf(r))
    IN OneUp(NamesOf(r)) /\ Exact(NamesOf(op.route)) =>
         CASE result.what = "dir" -> result.entry.at = at
           [] result.what = "file" -> Shown(result.entry) = op.leaf /\ result.entry.home = at
           [] result.what = "NotADirectory" -> at = NowhereAt
           [] result.what = "NotFound" ->
                \/ at = NowhereAt
                \/ at = 0 /\ ~IsRootRoute(r)
                \/ op.kind = "file" /\ Called(at, op.leaf) = {}
           [] OTHER -> TRUE

(* A file opened to append is at its end, one opened to be truncated is      *)
(* empty, in the handle and on the card, and every other one is at its       *)
(* start.  The chain is cut unless it starts in cluster 2.  A path without a *)
(* separator is left out: open_inner_file only remembers the mode.           *)
Bare == ~op.inside /\ LastSep(op.route) = 0
HonoursMode ==
  phase = "done" /\ result.what = "file" /\ ~Bare =>
    LET e == result.entry
    IN IF "append" \in op.mode THEN result.pos = e.size
       ELSE /\ result.pos = 0
            /\ "truncate" \in op.mode => e.size = 0 /\ (e.at > 2 => e.at \notin whole)

(* What a call does not name it leaves alone: opening changes nothing but    *)
(* the file it names, and only when it is to be truncated; a deletion        *)
(* changes nothing unless it is forced, and then only the directory, its     *)
(* own entries and their chains, and sector 0 when it is the root's          *)
(* (create_file, delete).  What a truncation without a cluster does outside  *)
(* the table is not followed.                                                *)
NamedFile ==
  LET at == Place(op.base, NamesOf(DirRoute(op.route, "file")))
  IN IF at = NowhereAt THEN {} ELSE Called(at, op.leaf)
Changed == {<<c, k>> \in UNION {{c} \X DOMAIN dirs[c] : c \in DOMAIN dirs} : dirs'[c][k] # dirs[c][k]}
MayChange ==
  CASE op.kind = "file" /\ "truncate" \in op.mode -> {<<e.home, e.slot>> : e \in NamedFile}
    [] op.kind = "delete" /\ (op.force \/ op.file = Root) ->
         {<<op.file.home, op.file.slot>>} \union {<<op.file.at, k>> : k \in DOMAIN dirs[op.file.at]}
    [] OTHER -> {}
LeavesRest ==
  [][OneUp(NamesOf(DirRoute(op.route, "file"))) /\ Exact(NamesOf(op.route)) =>
       /\ Changed \subseteq MayChange
       /\ whole \ whole' \subseteq
            {dirs[x[1]][x[2]].at : x \in {x \in MayChange : x[1] # NoPlace}}
       /\ boot' # boot => op.kind = "delete" /\ op.file = Root]_vars

(* Between calls, a directory or a file with bytes that a path can reach has *)
(* all of its chain (create_file, delete, DirEntry::delete).                 *)
Reached ==
  LET grow[n \in 0..Cardinality(DOMAIN dirs)] ==
        IF n = 0 THEN {0}
        ELSE grow[n - 1] \union
             UNION {{dirs[c][k].at : k \in {k \in Listed(c) : dirs[c][k].dir}} : c \in grow[n - 1]}
  IN grow[Cardinality(DOMAIN dirs)]
ReachableWhole ==
  phase = "idle" /\ ~torn =>
    \A c \in Reached : \A k \in Listed(c) :
      LET e == dirs[c][k]
      IN (e.dir /\ ~IsDots(e)) \/ e.size > 0 => e.at \in whole

(* Every call ends, or is one of those that CacheLocks knows to hang, or     *)
(* follows a chain that is not its own.                                      *)
CallReturns == phase \notin {"idle", "hung", "lost"} ~> phase \in {"idle", "done", "hung", "lost"}
=============================================================================
