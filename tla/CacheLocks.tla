------------------------------ MODULE CacheLocks ------------------------------
(***************************************************************************)
(* The static block cache of src/src/fs.rs and the three hardware          *)
(* spinlocks that guard it, as the public calls of the file system claim   *)
(* and drop them.  The cache holds two sector buffers, A ("block_a") and B *)
(* ("block_b"), and one long-file-name buffer, L ("lfn").  A buffer is     *)
(* reached through a guard (BlockPtr, LongNamePtr); making the guard claims*)
(* the spinlock of the buffer and dropping it frees that spinlock.         *)
(* Both cores of the chip run calls; a call is the script of guard         *)
(* operations its code performs, in order, one operation per step.         *)
(***************************************************************************)
EXTENDS Naturals, Sequences

CONSTANTS
  Cores,      \* the processor cores that use the file system
  Calls,      \* the public calls the program makes
  MaxCalls,   \* bound: calls one core makes (dropping a handle is not counted)
  Careful     \* TRUE: handles are dropped before the next call, unlocked files used alone

CallNames == {"volume", "open", "create", "dir_entry", "dir_make", "list",
              "file_io", "unsafe_io", "into_reader", "dir_delete", "root_delete"}

ASSUME CallsAssumption == Calls \subseteq CallNames
ASSUME BudgetAssumption == MaxCalls \in Nat
ASSUME CarefulAssumption == Careful \in BOOLEAN

Locks == {"A", "B", "L"}

VARIABLES
  lock,    \* lock[l]: the spinlock of buffer l is taken
  held,    \* held[c][l]: live guards of core c on buffer l
  todo,    \* todo[c]: the guard operations left in the call core c is in
  call,    \* call[c]: the last call core c made
  budget   \* budget[c]: calls core c may still make

vars == <<lock, held, todo, call, budget>>

-----------------------------------------------------------------------------
(* Guard operations and the scripts of the calls.                          *)

Op(kind, l) == [do |-> kind, lock |-> l]
Steps == [do : {"claim", "borrow", "drop"}, lock : Locks]

\* DirectoryIndex::new makes the guards of B, then L; its fields drop in order.
Index     == <<Op("claim", "B"), Op("claim", "L")>>
IndexDrop == <<Op("drop", "B"), Op("drop", "L")>>

\* Volume::create: a long-name guard for as long as the entry is being written.
NewEntry == <<Op("claim", "L"), Op("drop", "L")>>

\* A call that works on buffer A around "inner".
WithA(inner) == <<Op("claim", "A")>> \o inner \o <<Op("drop", "A")>>

\* Storage::volume.
VolumeScripts == {WithA(<<>>)}

\* Mutant: open makes a name guard of its own.
OpenWithName == {Index \o WithA(NewEntry) \o IndexDrop}

\* Volume::open and Volume::dir_open: search only.
OpenScripts == {Index \o WithA(<<>>) \o IndexDrop}

\* Volume::file_create, file_open and file_entry with CREATE, dir_create: the
\* target exists, or an entry is made for it and maybe for its parent.
CreateScripts ==
  {Index \o WithA(made) \o IndexDrop : made \in {<<>>, NewEntry, NewEntry \o NewEntry}}

\* Volume::dir_entry: found, missing or failed; with "create" the entry is made.
DirEntryScripts == {Index \o IndexDrop}
DirMakeScripts  == {Index \o IndexDrop, Index \o WithA(NewEntry) \o IndexDrop}

\* Volume::list_entry: the DirectoryIndex is returned alive, unless the first
\* read fails.
ListScripts == {Index, Index \o IndexDrop}

\* File<Safe>::read, write, flush; close and delete, whose dirty file is flushed
\* once more by Drop.
FileScripts == {WithA(<<>>), WithA(<<>>) \o WithA(<<>>)}

\* File<Unsafe>: the same operations through block_a_nolock.
UnsafeScripts ==
  LET Unlocked == <<Op("borrow", "A"), Op("drop", "A")>>
  IN  {Unlocked, Unlocked \o Unlocked}

\* File::into_reader: the guard of A lives as long as the Reader.
ReaderScripts == {<<Op("claim", "A")>>}

\* Directory::delete: A first, then a listing of the directory; the root
\* directory has no "." entry, so a sub-directory of it is deleted recursively
\* while the listing is alive.
DeleteScripts     == {WithA(Index \o IndexDrop)}
RootDeleteScripts == {WithA(Index \o IndexDrop), WithA(Index \o Index \o IndexDrop \o IndexDrop)}

Scripts(k) ==
  CASE k = "volume"      -> VolumeScripts
    [] k = "open"        -> OpenScripts
    [] k = "create"      -> CreateScripts
    [] k = "dir_entry"   -> DirEntryScripts
    [] k = "dir_make"    -> DirMakeScripts
    [] k = "list"        -> ListScripts
    [] k = "file_io"     -> FileScripts
    [] k = "unsafe_io"   -> UnsafeScripts
    [] k = "into_reader" -> ReaderScripts
    [] k = "dir_delete"  -> DeleteScripts
    [] k = "root_delete" -> RootDeleteScripts

-----------------------------------------------------------------------------
Idle(c) == todo[c] = <<>>

\* Between calls, a live guard belongs to a handle the program keeps.
ListingAlive(c) == Idle(c) /\ held[c]["B"] > 0
ReaderAlive(c)  == Idle(c) /\ held[c]["A"] > 0

\* An operation of an unlocked file is running.
Unlocked(c) == ~Idle(c) /\ call[c] = "unsafe_io"

\* "Use only if sure that reads/writes will not happen on the same or multiple
\* files by different cores at the same!" (file.rs 546-547): an unlocked file is
\* used while no other core works on buffer A.
UsesA == CallNames \ {"list", "dir_entry"}
Alone(c, k) ==
  \A d \in Cores \ {c} :
    /\ k = "unsafe_io" => ~ReaderAlive(d) /\ (Idle(d) \/ call[d] \notin UsesA)
    /\ k \in UsesA => ~Unlocked(d)

Init ==
  /\ lock = [l \in Locks |-> FALSE]
  /\ held = [c \in Cores |-> [l \in Locks |-> 0]]
  /\ todo = [c \in Cores |-> <<>>]
  /\ call = [c \in Cores |-> "none"]
  /\ budget = [c \in Cores |-> MaxCalls]

Invoke(c) ==
  /\ Idle(c)
  /\ budget[c] > 0
  /\ Careful => ~ListingAlive(c) /\ ~ReaderAlive(c)
  /\ \E k \in Calls : \E script \in Scripts(k) :
       /\ Careful => Alone(c, k)
       /\ call' = [call EXCEPT ![c] = k]
       /\ todo' = [todo EXCEPT ![c] = script]
  /\ budget' = [budget EXCEPT ![c] = @ - 1]
  /\ UNCHANGED <<lock, held>>

\* The program drops a DirectoryIndex it kept.
DropListing(c) ==
  /\ ListingAlive(c)
  /\ todo' = [todo EXCEPT ![c] = IndexDrop]
  /\ UNCHANGED <<lock, held, call, budget>>

\* The program drops a Reader it kept, or turns it back into a File.
DropReader(c) ==
  /\ ReaderAlive(c)
  /\ todo' = [todo EXCEPT ![c] = <<Op("drop", "A")>>]
  /\ UNCHANGED <<lock, held, call, budget>>

Next1(c, kind) == ~Idle(c) /\ Head(todo[c]).do = kind
Advance(c) == todo' = [todo EXCEPT ![c] = Tail(@)] /\ UNCHANGED <<call, budget>>

\* Mutant: the claim does not wait.
ClaimAnyway(c) ==
  /\ Next1(c, "claim")
  /\ lock' = [lock EXCEPT ![Head(todo[c]).lock] = TRUE]
  /\ held' = [held EXCEPT ![c][Head(todo[c]).lock] = @ + 1]
  /\ Advance(c)

\* Cache::lfn, block_a, block_b: spin until the lock is free, whoever holds it.
Claim(c) ==
  /\ Next1(c, "claim")
  /\ LET l == Head(todo[c]).lock IN
       /\ ~lock[l]
       /\ lock' = [lock EXCEPT ![l] = TRUE]
       /\ held' = [held EXCEPT ![c][l] = @ + 1]
  /\ Advance(c)

\* Cache::block_a_nolock: a guard without a claim.
Borrow(c) ==
  /\ Next1(c, "borrow")
  /\ held' = [held EXCEPT ![c][Head(todo[c]).lock] = @ + 1]
  /\ Advance(c)
  /\ UNCHANGED lock

\* Mutant: the guard goes away but its lock stays.
DropKeepsLock(c) ==
  /\ Next1(c, "drop")
  /\ held[c][Head(todo[c]).lock] > 0
  /\ held' = [held EXCEPT ![c][Head(todo[c]).lock] = @ - 1]
  /\ Advance(c)
  /\ UNCHANGED lock

\* Drop for BlockPtr and LongNamePtr: the spinlock of the buffer is freed,
\* however the guard was made.  Only a live guard is dropped (ownership).
Drop(c) ==
  /\ Next1(c, "drop")
  /\ LET l == Head(todo[c]).lock IN
       /\ held[c][l] > 0
       /\ lock' = [lock EXCEPT ![l] = FALSE]
       /\ held' = [held EXCEPT ![c][l] = @ - 1]
  /\ Advance(c)

Step(c) == Invoke(c) \/ DropListing(c) \/ DropReader(c) \/ Claim(c) \/ Borrow(c) \/ Drop(c)

\* Every core made its calls and keeps no handle.
Finished == \A c \in Cores : Idle(c) /\ budget[c] = 0 /\ ~ListingAlive(c) /\ ~ReaderAlive(c)
Rest == Finished /\ UNCHANGED vars

Next == (\E c \in Cores : Step(c)) \/ Rest

Spec == Init /\ [][Next]_vars

\* A core keeps running the call it is in.  When it drops a handle it keeps is
\* the program's choice, which nothing promises.
Running(c) == Claim(c) \/ Borrow(c) \/ Drop(c)
FairSpec == Spec /\ \A c \in Cores : WF_vars(Running(c))

-----------------------------------------------------------------------------
(* Properties.                                                             *)

\* Every variable has its type.
TypeOK ==
  /\ lock \in [Locks -> BOOLEAN]
  /\ held \in [Cores -> [Locks -> Nat]]
  /\ todo \in [Cores -> Seq(Steps)]
  /\ call \in [Cores -> Calls \union {"none"}]
  /\ budget \in [Cores -> 0..MaxCalls]

\* A cache buffer never has two live guards, on one core or on two.
Exclusive ==
  \A l \in Locks :
    /\ \A c \in Cores : held[c][l] <= 1
    /\ \A c, d \in Cores : held[c][l] > 0 /\ held[d][l] > 0 => c = d

\* A spinlock is taken exactly while a guard that claimed it is alive.
LockTracksGuard ==
  \A l \in Locks : lock[l] <=> \E c \in Cores : held[c][l] > 0 /\ ~Unlocked(c)

\* The locking of the cache (fs.rs 74-128): a buffer never has two live guards,
\* so nothing overwrites a sector or a name another call still works on; no lock
\* is leaked by a call that returned and none is freed under a live guard.
GuardsOwn == Exclusive /\ LockTracksGuard

\* The guards are typed and own what they guard, on any core (fs.rs 74-128).
Consistent == TypeOK /\ GuardsOwn

\* fs.rs 47-49: block A stays locked while a Reader is alive.
ReaderKeepsLock == \A c \in Cores : ReaderAlive(c) => lock["A"]

Waits(c, l) == Next1(c, "claim") /\ Head(todo[c]).lock = l /\ lock[l]
SelfWait(c) == \E l \in Locks : Waits(c, l) /\ held[c][l] > 0

\* Two cores wait for each other: each spins on a lock the other holds.
CrossWait(c, d) ==
  /\ c # d
  /\ \E l, m \in Locks : Waits(c, l) /\ held[d][l] > 0 /\ Waits(d, m) /\ held[c][m] > 0

\* The only ways this code hangs when every handle is dropped before the next
\* call: a call that makes an entry claims L again (volume.rs 558), the deletion
\* of a sub-directory of the root claims B again (file.rs 919, 931), or a
\* Directory::delete, which takes A before B, meets a call that takes B before A.
HangsAreKnown ==
  /\ \A c \in Cores : SelfWait(c) => call[c] \in {"create", "dir_make", "root_delete"}
  /\ \A c, d \in Cores :
       CrossWait(c, d) => {call[c], call[d]} \intersect {"dir_delete", "root_delete"} # {}

Hung == \E c, d \in Cores : SelfWait(c) \/ CrossWait(c, d)

\* Core c spins on the lock of a listing or a Reader another core keeps.
BehindHandle(c) ==
  \E d \in Cores \ {c}, l \in Locks :
    Waits(c, l) /\ held[d][l] > 0 /\ (ListingAlive(d) \/ ReaderAlive(d))

\* As long as no core hangs in one of those ways, every call returns or waits for
\* a handle another core keeps: no other order of claims, and no spinlock that is
\* never freed, stops a core for ever (fs.rs 74-128).
ReturnsUnlessHung == <>Hung \/ \A c \in Cores : []<>(Idle(c) \/ BehindHandle(c))
=============================================================================
