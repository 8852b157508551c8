--------------------------- MODULE CacheLocks_proofs ---------------------------
(***************************************************************************)
(* Proofs about CacheLocks for every set of cores, every set of calls and  *)
(* every number of calls.                                                  *)
(***************************************************************************)
EXTENDS CacheLocks, TLAPS

\* Guard operations of the locked interface: no guard is made without a claim.
LockedSteps == [do : {"claim", "drop"}, lock : Locks]

\* Every script of a call of the locked interface only claims and drops.
LEMMA ScriptsLocked ==
  \A k \in CallNames \ {"unsafe_io"} : Scripts(k) \subseteq Seq(LockedSteps)
<1> DEFINE S == LockedSteps
<1>1. /\ <<>> \in Seq(S)
      /\ Index \in Seq(S)
      /\ IndexDrop \in Seq(S)
      /\ NewEntry \in Seq(S)
      /\ <<Op("claim", "A")>> \in Seq(S)
      /\ <<Op("drop", "A")>> \in Seq(S)
  BY DEF LockedSteps, Locks, Op, Index, IndexDrop, NewEntry
<1> HIDE DEF S
<1>2. \A s, t \in Seq(S) : s \o t \in Seq(S)
  OBVIOUS
<1>3. \A i \in Seq(S) : WithA(i) \in Seq(S)
  BY <1>1, <1>2 DEF WithA
<1>4. WithA(<<>>) \in Seq(S)
  BY <1>1, <1>3
<1>5. \A m \in Seq(S) : Index \o WithA(m) \o IndexDrop \in Seq(S)
  BY <1>1, <1>2, <1>3
<1>10. OpenScripts \subseteq Seq(S) /\ VolumeScripts \subseteq Seq(S) /\ ReaderScripts \subseteq Seq(S)
  BY <1>1, <1>4, <1>5 DEF OpenScripts, VolumeScripts, ReaderScripts
<1>6. CreateScripts \subseteq Seq(S)
  BY <1>1, <1>2, <1>5 DEF CreateScripts
<1>7. DirEntryScripts \subseteq Seq(S) /\ DirMakeScripts \subseteq Seq(S) /\ ListScripts \subseteq Seq(S)
  BY <1>1, <1>2, <1>5 DEF DirEntryScripts, DirMakeScripts, ListScripts
<1>8. FileScripts \subseteq Seq(S)
  <2>1. WithA(<<>>) \o WithA(<<>>) \in Seq(S)
    BY <1>2, <1>4
  <2> QED
    BY <1>4, <2>1 DEF FileScripts
<1>9. DeleteScripts \subseteq Seq(S) /\ RootDeleteScripts \subseteq Seq(S)
  BY <1>1, <1>2, <1>3 DEF DeleteScripts, RootDeleteScripts
<1> QED
  BY <1>6, <1>7, <1>8, <1>9, <1>10 DEF Scripts, CallNames, S

\* Every script of every call is a sequence of guard operations.
LEMMA ScriptsTyped == \A k \in CallNames : Scripts(k) \subseteq Seq(Steps)
<1>1. LockedSteps \subseteq Steps
  BY DEF LockedSteps, Steps
<1>2. Seq(LockedSteps) \subseteq Seq(Steps)
  BY <1>1
<1>3. UnsafeScripts \subseteq Seq(Steps)
  BY DEF UnsafeScripts, Op, Steps, Locks
<1>4. Scripts("unsafe_io") = UnsafeScripts
  BY DEF Scripts
<1> QED
  BY <1>2, <1>3, <1>4, ScriptsLocked

-----------------------------------------------------------------------------
\* Type correctness: whatever is called, in whatever order, the number of live
\* guards stays a natural number and what is left of a call is a script.
THEOREM TypeCorrect == Spec => []TypeOK
<1>1. Init => TypeOK
  BY BudgetAssumption DEF Init, TypeOK, Locks
<1>2. TypeOK /\ [Next]_vars => TypeOK'
  <2> SUFFICES ASSUME TypeOK, [Next]_vars PROVE TypeOK'
    OBVIOUS
  <2> USE DEF TypeOK
  <2>1. ASSUME NEW c \in Cores, Invoke(c) PROVE TypeOK'
    <3>1. PICK k \in Calls : \E script \in Scripts(k) :
            call' = [call EXCEPT ![c] = k] /\ todo' = [todo EXCEPT ![c] = script]
      BY <2>1 DEF Invoke
    <3>2. Scripts(k) \subseteq Seq(Steps)
      BY ScriptsTyped, CallsAssumption
    <3>3. budget' \in [Cores -> 0..MaxCalls]
      BY <2>1, BudgetAssumption DEF Invoke
    <3> QED
      BY <2>1, <3>1, <3>2, <3>3 DEF Invoke
  <2>2. IndexDrop \in Seq(Steps) /\ <<Op("drop", "A")>> \in Seq(Steps)
    BY DEF IndexDrop, Op, Steps, Locks
  <2>3. ASSUME NEW c \in Cores, DropListing(c) \/ DropReader(c) PROVE TypeOK'
    BY <2>2, <2>3 DEF DropListing, DropReader
  <2>4. ASSUME NEW c \in Cores, Advance(c), ~Idle(c)
        PROVE  /\ todo' \in [Cores -> Seq(Steps)]
               /\ Head(todo[c]) \in Steps
               /\ Head(todo[c]).lock \in Locks
    <3>1. todo[c] \in Seq(Steps) /\ todo[c] # <<>>
      BY <2>4 DEF Idle
    <3>2. Head(todo[c]) \in Steps /\ Tail(todo[c]) \in Seq(Steps)
      BY <3>1
    <3> QED
      BY <2>4, <3>2 DEF Advance, Steps
  <2>5. ASSUME NEW c \in Cores, Claim(c) PROVE TypeOK'
    <3> DEFINE l == Head(todo[c]).lock
    <3>1. /\ todo' \in [Cores -> Seq(Steps)]
          /\ l \in Locks
          /\ lock' = [lock EXCEPT ![l] = TRUE]
          /\ held' = [held EXCEPT ![c][l] = @ + 1]
          /\ call' = call /\ budget' = budget
      BY <2>4, <2>5 DEF Claim, Next1, Advance
    <3> HIDE DEF l
    <3>2. held' \in [Cores -> [Locks -> Nat]]
      BY <3>1
    <3> QED
      BY <3>1, <3>2
  <2>6. ASSUME NEW c \in Cores, Borrow(c) PROVE TypeOK'
    <3> DEFINE l == Head(todo[c]).lock
    <3>1. /\ todo' \in [Cores -> Seq(Steps)]
          /\ l \in Locks
          /\ lock' = lock
          /\ held' = [held EXCEPT ![c][l] = @ + 1]
          /\ call' = call /\ budget' = budget
      BY <2>4, <2>6 DEF Borrow, Next1, Advance
    <3> HIDE DEF l
    <3>2. held' \in [Cores -> [Locks -> Nat]]
      BY <3>1
    <3> QED
      BY <3>1, <3>2
  <2>7. ASSUME NEW c \in Cores, Drop(c) PROVE TypeOK'
    <3> DEFINE l == Head(todo[c]).lock
    <3>1. /\ todo' \in [Cores -> Seq(Steps)]
          /\ l \in Locks
          /\ held[c][l] > 0
          /\ lock' = [lock EXCEPT ![l] = FALSE]
          /\ held' = [held EXCEPT ![c][l] = @ - 1]
          /\ call' = call /\ budget' = budget
      BY <2>4, <2>7 DEF Drop, Next1, Advance
    <3> HIDE DEF l
    <3>2. held' \in [Cores -> [Locks -> Nat]]
      BY <3>1
    <3> QED
      BY <3>1, <3>2
  <2>8. CASE UNCHANGED vars
    BY <2>8 DEF vars
  <2> QED
    BY <2>1, <2>3, <2>5, <2>6, <2>7, <2>8 DEF Next, Step, Rest
<1> QED
  BY <1>1, <1>2, PTL DEF Spec

-----------------------------------------------------------------------------
\* The inductive invariant of the locked interface: no call ever makes a guard
\* without a claim, so the spinlock and the live guards agree.
LocksMatch == \A l \in Locks : lock[l] <=> \E c \in Cores : held[c][l] > 0

LockedInv ==
  /\ TypeOK
  /\ todo \in [Cores -> Seq(LockedSteps)]
  /\ Exclusive
  /\ LocksMatch

\* The step lemma of the locked interface.
LEMMA LockedStep ==
  ASSUME "unsafe_io" \notin Calls, LockedInv, TypeOK', [Next]_vars
  PROVE  LockedInv'
<1> USE DEF LockedInv
<1>1. ASSUME NEW c \in Cores, Invoke(c) PROVE LockedInv'
  <2>1. PICK k \in Calls : \E script \in Scripts(k) : todo' = [todo EXCEPT ![c] = script]
    BY <1>1 DEF Invoke
  <2>2. Scripts(k) \subseteq Seq(LockedSteps)
    BY ScriptsLocked, CallsAssumption
  <2> QED
    BY <1>1, <2>1, <2>2 DEF Invoke, Exclusive, LocksMatch
<1>2. IndexDrop \in Seq(LockedSteps) /\ <<Op("drop", "A")>> \in Seq(LockedSteps)
  BY DEF IndexDrop, Op, LockedSteps, Locks
<1>3. ASSUME NEW c \in Cores, DropListing(c) \/ DropReader(c) PROVE LockedInv'
  <2>1. todo' \in [Cores -> Seq(LockedSteps)]
    BY <1>2, <1>3 DEF DropListing, DropReader
  <2>2. lock' = lock /\ held' = held
    BY <1>3 DEF DropListing, DropReader
  <2>3. Exclusive' /\ LocksMatch'
    BY <2>2 DEF Exclusive, LocksMatch
  <2> QED
    BY <2>1, <2>3
<1>4. ASSUME NEW c \in Cores, Advance(c), ~Idle(c)
      PROVE  /\ todo' \in [Cores -> Seq(LockedSteps)]
             /\ Head(todo[c]).do \in {"claim", "drop"}
             /\ Head(todo[c]).lock \in Locks
  <2>1. todo[c] \in Seq(LockedSteps) /\ todo[c] # <<>>
    BY <1>4 DEF Idle
  <2>2. Head(todo[c]) \in LockedSteps /\ Tail(todo[c]) \in Seq(LockedSteps)
    BY <2>1
  <2> QED
    BY <1>4, <2>2 DEF Advance, LockedSteps
<1>5. ASSUME NEW c \in Cores, Claim(c) PROVE LockedInv'
  <2> DEFINE l == Head(todo[c]).lock
  <2>1. /\ todo' \in [Cores -> Seq(LockedSteps)]
        /\ l \in Locks
        /\ ~lock[l]
        /\ lock' = [lock EXCEPT ![l] = TRUE]
        /\ held' = [held EXCEPT ![c][l] = @ + 1]
    BY <1>4, <1>5 DEF Claim, Next1
  <2> HIDE DEF l
  <2>2. \A d \in Cores : held[d][l] = 0
    BY <2>1 DEF LocksMatch, TypeOK
  <2>3. \A m \in Locks, d \in Cores :
          held'[d][m] = IF d = c /\ m = l THEN 1 ELSE held[d][m]
    BY <2>1, <2>2 DEF TypeOK
  <2>4. Exclusive'
    <3>1. \A m \in Locks, d \in Cores : held'[d][m] <= 1
      BY <2>3 DEF Exclusive
    <3>2. ASSUME NEW m \in Locks, NEW d \in Cores, NEW e \in Cores,
                 held'[d][m] > 0, held'[e][m] > 0
          PROVE  d = e
      BY <2>2, <2>3, <3>2 DEF Exclusive
    <3> QED
      BY <3>1, <3>2 DEF Exclusive
  <2>5. LocksMatch'
    BY <2>1, <2>2, <2>3 DEF LocksMatch, TypeOK
  <2> QED
    BY <2>1, <2>4, <2>5
<1>6. ASSUME NEW c \in Cores, Borrow(c) PROVE LockedInv'
  BY <1>4, <1>6 DEF Borrow, Next1
<1>7. ASSUME NEW c \in Cores, Drop(c) PROVE LockedInv'
  <2> DEFINE l == Head(todo[c]).lock
  <2>1. /\ todo' \in [Cores -> Seq(LockedSteps)]
        /\ l \in Locks
        /\ held[c][l] > 0
        /\ lock' = [lock EXCEPT ![l] = FALSE]
        /\ held' = [held EXCEPT ![c][l] = @ - 1]
    BY <1>4, <1>7 DEF Drop, Next1
  <2> HIDE DEF l
  <2>2. held[c][l] = 1 /\ \A d \in Cores \ {c} : held[d][l] = 0
    BY <2>1 DEF Exclusive, TypeOK
  <2>3. \A m \in Locks, d \in Cores :
          held'[d][m] = IF d = c /\ m = l THEN 0 ELSE held[d][m]
    BY <2>1, <2>2 DEF TypeOK
  <2>4. Exclusive'
    <3>1. \A m \in Locks, d \in Cores : held'[d][m] <= 1
      BY <2>3 DEF Exclusive
    <3>2. ASSUME NEW m \in Locks, NEW d \in Cores, NEW e \in Cores,
                 held'[d][m] > 0, held'[e][m] > 0
          PROVE  d = e
      <4>1. held[d][m] > 0 /\ held[e][m] > 0
        BY ONLY <2>3, <3>2
      <4> QED
        BY <4>1 DEF Exclusive
    <3> QED
      BY <3>1, <3>2 DEF Exclusive
  <2>5. LocksMatch'
    BY <2>1, <2>2, <2>3 DEF LocksMatch, TypeOK
  <2> QED
    BY <2>1, <2>4, <2>5
<1>8. CASE UNCHANGED vars
  BY <1>8 DEF vars, Exclusive, LocksMatch
<1> QED
  BY <1>1, <1>3, <1>5, <1>6, <1>7, <1>8 DEF Next, Step, Rest

\* A program that never turns a File into an unlocked one never has two live
\* guards on a cache buffer, and a spinlock is taken exactly while a guard of
\* its buffer is alive, on any number of cores.
THEOREM LockedCallsExclude ==
  ASSUME "unsafe_io" \notin Calls
  PROVE  Spec => []GuardsOwn
<1>1. Init => LockedInv
  <2>1. Init => TypeOK
    BY BudgetAssumption DEF Init, TypeOK, Locks
  <2> QED
    BY <2>1 DEF Init, LockedInv, Exclusive, LocksMatch
<1>2. LockedInv /\ TypeOK' /\ [Next]_vars => LockedInv'
  BY LockedStep
<1>3. LockedInv => GuardsOwn
  <2>1. LockedInv => \A c \in Cores : ~Unlocked(c)
    BY DEF LockedInv, TypeOK, Unlocked
  <2> QED
    BY <2>1 DEF LockedInv, LocksMatch, LockTracksGuard, GuardsOwn
<1> QED
  BY <1>1, <1>2, <1>3, TypeCorrect, PTL DEF Spec

\* In such a program the guards are typed and own what they guard.
THEOREM SpecConsistent ==
  ASSUME "unsafe_io" \notin Calls
  PROVE  Spec => []Consistent
<1>1. TypeOK /\ GuardsOwn => Consistent
  BY DEF Consistent
<1> QED
  BY <1>1, TypeCorrect, LockedCallsExclude, PTL

\* In such a program block A stays locked until the Reader that keeps it is
\* dropped, as the comment of the cache says (fs.rs 47-49).
THEOREM LockedReaderKeepsLock ==
  ASSUME "unsafe_io" \notin Calls
  PROVE  Spec => []ReaderKeepsLock
<1>1. GuardsOwn => ReaderKeepsLock
  BY DEF GuardsOwn, LockTracksGuard, ReaderKeepsLock, ReaderAlive, Unlocked, Locks
<1> QED
  BY <1>1, LockedCallsExclude, PTL

-----------------------------------------------------------------------------
(* The scripts, position by position.                                      *)

Takes(op, l) == op \in {Op("claim", l), Op("borrow", l)}

\* After the first i operations of script s its core has a guard on buffer l.
Holds(s, i, l) ==
  \E j \in 1..i : Takes(s[j], l) /\ \A m \in (j + 1)..i : s[m] # Op("drop", l)

\* None of them waits for a guard of the same script.
Fresh(s, i) == \A j \in 1..i, l \in Locks : Takes(s[j], l) => ~Holds(s, j - 1, l)

\* The scripts a core may be in after call k, the drop of a Reader included.
Lives(k) ==
  CASE k = "none" -> {<<>>}
    [] k = "into_reader" -> ReaderScripts \union {WithA(<<>>)}
    [] OTHER -> Scripts(k)

\* The order of the claims of a call that deletes nothing.
Rank == [l \in Locks |-> CASE l = "B" -> 1 [] l = "L" -> 2 [] l = "A" -> 3]

Selfish == {"create", "dir_make", "root_delete"}
Deletes == {"dir_delete", "root_delete"}

\* What the scripts of call k have in common as far as they can be run: a claim of
\* what the script holds is made by the calls of Selfish alone, a claim out of
\* order by those of Deletes; an unlocked file stays with A, the calls that do not
\* use A stay away from it, and a guard outlives a listing or a Reader alone.
TidyAt(k, s, i, l) ==
  /\ s[i] = Op("claim", l) =>
       /\ k # "unsafe_io"
       /\ k \notin Selfish => ~Holds(s, i - 1, l)
       /\ k \notin Deletes =>
            Holds(s, i - 1, l) \/ \A m \in Locks : Holds(s, i - 1, m) => Rank[m] < Rank[l]
  /\ s[i] = Op("borrow", l) => k = "unsafe_io" /\ ~Holds(s, i - 1, l)

Tidy(k, s) ==
  /\ \A i \in 1..Len(s) :
       /\ s[i].lock = "A" => k \in UsesA
       /\ k = "unsafe_io" => s[i].lock = "A"
  /\ \A i \in 1..Len(s), l \in Locks : Fresh(s, i - 1) => TidyAt(k, s, i, l)
  /\ Fresh(s, Len(s)) =>
       /\ Holds(s, Len(s), "L") => Holds(s, Len(s), "B")
       /\ Holds(s, Len(s), "B") => k = "list" /\ s = Index
       /\ Holds(s, Len(s), "A") => k = "into_reader" /\ s = <<Op("claim", "A")>>

\* Operations are told apart by their kind and their lock.
LEMMA Ops ==
  \A a, b, c, d : /\ Op(a, b) = Op(c, d) <=> a = c /\ b = d
                  /\ Op(a, b).lock = b
  BY DEF Op

\* One more operation.
LEMMA HoldsStep ==
  ASSUME NEW s, NEW i \in Nat, NEW l
  PROVE  /\ ~Holds(s, 0, l)
         /\ Holds(s, i + 1, l) <=> Takes(s[i + 1], l) \/ (Holds(s, i, l) /\ s[i + 1] # Op("drop", l))
<1>1. Takes(s[i + 1], l) => s[i + 1] # Op("drop", l)
  BY Ops DEF Takes
<1>2. ASSUME Holds(s, i + 1, l) PROVE Takes(s[i + 1], l) \/ (Holds(s, i, l) /\ s[i + 1] # Op("drop", l))
  <2>1. PICK j \in 1..(i + 1) : Takes(s[j], l) /\ \A m \in (j + 1)..(i + 1) : s[m] # Op("drop", l)
    BY <1>2 DEF Holds
  <2>2. CASE j = i + 1
    BY <2>1, <2>2
  <2>3. CASE j \in 1..i
    BY <2>1, <2>3 DEF Holds
  <2> QED
    BY <2>2, <2>3
<1>3. ASSUME Takes(s[i + 1], l) PROVE Holds(s, i + 1, l)
  BY <1>3 DEF Holds
<1>4. ASSUME Holds(s, i, l), s[i + 1] # Op("drop", l) PROVE Holds(s, i + 1, l)
  <2>1. PICK j \in 1..i : Takes(s[j], l) /\ \A m \in (j + 1)..i : s[m] # Op("drop", l)
    BY <1>4 DEF Holds
  <2>2. j \in 1..(i + 1) /\ \A m \in (j + 1)..(i + 1) : m = i + 1 \/ m \in (j + 1)..i
    OBVIOUS
  <2> QED
    BY <1>4, <2>1, <2>2 DEF Holds
<1>5. ~Holds(s, 0, l)
  BY DEF Holds
<1> QED
  BY <1>2, <1>3, <1>4, <1>5

\* The first operations of a script.
LEMMA FirstSix ==
  ASSUME NEW s, NEW l
  PROVE  /\ ~Holds(s, 0, l)
         /\ Holds(s, 1, l) <=> Takes(s[1], l) \/ (Holds(s, 0, l) /\ s[1] # Op("drop", l))
         /\ Holds(s, 2, l) <=> Takes(s[2], l) \/ (Holds(s, 1, l) /\ s[2] # Op("drop", l))
         /\ Holds(s, 3, l) <=> Takes(s[3], l) \/ (Holds(s, 2, l) /\ s[3] # Op("drop", l))
         /\ Holds(s, 4, l) <=> Takes(s[4], l) \/ (Holds(s, 3, l) /\ s[4] # Op("drop", l))
         /\ Holds(s, 5, l) <=> Takes(s[5], l) \/ (Holds(s, 4, l) /\ s[5] # Op("drop", l))
         /\ Holds(s, 6, l) <=> Takes(s[6], l) \/ (Holds(s, 5, l) /\ s[6] # Op("drop", l))
<1>1. Holds(s, 0 + 1, l) <=> Takes(s[0 + 1], l) \/ (Holds(s, 0, l) /\ s[0 + 1] # Op("drop", l))
  BY HoldsStep
<1>2. Holds(s, 1 + 1, l) <=> Takes(s[1 + 1], l) \/ (Holds(s, 1, l) /\ s[1 + 1] # Op("drop", l))
  BY HoldsStep
<1>3. Holds(s, 2 + 1, l) <=> Takes(s[2 + 1], l) \/ (Holds(s, 2, l) /\ s[2 + 1] # Op("drop", l))
  BY HoldsStep
<1>4. Holds(s, 3 + 1, l) <=> Takes(s[3 + 1], l) \/ (Holds(s, 3, l) /\ s[3 + 1] # Op("drop", l))
  BY HoldsStep
<1>5. Holds(s, 4 + 1, l) <=> Takes(s[4 + 1], l) \/ (Holds(s, 4, l) /\ s[4 + 1] # Op("drop", l))
  BY HoldsStep
<1>6. Holds(s, 5 + 1, l) <=> Takes(s[5 + 1], l) \/ (Holds(s, 5, l) /\ s[5 + 1] # Op("drop", l))
  BY HoldsStep
<1> QED
  BY <1>1, <1>2, <1>3, <1>4, <1>5, <1>6, HoldsStep

\* Two sequences, one after the other.
LEMMA Joined ==
  ASSUME NEW S, NEW s \in Seq(S), NEW t \in Seq(S)
  PROVE  /\ s \o t \in Seq(S) /\ Len(s \o t) = Len(s) + Len(t)
         /\ \A i \in 1..Len(s) : (s \o t)[i] = s[i]
         /\ \A i \in 1..Len(t) : (s \o t)[Len(s) + i] = t[i]
  OBVIOUS

\* The pieces the scripts are made of.
LEMMA Pieces ==
  /\ Index \in Seq(Steps) /\ Len(Index) = 2 /\ Index[1] = Op("claim", "B") /\ Index[2] = Op("claim", "L")
  /\ IndexDrop \in Seq(Steps) /\ Len(IndexDrop) = 2
  /\ IndexDrop[1] = Op("drop", "B") /\ IndexDrop[2] = Op("drop", "L")
  /\ NewEntry \in Seq(Steps) /\ Len(NewEntry) = 2
  /\ NewEntry[1] = Op("claim", "L") /\ NewEntry[2] = Op("drop", "L")
  /\ <<>> \in Seq(Steps) /\ Len(<<>>) = 0
<1>1. \A k \in {"claim", "drop"}, l \in Locks : Op(k, l) \in Steps
  BY DEF Op, Steps
<1>2. \A x, y \in Steps : <<x, y>> \in Seq(Steps) /\ Len(<<x, y>>) = 2 /\ <<x, y>>[1] = x /\ <<x, y>>[2] = y
  OBVIOUS
<1>3. "A" \in Locks /\ "B" \in Locks /\ "L" \in Locks
  BY DEF Locks
<1> QED
  BY <1>1, <1>2, <1>3 DEF Index, IndexDrop, NewEntry

\* A script around buffer A.
LEMMA AroundA ==
  ASSUME NEW t \in Seq(Steps)
  PROVE  /\ WithA(t) \in Seq(Steps) /\ Len(WithA(t)) = Len(t) + 2
         /\ WithA(t)[1] = Op("claim", "A") /\ WithA(t)[Len(t) + 2] = Op("drop", "A")
         /\ \A i \in 1..Len(t) : WithA(t)[i + 1] = t[i]
<1> DEFINE a == <<Op("claim", "A")>>
<1> DEFINE b == <<Op("drop", "A")>>
<1>1. /\ a \in Seq(Steps) /\ Len(a) = 1 /\ a[1] = Op("claim", "A")
      /\ b \in Seq(Steps) /\ Len(b) = 1 /\ b[1] = Op("drop", "A")
  <2>1. Op("claim", "A") \in Steps /\ Op("drop", "A") \in Steps
    BY DEF Op, Steps, Locks
  <2> QED
    BY <2>1
<1>2. WithA(t) = a \o t \o b
  BY DEF WithA
<1> HIDE DEF a, b
<1> DEFINE u == a \o t
<1>3. /\ u \in Seq(Steps) /\ Len(u) = Len(a) + Len(t)
      /\ \A i \in 1..Len(a) : u[i] = a[i]
      /\ \A i \in 1..Len(t) : u[Len(a) + i] = t[i]
  BY ONLY <1>1, Joined, t \in Seq(Steps)
<1> HIDE DEF u
<1> DEFINE v == u \o b
<1>4. /\ v \in Seq(Steps) /\ Len(v) = Len(u) + Len(b)
      /\ \A i \in 1..Len(u) : v[i] = u[i]
      /\ \A i \in 1..Len(b) : v[Len(u) + i] = b[i]
  <2>1. u \in Seq(Steps) /\ b \in Seq(Steps)
    BY <1>1, <1>3
  <2> QED
    BY ONLY <2>1, Joined
<1> HIDE DEF v
<1>5. Len(t) \in Nat /\ WithA(t) = v
  BY <1>2 DEF u, v
<1>6. v[1] = Op("claim", "A") /\ \A i \in 1..Len(t) : v[i + 1] = t[i]
  BY <1>1, <1>3, <1>4, <1>5
<1>7. v[Len(t) + 2] = Op("drop", "A")
  BY <1>1, <1>3, <1>4, <1>5
<1> QED
  BY <1>1, <1>3, <1>4, <1>5, <1>6, <1>7

\* Buffer A alone.
LEMMA OnlyA ==
  /\ WithA(<<>>) \in Seq(Steps) /\ Len(WithA(<<>>)) = 2
  /\ WithA(<<>>)[1] = Op("claim", "A") /\ WithA(<<>>)[2] = Op("drop", "A")
<1> DEFINE t == <<>>
<1>1. t \in Seq(Steps) /\ Len(t) = 0
  BY Pieces
<1> HIDE DEF t
<1>2. /\ WithA(t) \in Seq(Steps) /\ Len(WithA(t)) = 2
      /\ WithA(t)[1] = Op("claim", "A") /\ WithA(t)[2] = Op("drop", "A")
  <2>1. /\ WithA(t) \in Seq(Steps) /\ Len(WithA(t)) = Len(t) + 2
        /\ WithA(t)[1] = Op("claim", "A") /\ WithA(t)[Len(t) + 2] = Op("drop", "A")
    BY <1>1, AroundA
  <2> QED
    BY <1>1, <2>1
<1> QED
  BY <1>2 DEF t

\* A listing around something.
LEMMA Listed ==
  ASSUME NEW t \in Seq(Steps)
  PROVE  LET s == Index \o t \o IndexDrop
         IN  /\ s \in Seq(Steps) /\ Len(s) = Len(t) + 4
             /\ s[1] = Op("claim", "B") /\ s[2] = Op("claim", "L")
             /\ \A i \in 1..Len(t) : s[i + 2] = t[i]
             /\ s[Len(t) + 3] = Op("drop", "B") /\ s[Len(t) + 4] = Op("drop", "L")
<1>0. t \in Seq(Steps) /\ Index \in Seq(Steps) /\ IndexDrop \in Seq(Steps)
  BY Pieces
<1> DEFINE u == Index \o t
<1>1. /\ u \in Seq(Steps) /\ Len(u) = Len(Index) + Len(t)
      /\ \A i \in 1..Len(Index) : u[i] = Index[i]
      /\ \A i \in 1..Len(t) : u[Len(Index) + i] = t[i]
  BY ONLY <1>0, Joined
<1> HIDE DEF u
<1> DEFINE v == u \o IndexDrop
<1>2. /\ v \in Seq(Steps) /\ Len(v) = Len(u) + Len(IndexDrop)
      /\ \A i \in 1..Len(u) : v[i] = u[i]
      /\ \A i \in 1..Len(IndexDrop) : v[Len(u) + i] = IndexDrop[i]
  <2>1. u \in Seq(Steps) /\ IndexDrop \in Seq(Steps)
    BY <1>0, <1>1
  <2> QED
    BY ONLY <2>1, Joined
<1> HIDE DEF v
<1>3. Len(t) \in Nat /\ Len(u) = 2 + Len(t)
  BY <1>1, Pieces
<1>4. v[1] = Op("claim", "B") /\ v[2] = Op("claim", "L") /\ \A i \in 1..Len(t) : v[i + 2] = t[i]
  BY <1>1, <1>2, <1>3, Pieces
<1>5. v[Len(t) + 3] = Op("drop", "B") /\ v[Len(t) + 4] = Op("drop", "L")
  <2>1. v[Len(u) + 1] = IndexDrop[1] /\ v[Len(u) + 2] = IndexDrop[2]
    BY <1>2, Pieces
  <2> QED
    BY <1>3, <2>1, Pieces
<1>6. v \in Seq(Steps) /\ Len(v) = Len(t) + 4
  BY <1>2, <1>3, Pieces
<1> QED
  BY <1>4, <1>5, <1>6 DEF u, v

\* The order of the locks.
LEMMA Ranks == Rank["B"] = 1 /\ Rank["L"] = 2 /\ Rank["A"] = 3
  BY DEF Rank, Locks

\* A listing alone.
LEMMA ListAlone ==
  LET s == Index \o IndexDrop
  IN  /\ s \in Seq(Steps) /\ Len(s) = 4 /\ s[1] = Op("claim", "B") /\ s[2] = Op("claim", "L")
      /\ s[3] = Op("drop", "B") /\ s[4] = Op("drop", "L")
<1> DEFINE s == Index \o IndexDrop
<1>1. /\ s \in Seq(Steps) /\ Len(s) = Len(Index) + Len(IndexDrop)
      /\ \A i \in 1..Len(Index) : s[i] = Index[i]
      /\ \A i \in 1..Len(IndexDrop) : s[Len(Index) + i] = IndexDrop[i]
  <2>1. Index \in Seq(Steps) /\ IndexDrop \in Seq(Steps)
    BY Pieces
  <2> QED
    BY ONLY <2>1, Joined
<1> HIDE DEF s
<1>2. s[2 + 1] = IndexDrop[1] /\ s[2 + 2] = IndexDrop[2]
  BY <1>1, Pieces
<1>3. /\ s \in Seq(Steps) /\ Len(s) = 4 /\ s[1] = Op("claim", "B") /\ s[2] = Op("claim", "L")
      /\ s[3] = Op("drop", "B") /\ s[4] = Op("drop", "L")
  BY <1>1, <1>2, Pieces
<1> QED
  BY <1>3 DEF s

\* An entry is opened: the listing, then buffer A.
LEMMA OpenTidy ==
  ASSUME NEW k \in UsesA \ {"unsafe_io"}
  PROVE  Tidy(k, Index \o WithA(<<>>) \o IndexDrop)
<1> DEFINE s == Index \o WithA(<<>>) \o IndexDrop
<1>1. /\ s \in Seq(Steps) /\ Len(s) = 6
      /\ s[1] = Op("claim", "B") /\ s[2] = Op("claim", "L") /\ s[3] = Op("claim", "A")
      /\ s[4] = Op("drop", "A") /\ s[5] = Op("drop", "B") /\ s[6] = Op("drop", "L")
  <2> DEFINE t == WithA(<<>>)
  <2>1. t \in Seq(Steps) /\ Len(t) = 2 /\ t[1] = Op("claim", "A") /\ t[2] = Op("drop", "A")
    BY OnlyA
  <2> HIDE DEF t
  <2>2. /\ s \in Seq(Steps) /\ Len(s) = Len(t) + 4
        /\ s[1] = Op("claim", "B") /\ s[2] = Op("claim", "L")
        /\ \A i \in 1..Len(t) : s[i + 2] = t[i]
        /\ s[Len(t) + 3] = Op("drop", "B") /\ s[Len(t) + 4] = Op("drop", "L")
    BY <2>1, Listed DEF t
  <2>3. s[1 + 2] = t[1] /\ s[2 + 2] = t[2]
    BY <2>1, <2>2
  <2> HIDE DEF s
  <2> QED
    BY <2>1, <2>2, <2>3
<1> HIDE DEF s
<1>2. /\ \A l \in Locks : ~Holds(s, 0, l)
      /\ \A l \in Locks : Holds(s, 1, l) <=> l = "B"
      /\ \A l \in Locks : Holds(s, 2, l) <=> l \in {"B", "L"}
      /\ \A l \in Locks : Holds(s, 3, l) <=> l \in {"B", "L", "A"}
      /\ \A l \in Locks : Holds(s, 4, l) <=> l \in {"B", "L"}
      /\ \A l \in Locks : Holds(s, 5, l) <=> l = "L"
      /\ \A l \in Locks : ~Holds(s, 6, l)
  BY <1>1, Ops, FirstSix DEF Takes, Locks
<1>3. ASSUME NEW l \in Locks PROVE TidyAt(k, s, 1, l) /\ TidyAt(k, s, 2, l) /\ TidyAt(k, s, 3, l)
  BY <1>1, <1>2, Ops, Ranks DEF TidyAt, Locks
<1>4. ASSUME NEW l \in Locks PROVE TidyAt(k, s, 4, l) /\ TidyAt(k, s, 5, l) /\ TidyAt(k, s, 6, l)
  BY <1>1, <1>2, Ops, Ranks DEF TidyAt, Locks
<1>5. \A i \in 1..6 : i = 1 \/ i = 2 \/ i = 3 \/ i = 4 \/ i = 5 \/ i = 6
  OBVIOUS
<1>6. Tidy(k, s)
  BY <1>1, <1>2, <1>3, <1>4, <1>5, Ops DEF Tidy, Locks
<1> QED
  BY <1>6 DEF s

\* A call that makes an entry runs as far as its second claim of L.
LEMMA SelfTidy ==
  ASSUME NEW k \in UsesA \ {"unsafe_io"}, k \in Selfish,
         NEW s \in Seq(Steps), Len(s) >= 4,
         s[1] = Op("claim", "B"), s[2] = Op("claim", "L"), s[3] = Op("claim", "A"), s[4] = Op("claim", "L")
  PROVE  Tidy(k, s)
<1>1. Len(s) \in Nat
  OBVIOUS
<1>2. /\ \A l \in Locks : ~Holds(s, 0, l)
      /\ \A l \in Locks : Holds(s, 1, l) <=> l = "B"
      /\ \A l \in Locks : Holds(s, 2, l) <=> l \in {"B", "L"}
      /\ \A l \in Locks : Holds(s, 3, l) <=> l \in {"B", "L", "A"}
  BY Ops, FirstSix DEF Takes, Locks
<1>3. ASSUME NEW i \in Nat, Fresh(s, i) PROVE i \in 0..3
  <2>1. SUFFICES ASSUME i >= 4 PROVE FALSE
    OBVIOUS
  <2>2. 4 \in 1..i /\ "L" \in Locks /\ Takes(s[4], "L") /\ Holds(s, 4 - 1, "L")
    BY <1>2, <2>1 DEF Takes, Locks
  <2> QED
    BY <1>3, <2>2 DEF Fresh
<1>4. ASSUME NEW l \in Locks PROVE TidyAt(k, s, 1, l) /\ TidyAt(k, s, 2, l)
  BY <1>2, Ops, Ranks DEF TidyAt, Locks
<1>5. ASSUME NEW l \in Locks PROVE TidyAt(k, s, 3, l) /\ TidyAt(k, s, 4, l)
  BY <1>2, Ops, Ranks DEF TidyAt, Locks
<1>6. \A i \in 1..Len(s), l \in Locks : Fresh(s, i - 1) => TidyAt(k, s, i, l)
  <2>1. SUFFICES ASSUME NEW i \in 1..Len(s), NEW l \in Locks, Fresh(s, i - 1) PROVE TidyAt(k, s, i, l)
    OBVIOUS
  <2>2. i - 1 \in 0..3
    BY <1>3, <2>1
  <2>3. i = 1 \/ i = 2 \/ i = 3 \/ i = 4
    BY <2>2
  <2> QED
    BY <1>4, <1>5, <2>3
<1>7. ~Fresh(s, Len(s))
  BY <1>1, <1>3
<1> QED
  BY <1>6, <1>7 DEF Tidy

\* A directory deletes a sub-directory of the root as far as its second claim of B.
LEMMA RootTidy ==
  ASSUME NEW s \in Seq(Steps), Len(s) >= 4,
         s[1] = Op("claim", "A"), s[2] = Op("claim", "B"), s[3] = Op("claim", "L"), s[4] = Op("claim", "B")
  PROVE  Tidy("root_delete", s)
<1>1. /\ Len(s) \in Nat /\ "root_delete" \in Selfish /\ "root_delete" \in Deletes
      /\ "root_delete" \in UsesA /\ "root_delete" # "unsafe_io"
  BY DEF Selfish, Deletes, UsesA, CallNames
<1>2. /\ \A l \in Locks : ~Holds(s, 0, l)
      /\ \A l \in Locks : Holds(s, 1, l) <=> l = "A"
      /\ \A l \in Locks : Holds(s, 2, l) <=> l \in {"A", "B"}
      /\ \A l \in Locks : Holds(s, 3, l) <=> l \in {"B", "L", "A"}
  BY Ops, FirstSix DEF Takes, Locks
<1>3. ASSUME NEW i \in Nat, Fresh(s, i) PROVE i \in 0..3
  <2>1. SUFFICES ASSUME i >= 4 PROVE FALSE
    OBVIOUS
  <2>2. 4 \in 1..i /\ "B" \in Locks /\ Takes(s[4], "B") /\ Holds(s, 4 - 1, "B")
    BY <1>2, <2>1 DEF Takes, Locks
  <2> QED
    BY <1>3, <2>2 DEF Fresh
<1>4. ASSUME NEW l \in Locks
      PROVE  /\ TidyAt("root_delete", s, 1, l) /\ TidyAt("root_delete", s, 2, l)
             /\ TidyAt("root_delete", s, 3, l) /\ TidyAt("root_delete", s, 4, l)
  BY <1>1, Ops DEF TidyAt
<1>5. \A i \in 1..Len(s), l \in Locks : Fresh(s, i - 1) => TidyAt("root_delete", s, i, l)
  <2>1. SUFFICES ASSUME NEW i \in 1..Len(s), NEW l \in Locks, Fresh(s, i - 1)
                 PROVE  TidyAt("root_delete", s, i, l)
    OBVIOUS
  <2>2. i - 1 \in 0..3
    BY <1>3, <2>1
  <2>3. i = 1 \/ i = 2 \/ i = 3 \/ i = 4
    BY <2>2
  <2> QED
    BY <1>4, <2>3
<1>6. ~Fresh(s, Len(s))
  BY <1>1, <1>3
<1> QED
  BY <1>1, <1>5, <1>6 DEF Tidy

\* A directory deletes an entry: A first, then the listing.
LEMMA DeleteTidy ==
  ASSUME NEW k \in Deletes
  PROVE  Tidy(k, WithA(Index \o IndexDrop))
<1> DEFINE s == WithA(Index \o IndexDrop)
<1>1. /\ s \in Seq(Steps) /\ Len(s) = 6
      /\ s[1] = Op("claim", "A") /\ s[2] = Op("claim", "B") /\ s[3] = Op("claim", "L")
      /\ s[4] = Op("drop", "B") /\ s[5] = Op("drop", "L") /\ s[6] = Op("drop", "A")
  <2> DEFINE t == Index \o IndexDrop
  <2>1. /\ t \in Seq(Steps) /\ Len(t) = 4 /\ t[1] = Op("claim", "B") /\ t[2] = Op("claim", "L")
        /\ t[3] = Op("drop", "B") /\ t[4] = Op("drop", "L")
    BY ListAlone
  <2> HIDE DEF t
  <2>2. /\ s \in Seq(Steps) /\ Len(s) = Len(t) + 2
        /\ s[1] = Op("claim", "A") /\ s[Len(t) + 2] = Op("drop", "A")
        /\ \A i \in 1..Len(t) : s[i + 1] = t[i]
    BY <2>1, AroundA DEF t
  <2>3. s[1 + 1] = t[1] /\ s[2 + 1] = t[2] /\ s[3 + 1] = t[3] /\ s[4 + 1] = t[4]
    BY <2>1, <2>2
  <2> HIDE DEF s
  <2> QED
    BY <2>1, <2>2, <2>3
<1> HIDE DEF s
<1>2. /\ \A l \in Locks : ~Holds(s, 0, l)
      /\ \A l \in Locks : Holds(s, 1, l) <=> l = "A"
      /\ \A l \in Locks : Holds(s, 2, l) <=> l \in {"A", "B"}
      /\ \A l \in Locks : Holds(s, 3, l) <=> l \in {"B", "L", "A"}
      /\ \A l \in Locks : Holds(s, 4, l) <=> l \in {"A", "L"}
      /\ \A l \in Locks : Holds(s, 5, l) <=> l = "A"
      /\ \A l \in Locks : ~Holds(s, 6, l)
  BY <1>1, Ops, FirstSix DEF Takes, Locks
<1>3. k \in UsesA /\ k # "unsafe_io"
  BY DEF Deletes, UsesA, CallNames
<1>4. ASSUME NEW l \in Locks PROVE TidyAt(k, s, 1, l) /\ TidyAt(k, s, 2, l) /\ TidyAt(k, s, 3, l)
  BY <1>1, <1>2, <1>3, Ops DEF TidyAt, Locks
<1>5. ASSUME NEW l \in Locks PROVE TidyAt(k, s, 4, l) /\ TidyAt(k, s, 5, l) /\ TidyAt(k, s, 6, l)
  BY <1>1, <1>2, <1>3, Ops DEF TidyAt, Locks
<1>6. \A i \in 1..6 : i = 1 \/ i = 2 \/ i = 3 \/ i = 4 \/ i = 5 \/ i = 6
  OBVIOUS
<1>7. Tidy(k, s)
  BY <1>1, <1>2, <1>3, <1>4, <1>5, <1>6, Ops DEF Tidy, Locks
<1> QED
  BY <1>7 DEF s

\* A listing, dropped at once or kept.
LEMMA ListTidy ==
  /\ \A k \in CallNames \ {"unsafe_io"} : Tidy(k, Index \o IndexDrop)
  /\ Tidy("list", Index)
<1>1. ASSUME NEW k \in CallNames \ {"unsafe_io"} PROVE Tidy(k, Index \o IndexDrop)
  <2> DEFINE s == Index \o IndexDrop
  <2>1. /\ s \in Seq(Steps) /\ Len(s) = 4 /\ s[1] = Op("claim", "B") /\ s[2] = Op("claim", "L")
        /\ s[3] = Op("drop", "B") /\ s[4] = Op("drop", "L")
    BY ListAlone
  <2> HIDE DEF s
  <2>2. /\ \A l \in Locks : ~Holds(s, 0, l)
        /\ \A l \in Locks : Holds(s, 1, l) <=> l = "B"
        /\ \A l \in Locks : Holds(s, 2, l) <=> l \in {"B", "L"}
        /\ \A l \in Locks : Holds(s, 3, l) <=> l = "L"
        /\ \A l \in Locks : ~Holds(s, 4, l)
    BY <2>1, Ops, FirstSix DEF Takes, Locks
  <2>3. ASSUME NEW l \in Locks
        PROVE  TidyAt(k, s, 1, l) /\ TidyAt(k, s, 2, l) /\ TidyAt(k, s, 3, l) /\ TidyAt(k, s, 4, l)
    BY <2>1, <2>2, Ops, Ranks DEF TidyAt, Locks
  <2>4. \A i \in 1..4 : i = 1 \/ i = 2 \/ i = 3 \/ i = 4
    OBVIOUS
  <2>5. Tidy(k, s)
    BY <2>1, <2>2, <2>3, <2>4, Ops DEF Tidy, Locks
  <2> QED
    BY <2>5 DEF s
<1>2. Tidy("list", Index)
  <2>1. /\ \A l \in Locks : ~Holds(Index, 0, l)
        /\ \A l \in Locks : Holds(Index, 1, l) <=> l = "B"
        /\ \A l \in Locks : Holds(Index, 2, l) <=> l \in {"B", "L"}
    BY Pieces, Ops, FirstSix DEF Takes, Locks
  <2>2. ASSUME NEW l \in Locks PROVE TidyAt("list", Index, 1, l) /\ TidyAt("list", Index, 2, l)
    BY <2>1, Pieces, Ops, Ranks DEF TidyAt, Locks
  <2>3. \A i \in 1..2 : i = 1 \/ i = 2
    OBVIOUS
  <2> QED
    BY <2>1, <2>2, <2>3, Pieces, Ops DEF Tidy, Locks
<1> QED
  BY <1>1, <1>2

\* Buffer A once, twice, or kept by a Reader.
LEMMA FileTidy ==
  /\ \A k \in UsesA \ {"unsafe_io"} : Tidy(k, WithA(<<>>)) /\ Tidy(k, WithA(<<>>) \o WithA(<<>>))
  /\ Tidy("into_reader", <<Op("claim", "A")>>)
  /\ \A k \in CallNames \union {"none"} : Tidy(k, <<>>)
<1> DEFINE a == WithA(<<>>)
<1>1. a \in Seq(Steps) /\ Len(a) = 2 /\ a[1] = Op("claim", "A") /\ a[2] = Op("drop", "A")
  BY OnlyA
<1> HIDE DEF a
<1>2. ASSUME NEW k \in UsesA \ {"unsafe_io"} PROVE Tidy(k, a)
  <2>1. /\ \A l \in Locks : ~Holds(a, 0, l) /\ (Holds(a, 1, l) <=> l = "A") /\ ~Holds(a, 2, l)
    BY <1>1, Ops, FirstSix DEF Takes, Locks
  <2>2. ASSUME NEW l \in Locks PROVE TidyAt(k, a, 1, l) /\ TidyAt(k, a, 2, l)
    BY <1>1, <2>1, Ops DEF TidyAt
  <2>3. \A i \in 1..2 : i = 1 \/ i = 2
    OBVIOUS
  <2> QED
    BY <1>1, <2>1, <2>2, <2>3 DEF Tidy, Locks
<1>3. ASSUME NEW k \in UsesA \ {"unsafe_io"} PROVE Tidy(k, a \o a)
  <2> DEFINE s == a \o a
  <2>1. /\ s \in Seq(Steps) /\ Len(s) = 4 /\ s[1] = Op("claim", "A") /\ s[2] = Op("drop", "A")
        /\ s[3] = Op("claim", "A") /\ s[4] = Op("drop", "A")
    <3>1. /\ s \in Seq(Steps) /\ Len(s) = Len(a) + Len(a)
          /\ \A i \in 1..Len(a) : s[i] = a[i]
          /\ \A i \in 1..Len(a) : s[Len(a) + i] = a[i]
      <4>1. a \in Seq(Steps)
        BY <1>1
      <4> QED
        BY ONLY <4>1, Joined
    <3> HIDE DEF s
    <3>2. s[2 + 1] = a[1] /\ s[2 + 2] = a[2]
      BY <1>1, <3>1
    <3> QED
      BY <1>1, <3>1, <3>2
  <2> HIDE DEF s
  <2>2. \A l \in Locks :
          /\ ~Holds(s, 0, l) /\ (Holds(s, 1, l) <=> l = "A") /\ ~Holds(s, 2, l)
          /\ (Holds(s, 3, l) <=> l = "A") /\ ~Holds(s, 4, l)
    BY <2>1, Ops, FirstSix DEF Takes, Locks
  <2>3. ASSUME NEW l \in Locks
        PROVE  TidyAt(k, s, 1, l) /\ TidyAt(k, s, 2, l) /\ TidyAt(k, s, 3, l) /\ TidyAt(k, s, 4, l)
    BY <2>1, <2>2, Ops DEF TidyAt
  <2>4. \A i \in 1..4 : i = 1 \/ i = 2 \/ i = 3 \/ i = 4
    OBVIOUS
  <2>5. Tidy(k, s)
    BY <2>1, <2>2, <2>3, <2>4 DEF Tidy, Locks
  <2> QED
    BY <2>5 DEF s
<1>4. Tidy("into_reader", <<Op("claim", "A")>>)
  <2> DEFINE s == <<Op("claim", "A")>>
  <2>1. Len(s) = 1 /\ s[1] = Op("claim", "A")
    OBVIOUS
  <2> HIDE DEF s
  <2>2. /\ "into_reader" \in UsesA
        /\ \A l \in Locks : ~Holds(s, 0, l) /\ (Holds(s, 1, l) <=> l = "A")
    BY <2>1, Ops, FirstSix DEF Takes, Locks, UsesA, CallNames
  <2>3. ASSUME NEW l \in Locks PROVE TidyAt("into_reader", s, 1, l)
    BY <2>1, <2>2, Ops DEF TidyAt
  <2>4. Tidy("into_reader", s)
    BY <2>1, <2>2, <2>3 DEF Tidy, Locks, s
  <2> QED
    BY <2>4 DEF s
<1>5. ASSUME NEW k \in CallNames \union {"none"} PROVE Tidy(k, <<>>)
  <2> DEFINE s == <<>>
  <2>1. Len(s) = 0
    OBVIOUS
  <2> HIDE DEF s
  <2>2. Tidy(k, s)
    BY <2>1, FirstSix DEF Tidy
  <2> QED
    BY <2>2 DEF s
<1> QED
  BY <1>2, <1>3, <1>4, <1>5 DEF a

\* An unlocked file makes guards of A and drops them.
LEMMA UnsafeTidy == \A s \in UnsafeScripts : s \in Seq(Steps) /\ Tidy("unsafe_io", s)
<1> DEFINE u == <<Op("borrow", "A"), Op("drop", "A")>>
<1>1. u \in Seq(Steps) /\ Len(u) = 2 /\ u[1] = Op("borrow", "A") /\ u[2] = Op("drop", "A")
  <2>1. Op("borrow", "A") \in Steps /\ Op("drop", "A") \in Steps
    BY DEF Op, Steps, Locks
  <2> QED
    BY <2>1
<1>2. UnsafeScripts = {u, u \o u}
  BY DEF UnsafeScripts
<1> HIDE DEF u
<1>3. "unsafe_io" \in UsesA
  BY DEF UsesA, CallNames
<1>4. Tidy("unsafe_io", u)
  <2>1. \A l \in Locks : ~Holds(u, 0, l) /\ (Holds(u, 1, l) <=> l = "A") /\ ~Holds(u, 2, l)
    BY <1>1, Ops, FirstSix DEF Takes, Locks
  <2>2. ASSUME NEW l \in Locks PROVE TidyAt("unsafe_io", u, 1, l) /\ TidyAt("unsafe_io", u, 2, l)
    BY <1>1, <2>1, Ops DEF TidyAt
  <2>3. \A i \in 1..2 : i = 1 \/ i = 2
    OBVIOUS
  <2> QED
    BY <1>1, <1>3, <2>1, <2>2, <2>3, Ops DEF Tidy, Locks
<1>5. u \o u \in Seq(Steps) /\ Tidy("unsafe_io", u \o u)
  <2> DEFINE s == u \o u
  <2>1. /\ s \in Seq(Steps) /\ Len(s) = 4 /\ s[1] = Op("borrow", "A") /\ s[2] = Op("drop", "A")
        /\ s[3] = Op("borrow", "A") /\ s[4] = Op("drop", "A")
    <3>1. /\ s \in Seq(Steps) /\ Len(s) = Len(u) + Len(u)
          /\ \A i \in 1..Len(u) : s[i] = u[i]
          /\ \A i \in 1..Len(u) : s[Len(u) + i] = u[i]
      <4>1. u \in Seq(Steps)
        BY <1>1
      <4> QED
        BY ONLY <4>1, Joined
    <3> HIDE DEF s
    <3>2. s[2 + 1] = u[1] /\ s[2 + 2] = u[2]
      BY <1>1, <3>1
    <3> QED
      BY <1>1, <3>1, <3>2
  <2> HIDE DEF s
  <2>2. \A l \in Locks :
          /\ ~Holds(s, 0, l) /\ (Holds(s, 1, l) <=> l = "A") /\ ~Holds(s, 2, l)
          /\ (Holds(s, 3, l) <=> l = "A") /\ ~Holds(s, 4, l)
    BY <2>1, Ops, FirstSix DEF Takes, Locks
  <2>3. ASSUME NEW l \in Locks
        PROVE  /\ TidyAt("unsafe_io", s, 1, l) /\ TidyAt("unsafe_io", s, 2, l)
               /\ TidyAt("unsafe_io", s, 3, l) /\ TidyAt("unsafe_io", s, 4, l)
    BY <2>1, <2>2, Ops DEF TidyAt
  <2>4. \A i \in 1..4 : i = 1 \/ i = 2 \/ i = 3 \/ i = 4
    OBVIOUS
  <2>5. Tidy("unsafe_io", s)
    BY <1>3, <2>1, <2>2, <2>3, <2>4, Ops DEF Tidy, Locks
  <2> QED
    BY <2>1, <2>5 DEF s
<1> QED
  BY <1>1, <1>2, <1>4, <1>5

\* An entry is made, and maybe one for its parent.
LEMMA MadeTidy ==
  ASSUME NEW k \in UsesA \ {"unsafe_io"}, k \in Selfish,
         NEW t \in {NewEntry, NewEntry \o NewEntry}
  PROVE  Tidy(k, Index \o WithA(t) \o IndexDrop)
<1>1. t \in Seq(Steps) /\ Len(t) >= 2 /\ t[1] = Op("claim", "L")
  <2>1. CASE t = NewEntry
    BY <2>1, Pieces
  <2>2. CASE t = NewEntry \o NewEntry
    <3>1. /\ t \in Seq(Steps) /\ Len(t) = Len(NewEntry) + Len(NewEntry)
          /\ \A i \in 1..Len(NewEntry) : t[i] = NewEntry[i]
      <4>1. NewEntry \in Seq(Steps)
        BY Pieces
      <4> QED
        BY <2>2, <4>1, Joined
    <3> QED
      BY <3>1, Pieces
  <2> QED
    BY <2>1, <2>2
<1> DEFINE w == WithA(t)
<1>2. /\ w \in Seq(Steps) /\ Len(w) = Len(t) + 2 /\ w[1] = Op("claim", "A")
      /\ \A i \in 1..Len(t) : w[i + 1] = t[i]
  BY <1>1, AroundA
<1>3. w[1 + 1] = Op("claim", "L")
  BY <1>1, <1>2
<1> HIDE DEF w
<1> DEFINE s == Index \o w \o IndexDrop
<1>4. /\ s \in Seq(Steps) /\ Len(s) = Len(w) + 4
      /\ s[1] = Op("claim", "B") /\ s[2] = Op("claim", "L")
      /\ \A i \in 1..Len(w) : s[i + 2] = w[i]
  BY <1>2, Listed
<1> HIDE DEF s
<1>5. s[1 + 2] = w[1] /\ s[2 + 2] = w[2]
  BY <1>1, <1>2, <1>4
<1>6. Tidy(k, s)
  BY <1>1, <1>2, <1>3, <1>4, <1>5, SelfTidy
<1> QED
  BY <1>6 DEF s, w

\* A sub-directory of the root is deleted while the listing is alive.
LEMMA RootListTidy == Tidy("root_delete", WithA(Index \o Index \o IndexDrop \o IndexDrop))
<1> DEFINE u == Index \o Index
<1>0. Index \in Seq(Steps) /\ IndexDrop \in Seq(Steps)
  BY Pieces
<1>1. /\ u \in Seq(Steps) /\ Len(u) = Len(Index) + Len(Index)
      /\ \A i \in 1..Len(Index) : u[i] = Index[i]
      /\ \A i \in 1..Len(Index) : u[Len(Index) + i] = Index[i]
  BY ONLY <1>0, Joined
<1> HIDE DEF u
<1>2. Len(u) = 4 /\ u[1] = Op("claim", "B") /\ u[2] = Op("claim", "L") /\ u[2 + 1] = Op("claim", "B")
  BY <1>1, Pieces
<1> DEFINE v == u \o IndexDrop
<1>3. v \in Seq(Steps) /\ Len(v) = Len(u) + Len(IndexDrop) /\ \A i \in 1..Len(u) : v[i] = u[i]
  <2>1. u \in Seq(Steps) /\ IndexDrop \in Seq(Steps)
    BY <1>0, <1>1
  <2> QED
    BY ONLY <2>1, Joined
<1> HIDE DEF v
<1> DEFINE t == v \o IndexDrop
<1>4. t \in Seq(Steps) /\ Len(t) = Len(v) + Len(IndexDrop) /\ \A i \in 1..Len(v) : t[i] = v[i]
  <2>1. v \in Seq(Steps) /\ IndexDrop \in Seq(Steps)
    BY <1>0, <1>3
  <2> QED
    BY ONLY <2>1, Joined
<1> HIDE DEF t
<1>5. /\ Len(t) = 8 /\ t[1] = Op("claim", "B") /\ t[2] = Op("claim", "L") /\ t[3] = Op("claim", "B")
  BY <1>2, <1>3, <1>4, Pieces
<1> DEFINE s == WithA(t)
<1>6. /\ s \in Seq(Steps) /\ Len(s) = Len(t) + 2 /\ s[1] = Op("claim", "A")
      /\ \A i \in 1..Len(t) : s[i + 1] = t[i]
  BY <1>4, AroundA
<1> HIDE DEF s
<1>7. s[1 + 1] = t[1] /\ s[2 + 1] = t[2] /\ s[3 + 1] = t[3]
  BY <1>5, <1>6
<1>8. Tidy("root_delete", s)
  BY <1>5, <1>6, <1>7, RootTidy
<1> QED
  BY <1>8 DEF s, t, v, u

\* Every script of every call is tidy.
LEMMA LivesTidy ==
  ASSUME NEW k \in CallNames \union {"none"}, NEW s \in Lives(k)
  PROVE  s \in Seq(Steps) /\ Tidy(k, s)
<1>1. s \in Seq(Steps)
  <2>1. CASE k = "none"
    BY <2>1, Pieces DEF Lives
  <2>2. CASE k # "none" /\ s \in Scripts(k)
    BY <2>2, ScriptsTyped
  <2>3. CASE s = WithA(<<>>)
    BY <2>3, OnlyA
  <2> QED
    BY <2>1, <2>2, <2>3 DEF Lives, Scripts
<1> USE DEF Lives, Scripts
<1>2. CASE k \in {"none", "into_reader", "volume", "file_io"}
  <2>1. {"into_reader", "volume", "file_io"} \subseteq UsesA \ {"unsafe_io"}
    BY DEF UsesA, CallNames
  <2> QED
    BY <1>1, <1>2, <2>1, FileTidy DEF ReaderScripts, VolumeScripts, FileScripts
<1>3. CASE k = "unsafe_io"
  BY <1>3, UnsafeTidy
<1>4. CASE k \in {"open", "create", "dir_make"}
  <2>1. k \in UsesA \ {"unsafe_io"} /\ k \in CallNames \ {"unsafe_io"} /\ (k # "open" => k \in Selfish)
    BY <1>4 DEF UsesA, CallNames, Selfish
  <2>2. \/ s = Index \o WithA(<<>>) \o IndexDrop
        \/ s = Index \o IndexDrop
        \/ k # "open" /\ \E t \in {NewEntry, NewEntry \o NewEntry} : s = Index \o WithA(t) \o IndexDrop
    BY <1>4 DEF OpenScripts, CreateScripts, DirMakeScripts
  <2> QED
    BY <1>1, <2>1, <2>2, OpenTidy, ListTidy, MadeTidy
<1>5. CASE k \in {"dir_entry", "list"}
  <2>1. k \in CallNames \ {"unsafe_io"}
    BY <1>5 DEF CallNames
  <2> QED
    BY <1>1, <1>5, <2>1, ListTidy DEF DirEntryScripts, ListScripts
<1>6. CASE k \in Deletes
  BY <1>1, <1>6, DeleteTidy, RootListTidy DEF Deletes, DeleteScripts, RootDeleteScripts
<1> QED
  BY <1>2, <1>3, <1>4, <1>5, <1>6 DEF CallNames, Deletes

-----------------------------------------------------------------------------
(* The inductive invariant of a careful program, unlocked files included.  *)

\* A core has run a part of one of the scripts of its call, and its guards are the
\* ones that part has made and not dropped.
At(c, s, i) ==
  /\ s \in Lives(call[c]) /\ i \in 0..Len(s)
  /\ todo[c] = SubSeq(s, i + 1, Len(s))
  /\ Fresh(s, i)
  /\ \A l \in Locks : held[c][l] > 0 <=> Holds(s, i, l)
PathInv == \A c \in Cores : \E s, i : At(c, s, i)

\* While a core uses an unlocked file no other core has or wants buffer A.
AloneInv ==
  \A c, d \in Cores : c # d /\ Unlocked(c) =>
    held[d]["A"] = 0 /\ (Idle(d) \/ call[d] \notin UsesA)

CarefulInv == TypeOK /\ GuardsOwn /\ PathInv /\ AloneInv

\* The rest of a sequence.
LEMMA RestOf ==
  ASSUME NEW S, NEW s \in Seq(S), NEW i \in 0..Len(s)
  PROVE  LET t == SubSeq(s, i + 1, Len(s))
         IN  /\ t = <<>> <=> i = Len(s)
             /\ i < Len(s) => Head(t) = s[i + 1] /\ Tail(t) = SubSeq(s, (i + 1) + 1, Len(s))
<1> DEFINE t == SubSeq(s, i + 1, Len(s))
           u == SubSeq(s, (i + 1) + 1, Len(s))
<1>1. t \in Seq(S) /\ Len(t) = Len(s) - i /\ \A j \in 1..(Len(s) - i) : t[j] = s[i + j]
  OBVIOUS
<1>2. i < Len(s) => /\ u \in Seq(S) /\ Len(u) = Len(s) - i - 1
                    /\ \A j \in 1..(Len(s) - i - 1) : u[j] = s[i + 1 + j]
  OBVIOUS
<1> HIDE DEF t, u
<1>3. t = <<>> <=> i = Len(s)
  BY <1>1
<1>4. ASSUME i < Len(s) PROVE Head(t) = s[i + 1] /\ Tail(t) = u
  <2>1. Head(t) = s[i + 1]
    BY <1>1, <1>4
  <2>2. Len(s) \in Nat /\ Len(t) > 0 /\ Len(t) - 1 = Len(s) - i - 1
    BY <1>1, <1>4
  <2>3. Tail(t) \in Seq(S) /\ Len(Tail(t)) = Len(t) - 1 /\ \A j \in 1..(Len(t) - 1) : Tail(t)[j] = t[j + 1]
    BY <1>1, <2>2
  <2>4. \A j \in 1..(Len(t) - 1) : t[j + 1] = u[j]
    <3>1. ASSUME NEW j \in 1..(Len(t) - 1) PROVE t[j + 1] = u[j]
      <4>1. j + 1 \in 1..(Len(s) - i) /\ i + (j + 1) = i + 1 + j /\ j \in 1..(Len(s) - i - 1)
        BY <2>2
      <4> QED
        BY <1>1, <1>2, <1>4, <4>1
    <3> QED
      BY <3>1
  <2>5. Len(Tail(t)) = Len(u) /\ \A j \in 1..Len(u) : Tail(t)[j] = u[j]
    BY <1>2, <1>4, <2>2, <2>3, <2>4
  <2>6. Tail(t) = u
    BY <1>2, <1>4, <2>3, <2>5
  <2> QED
    BY <2>1, <2>6
<1> QED
  BY <1>3, <1>4 DEF t, u

\* Where a core is in its script.
LEMMA CoreAt ==
  ASSUME TypeOK, NEW c \in Cores, NEW s, NEW i, At(c, s, i)
  PROVE  /\ s \in Seq(Steps) /\ Len(s) \in Nat /\ Tidy(call[c], s) /\ call[c] \in CallNames \union {"none"}
         /\ Idle(c) <=> i = Len(s)
         /\ ~Idle(c) => /\ i + 1 \in 1..Len(s) /\ s[i + 1] \in Steps
                        /\ Head(todo[c]) = s[i + 1]
                        /\ Tail(todo[c]) = SubSeq(s, (i + 1) + 1, Len(s))
         /\ \A l \in Locks : held[c][l] \in Nat
<1>1. call[c] \in CallNames \union {"none"} /\ \A l \in Locks : held[c][l] \in Nat
  BY CallsAssumption DEF TypeOK
<1>2. s \in Seq(Steps) /\ Tidy(call[c], s)
  BY <1>1, LivesTidy DEF At
<1>3. i \in 0..Len(s) /\ Len(s) \in Nat /\ todo[c] = SubSeq(s, i + 1, Len(s))
  BY <1>2 DEF At
<1>4. /\ todo[c] = <<>> <=> i = Len(s)
      /\ i < Len(s) => Head(todo[c]) = s[i + 1] /\ Tail(todo[c]) = SubSeq(s, (i + 1) + 1, Len(s))
  BY <1>2, <1>3, RestOf
<1>5. i < Len(s) => i + 1 \in 1..Len(s) /\ s[i + 1] \in Steps
  BY <1>2, <1>3
<1> QED
  BY <1>1, <1>2, <1>3, <1>4, <1>5 DEF Idle

\* A guard a core has was made by an operation of its script on that buffer.
LEMMA HeldByScript ==
  ASSUME NEW k, NEW s, Tidy(k, s), NEW i \in 0..Len(s), Len(s) \in Nat, NEW l, Holds(s, i, l)
  PROVE  /\ k = "unsafe_io" => l = "A"
         /\ l = "A" => k \in UsesA
<1>1. PICK j \in 1..i : Takes(s[j], l)
  BY DEF Holds
<1>2. j \in 1..Len(s) /\ s[j].lock = l
  BY <1>1, Ops DEF Takes
<1> QED
  BY <1>2 DEF Tidy

\* An operation, from its kind and its lock.
LEMMA OpOf ==
  ASSUME NEW o \in Steps
  PROVE  /\ o = Op(o.do, o.lock) /\ o.lock \in Locks
         /\ \A l : Takes(o, l) => l = o.lock /\ o.do # "drop"
         /\ \A k, l : o = Op(k, l) <=> o.do = k /\ o.lock = l
<1>1. o = Op(o.do, o.lock) /\ o.lock \in Locks
  BY DEF Op, Steps
<1> QED
  BY <1>1, Ops DEF Takes

\* A core between two calls that keeps no handle has no guard.
LEMMA NothingKept ==
  ASSUME TypeOK, NEW c \in Cores, NEW s, NEW i, At(c, s, i),
         Idle(c), ~ListingAlive(c), ~ReaderAlive(c)
  PROVE  \A l \in Locks : held[c][l] = 0
<1>1. /\ i = Len(s) /\ Tidy(call[c], s) /\ Fresh(s, Len(s))
      /\ \A l \in Locks : held[c][l] \in Nat /\ (held[c][l] > 0 <=> Holds(s, Len(s), l))
  BY CoreAt DEF At
<1>2. held[c]["A"] = 0 /\ held[c]["B"] = 0
  BY <1>1 DEF ListingAlive, ReaderAlive, Locks
<1>3. ~Holds(s, Len(s), "B") /\ (Holds(s, Len(s), "L") => Holds(s, Len(s), "B"))
  BY <1>1, <1>2 DEF Tidy, Locks
<1>4. held[c]["L"] = 0
  BY <1>1, <1>3 DEF Locks
<1> QED
  BY <1>2, <1>4 DEF Locks

\* When every handle is dropped before the next call, a core waits for itself in
\* the calls that make an entry or delete a directory of the root alone, and two
\* cores wait for each other only when one of them deletes.
LEMMA CarefulHangs == CarefulInv => HangsAreKnown
<1> SUFFICES ASSUME CarefulInv PROVE HangsAreKnown
  OBVIOUS
<1>1. ASSUME NEW c \in Cores, NEW l \in Locks, Waits(c, l)
      PROVE  \E s, i : /\ At(c, s, i) /\ TidyAt(call[c], s, i + 1, l) /\ s[i + 1] = Op("claim", l)
  <2>1. PICK s, i : At(c, s, i)
    BY DEF CarefulInv, PathInv
  <2>2. /\ i + 1 \in 1..Len(s) /\ s[i + 1] \in Steps /\ Head(todo[c]) = s[i + 1] /\ Tidy(call[c], s)
        /\ i \in 0..Len(s) /\ Len(s) \in Nat
    BY <1>1, <2>1, CoreAt DEF CarefulInv, Waits, Next1, At
  <2>3. s[i + 1] = Op("claim", l)
    BY <1>1, <2>2, OpOf DEF Waits, Next1
  <2>4. (i + 1) - 1 = i /\ Fresh(s, i)
    BY <2>1, <2>2 DEF At
  <2>5. TidyAt(call[c], s, i + 1, l)
    BY <2>2, <2>4 DEF Tidy
  <2> QED
    BY <2>1, <2>3, <2>5
<1>2. ASSUME NEW c \in Cores, SelfWait(c) PROVE call[c] \in {"create", "dir_make", "root_delete"}
  <2>1. PICK l \in Locks : Waits(c, l) /\ held[c][l] > 0
    BY <1>2 DEF SelfWait
  <2>2. PICK s, i : At(c, s, i) /\ TidyAt(call[c], s, i + 1, l) /\ s[i + 1] = Op("claim", l)
    BY <1>1, <2>1
  <2>3. Holds(s, (i + 1) - 1, l)
    <3>1. i \in 0..Len(s) /\ Len(s) \in Nat
      BY <2>2, CoreAt DEF At, CarefulInv
    <3>2. (i + 1) - 1 = i /\ Holds(s, i, l)
      BY <2>1, <2>2, <3>1 DEF At
    <3> QED
      BY <3>2
  <2> QED
    BY <2>2, <2>3 DEF TidyAt, Selfish
<1>3. ASSUME NEW c \in Cores, NEW d \in Cores, c # d, NEW l \in Locks, NEW m \in Locks,
             Waits(c, l), held[d][l] > 0, held[c][m] > 0, call[c] \notin Deletes
      PROVE  Rank[m] < Rank[l]
  <2>1. PICK s, i : At(c, s, i) /\ TidyAt(call[c], s, i + 1, l) /\ s[i + 1] = Op("claim", l)
    BY <1>1, <1>3
  <2>2. ~(held[c][l] > 0)
    BY <1>3 DEF CarefulInv, GuardsOwn, Exclusive
  <2>3. (i + 1) - 1 = i
    <3>1. i \in 0..Len(s) /\ Len(s) \in Nat
      BY <2>1, CoreAt DEF At, CarefulInv
    <3> QED
      BY <3>1
  <2>4. ~Holds(s, (i + 1) - 1, l) /\ Holds(s, (i + 1) - 1, m)
    BY <1>3, <2>1, <2>2, <2>3 DEF At
  <2> QED
    BY <1>3, <2>1, <2>4 DEF TidyAt
<1>4. ASSUME NEW c \in Cores, NEW d \in Cores, CrossWait(c, d), {call[c], call[d]} \intersect Deletes = {}
      PROVE  FALSE
  <2>1. PICK l \in Locks, m \in Locks : Waits(c, l) /\ held[d][l] > 0 /\ Waits(d, m) /\ held[c][m] > 0
    BY <1>4 DEF CrossWait
  <2>2. c # d /\ call[c] \notin Deletes /\ call[d] \notin Deletes
    BY <1>4 DEF CrossWait
  <2>3. Rank[m] < Rank[l] /\ Rank[l] < Rank[m]
    BY <1>3, <2>1, <2>2
  <2>4. Rank[l] \in Nat /\ Rank[m] \in Nat
    BY Ranks DEF Locks
  <2> QED
    BY <2>3, <2>4
<1> QED
  BY <1>2, <1>4 DEF HangsAreKnown, Deletes

-----------------------------------------------------------------------------
(* The careful program keeps its invariant.                                *)

\* A step of core c does not move the others along their scripts.
Only(c) ==
  \A d \in Cores \ {c} : todo'[d] = todo[d] /\ call'[d] = call[d] /\ held'[d] = held[d]

\* Every core is in a script when the one that moved is.
LEMMA PathStep ==
  ASSUME PathInv, NEW c \in Cores, Only(c), NEW s, NEW i, At(c, s, i)'
  PROVE  PathInv'
<1>1. ASSUME NEW d \in Cores \ {c} PROVE \E t, j : At(d, t, j)'
  <2>1. PICK t, j : At(d, t, j)
    BY DEF PathInv
  <2>2. todo'[d] = todo[d] /\ call'[d] = call[d] /\ held'[d] = held[d]
    BY DEF Only
  <2>3. At(d, t, j)'
    BY <2>1, <2>2 DEF At
  <2> QED
    BY <2>3
<1> QED
  BY <1>1 DEF PathInv

\* One more operation of its script brings a core to the next place.
LEMMA MoveOn ==
  ASSUME TypeOK, NEW c \in Cores, NEW s, NEW i, At(c, s, i), ~Idle(c),
         call'[c] = call[c], todo'[c] = Tail(todo[c]),
         \A m \in Locks : held'[c][m] > 0 <=>
                            Takes(s[i + 1], m) \/ (held[c][m] > 0 /\ s[i + 1] # Op("drop", m)),
         \A m \in Locks : Takes(s[i + 1], m) => ~(held[c][m] > 0)
  PROVE  At(c, s, i + 1)'
<1>1. /\ i \in Nat /\ i + 1 \in 0..Len(s)
      /\ todo'[c] = SubSeq(s, (i + 1) + 1, Len(s))
      /\ s \in Lives(call'[c])
  <2>1. /\ Len(s) \in Nat /\ i + 1 \in 1..Len(s)
        /\ Tail(todo[c]) = SubSeq(s, (i + 1) + 1, Len(s))
    BY CoreAt
  <2>2. i \in 0..Len(s) /\ s \in Lives(call[c])
    BY DEF At
  <2> QED
    BY <2>1, <2>2
<1>2. \A m \in Locks : held'[c][m] > 0 <=> Holds(s, i + 1, m)
  BY <1>1, HoldsStep DEF At
<1>3. ASSUME NEW j \in 1..(i + 1), NEW l \in Locks, Takes(s[j], l) PROVE ~Holds(s, j - 1, l)
  <2>1. CASE j \in 1..i
    BY <1>3, <2>1 DEF At, Fresh
  <2>2. CASE j = i + 1
    <3>1. j - 1 = i
      BY <1>1, <2>2
    <3> QED
      BY <1>3, <2>2, <3>1 DEF At
  <2> QED
    BY <1>1, <2>1, <2>2
<1>4. Fresh(s, i + 1)
  BY <1>3 DEF Fresh
<1> QED
  BY <1>1, <1>2, <1>4 DEF At

\* An operation of a call that runs leaves unlocked files alone.
LEMMA AloneStep ==
  ASSUME CarefulInv, NEW c \in Cores, Only(c), ~Idle(c), call' = call,
         NEW s, NEW i, At(c, s, i),
         held[c]["A"] = 0 /\ s[i + 1].lock # "A" => held'[c]["A"] = 0
  PROVE  AloneInv'
<1> SUFFICES ASSUME NEW x \in Cores, NEW y \in Cores, x # y, Unlocked(x)'
             PROVE  held'[y]["A"] = 0 /\ (Idle(y)' \/ call'[y] \notin UsesA)
  BY DEF AloneInv
<1>1. Unlocked(x)
  <2>1. CASE x = c
    BY <2>1 DEF Unlocked
  <2>2. CASE x # c
    BY <2>2 DEF Unlocked, Idle, Only
  <2> QED
    BY <2>1, <2>2
<1>2. held[y]["A"] = 0 /\ (Idle(y) \/ call[y] \notin UsesA)
  BY <1>1 DEF CarefulInv, AloneInv
<1>3. CASE y = c
  <2>1. call[c] \notin UsesA
    BY <1>2, <1>3
  <2>2. s[i + 1].lock # "A"
    BY <2>1, CoreAt DEF CarefulInv, Tidy
  <2> QED
    BY <1>2, <1>3, <2>1, <2>2
<1>4. CASE y # c
  BY <1>2, <1>4 DEF Only, Idle
<1> QED
  BY <1>3, <1>4

\* A claim waits, so the buffer has no guard, an unlocked one included.
LEMMA ClaimKeeps ==
  ASSUME Careful, CarefulInv, TypeOK', NEW c \in Cores, Claim(c)
  PROVE  CarefulInv'
<1>1. PICK s, i : At(c, s, i)
  BY DEF CarefulInv, PathInv
<1> DEFINE o == s[i + 1]
           l == o.lock
<1>2. /\ ~Idle(c) /\ o \in Steps /\ Head(todo[c]) = o
      /\ i \in 0..Len(s) /\ Len(s) \in Nat /\ i + 1 \in 1..Len(s) /\ Tidy(call[c], s)
  BY <1>1, CoreAt DEF Claim, Next1, CarefulInv, At
<1>3. /\ o = Op("claim", l) /\ l \in Locks /\ ~lock[l]
      /\ lock' = [lock EXCEPT ![l] = TRUE]
      /\ held' = [held EXCEPT ![c][l] = @ + 1]
      /\ todo' = [todo EXCEPT ![c] = Tail(@)] /\ call' = call
  BY <1>2, OpOf DEF Claim, Next1, Advance
<1>4. call[c] # "unsafe_io" /\ (l = "A" => call[c] \in UsesA)
  <2>1. (i + 1) - 1 = i /\ Fresh(s, i)
    BY <1>1, <1>2 DEF At
  <2>2. TidyAt(call[c], s, i + 1, l)
    BY <1>2, <1>3, <2>1 DEF Tidy
  <2> QED
    BY <1>2, <1>3, <2>2 DEF TidyAt, Tidy
<1> HIDE DEF l, o
<1>5. \A d \in Cores : held[d][l] = 0
  <2> SUFFICES ASSUME NEW d \in Cores, held[d][l] > 0 PROVE FALSE
    BY <1>3 DEF CarefulInv, TypeOK
  <2>1. Unlocked(d)
    BY <1>3 DEF CarefulInv, GuardsOwn, LockTracksGuard
  <2>2. PICK t, j : At(d, t, j)
    BY DEF CarefulInv, PathInv
  <2>3. /\ Tidy(call[d], t) /\ j \in 0..Len(t) /\ Len(t) \in Nat /\ Holds(t, j, l)
    BY <1>3, <2>2, CoreAt DEF CarefulInv, At
  <2>4. l = "A"
    BY <2>1, <2>3, HeldByScript DEF Unlocked
  <2>5. d # c
    BY <1>4, <2>1 DEF Unlocked
  <2> QED
    BY <1>2, <1>4, <2>1, <2>4, <2>5 DEF CarefulInv, AloneInv
<1>6. \A m \in Locks, d \in Cores : held'[d][m] = IF d = c /\ m = l THEN 1 ELSE held[d][m]
  BY <1>3, <1>5 DEF CarefulInv, TypeOK
<1>7. Only(c)
  BY <1>3 DEF Only, CarefulInv, TypeOK
<1>8. Exclusive'
  <2>1. \A m \in Locks, d \in Cores : held'[d][m] <= 1
    BY <1>6 DEF CarefulInv, GuardsOwn, Exclusive
  <2>2. ASSUME NEW m \in Locks, NEW d \in Cores, NEW e \in Cores,
               held'[d][m] > 0, held'[e][m] > 0
        PROVE  d = e
    BY <1>5, <1>6, <2>2 DEF CarefulInv, GuardsOwn, Exclusive
  <2> QED
    BY <2>1, <2>2 DEF Exclusive
<1>9. \A d \in Cores : Unlocked(d)' <=> Unlocked(d)
  <2>1. \A d \in Cores \ {c} : Unlocked(d)' <=> Unlocked(d)
    BY <1>7 DEF Only, Unlocked, Idle
  <2> QED
    BY <1>3, <1>4, <2>1 DEF Unlocked
<1>10. LockTracksGuard'
  <2>1. ASSUME NEW m \in Locks \ {l}
        PROVE  lock'[m] <=> \E d \in Cores : held'[d][m] > 0 /\ ~Unlocked(d)'
    <3>1. lock'[m] = lock[m] /\ \A d \in Cores : held'[d][m] = held[d][m]
      BY <1>3, <1>6 DEF CarefulInv, TypeOK
    <3> QED
      BY <1>9, <3>1 DEF CarefulInv, GuardsOwn, LockTracksGuard
  <2>2. lock'[l] /\ held'[c][l] > 0 /\ ~Unlocked(c)'
    BY <1>3, <1>4, <1>6 DEF CarefulInv, TypeOK, Unlocked
  <2> QED
    BY <2>1, <2>2 DEF LockTracksGuard
<1>11. At(c, s, i + 1)'
  <2>1. \A m \in Locks : Takes(o, m) <=> m = l
    BY <1>3, Ops DEF Takes
  <2>2. \A m \in Locks : o # Op("drop", m)
    BY <1>3, Ops
  <2>3. \A m \in Locks : held'[c][m] > 0 <=> Takes(o, m) \/ (held[c][m] > 0 /\ o # Op("drop", m))
    BY <1>6, <2>1, <2>2
  <2>4. \A m \in Locks : Takes(o, m) => ~(held[c][m] > 0)
    BY <1>5, <2>1
  <2>5. call'[c] = call[c] /\ todo'[c] = Tail(todo[c])
    BY <1>3 DEF CarefulInv, TypeOK
  <2>6. TypeOK
    BY DEF CarefulInv
  <2> QED
    BY <1>1, <1>2, <2>3, <2>4, <2>5, <2>6, MoveOn DEF o
<1>12. AloneInv'
  <2>1. held[c]["A"] = 0 /\ s[i + 1].lock # "A" => held'[c]["A"] = 0
    BY <1>6 DEF l, o, Locks
  <2> QED
    BY <1>1, <1>2, <1>3, <1>7, <2>1, AloneStep
<1> QED
  BY <1>7, <1>8, <1>10, <1>11, <1>12, PathStep DEF CarefulInv, GuardsOwn

\* A guard without a claim is made where no other core has one.
LEMMA BorrowKeeps ==
  ASSUME Careful, CarefulInv, TypeOK', NEW c \in Cores, Borrow(c)
  PROVE  CarefulInv'
<1>1. PICK s, i : At(c, s, i)
  BY DEF CarefulInv, PathInv
<1> DEFINE o == s[i + 1]
           l == o.lock
<1>2. /\ ~Idle(c) /\ o \in Steps /\ Head(todo[c]) = o
      /\ i \in 0..Len(s) /\ Len(s) \in Nat /\ i + 1 \in 1..Len(s) /\ Tidy(call[c], s)
  BY <1>1, CoreAt DEF Borrow, Next1, CarefulInv, At
<1>3. /\ o = Op("borrow", l) /\ l \in Locks
      /\ lock' = lock
      /\ held' = [held EXCEPT ![c][l] = @ + 1]
      /\ todo' = [todo EXCEPT ![c] = Tail(@)] /\ call' = call
  BY <1>2, OpOf DEF Borrow, Next1, Advance
<1>4. call[c] = "unsafe_io" /\ l = "A" /\ ~Holds(s, i, l)
  <2>1. (i + 1) - 1 = i /\ Fresh(s, i)
    BY <1>1, <1>2 DEF At
  <2>2. TidyAt(call[c], s, i + 1, l)
    BY <1>2, <1>3, <2>1 DEF Tidy
  <2> QED
    BY <1>2, <1>3, <2>1, <2>2 DEF TidyAt, Tidy
<1> HIDE DEF l, o
<1>5. Unlocked(c) /\ \A d \in Cores : held[d][l] = 0
  <2>1. Unlocked(c)
    BY <1>2, <1>4 DEF Unlocked
  <2>2. held[c][l] = 0
    BY <1>1, <1>3, <1>4 DEF At, CarefulInv, TypeOK
  <2> QED
    BY <1>4, <2>1, <2>2 DEF CarefulInv, AloneInv
<1>6. \A m \in Locks, d \in Cores : held'[d][m] = IF d = c /\ m = l THEN 1 ELSE held[d][m]
  BY <1>3, <1>5 DEF CarefulInv, TypeOK
<1>7. Only(c)
  BY <1>3 DEF Only, CarefulInv, TypeOK
<1>8. Exclusive'
  <2>1. \A m \in Locks, d \in Cores : held'[d][m] <= 1
    BY <1>6 DEF CarefulInv, GuardsOwn, Exclusive
  <2>2. ASSUME NEW m \in Locks, NEW d \in Cores, NEW e \in Cores,
               held'[d][m] > 0, held'[e][m] > 0
        PROVE  d = e
    BY <1>5, <1>6, <2>2 DEF CarefulInv, GuardsOwn, Exclusive
  <2> QED
    BY <2>1, <2>2 DEF Exclusive
<1>9. At(c, s, i + 1)'
  <2>1. \A m \in Locks : Takes(o, m) <=> m = l
    BY <1>3, Ops DEF Takes
  <2>2. \A m \in Locks : o # Op("drop", m)
    BY <1>3, Ops
  <2>3. \A m \in Locks : held'[c][m] > 0 <=> Takes(o, m) \/ (held[c][m] > 0 /\ o # Op("drop", m))
    BY <1>6, <2>1, <2>2
  <2>4. \A m \in Locks : Takes(o, m) => ~(held[c][m] > 0)
    BY <1>5, <2>1
  <2>5. call'[c] = call[c] /\ todo'[c] = Tail(todo[c])
    BY <1>3 DEF CarefulInv, TypeOK
  <2>6. TypeOK
    BY DEF CarefulInv
  <2> QED
    BY <1>1, <1>2, <2>3, <2>4, <2>5, <2>6, MoveOn DEF o
<1>10. Unlocked(c)'
  <2>1. /\ Idle(c)' <=> i + 1 = Len(s)
        /\ Tidy(call'[c], s)
    <3>1. s \in Seq(Steps)
      BY <1>1, CoreAt DEF CarefulInv
    <3>2. i + 1 \in 0..Len(s) /\ todo'[c] = SubSeq(s, (i + 1) + 1, Len(s))
      BY <1>9 DEF At
    <3>3. SubSeq(s, (i + 1) + 1, Len(s)) = <<>> <=> i + 1 = Len(s)
      BY <3>1, <3>2, RestOf
    <3> QED
      BY <1>2, <1>3, <3>2, <3>3 DEF Idle
  <2>2. ASSUME Idle(c)' PROVE FALSE
    <3>1. i + 1 = Len(s)
      BY <2>1, <2>2
    <3>2. Fresh(s, Len(s)) /\ Holds(s, Len(s), "A")
      BY <1>4, <1>6, <1>9, <3>1 DEF At, Locks
    <3> QED
      BY <1>3, <1>4, <2>1, <3>2 DEF Tidy
  <2> QED
    BY <1>3, <1>4, <2>2 DEF Unlocked
<1>11. LockTracksGuard'
  <2>1. \A d \in Cores : Unlocked(d)' <=> Unlocked(d)
    BY <1>5, <1>7, <1>10 DEF Only, Unlocked, Idle
  <2>2. ASSUME NEW m \in Locks
        PROVE  (\E d \in Cores : held'[d][m] > 0 /\ ~Unlocked(d)') <=> \E d \in Cores : held[d][m] > 0 /\ ~Unlocked(d)
    <3>1. \A d \in Cores : ~Unlocked(d) => held'[d][m] = held[d][m]
      BY <1>5, <1>6
    <3> QED
      BY <2>1, <3>1
  <2> QED
    BY <1>3, <2>2 DEF CarefulInv, GuardsOwn, LockTracksGuard
<1>12. AloneInv'
  <2>1. held[c]["A"] = 0 /\ s[i + 1].lock # "A" => held'[c]["A"] = 0
    BY <1>6 DEF l, o, Locks
  <2> QED
    BY <1>1, <1>2, <1>3, <1>7, <2>1, AloneStep
<1> QED
  BY <1>7, <1>8, <1>9, <1>11, <1>12, PathStep DEF CarefulInv, GuardsOwn

\* A drop frees the spinlock of a buffer that has no other guard.
LEMMA DropKeeps ==
  ASSUME Careful, CarefulInv, TypeOK', NEW c \in Cores, Drop(c)
  PROVE  CarefulInv'
<1>1. PICK s, i : At(c, s, i)
  BY DEF CarefulInv, PathInv
<1> DEFINE o == s[i + 1]
           l == o.lock
<1>2. /\ ~Idle(c) /\ o \in Steps /\ Head(todo[c]) = o
      /\ i \in 0..Len(s) /\ Len(s) \in Nat /\ i + 1 \in 1..Len(s) /\ Tidy(call[c], s)
  BY <1>1, CoreAt DEF Drop, Next1, CarefulInv, At
<1>3. /\ o = Op("drop", l) /\ l \in Locks /\ held[c][l] > 0
      /\ lock' = [lock EXCEPT ![l] = FALSE]
      /\ held' = [held EXCEPT ![c][l] = @ - 1]
      /\ todo' = [todo EXCEPT ![c] = Tail(@)] /\ call' = call
  BY <1>2, OpOf DEF Drop, Next1, Advance
<1>4. call[c] = "unsafe_io" => l = "A" /\ \A m \in Locks \ {l} : held[c][m] = 0
  <2> SUFFICES ASSUME call[c] = "unsafe_io" PROVE l = "A" /\ \A m \in Locks \ {l} : held[c][m] = 0
    OBVIOUS
  <2>1. l = "A"
    BY <1>2 DEF Tidy
  <2>2. \A m \in Locks : held[c][m] > 0 => Holds(s, i, m)
    BY <1>1 DEF At
  <2>3. \A m \in Locks : Holds(s, i, m) => m = "A"
    BY <1>2, HeldByScript
  <2> QED
    BY <2>1, <2>2, <2>3 DEF CarefulInv, TypeOK
<1> HIDE DEF l, o
<1>5. held[c][l] = 1 /\ \A d \in Cores \ {c} : held[d][l] = 0
  BY <1>3 DEF CarefulInv, TypeOK, GuardsOwn, Exclusive
<1>6. \A m \in Locks, d \in Cores : held'[d][m] = IF d = c /\ m = l THEN 0 ELSE held[d][m]
  BY <1>3, <1>5 DEF CarefulInv, TypeOK
<1>7. Only(c)
  BY <1>3 DEF Only, CarefulInv, TypeOK
<1>8. Exclusive'
  <2>1. \A m \in Locks, d \in Cores : held'[d][m] <= 1
    BY <1>6 DEF CarefulInv, GuardsOwn, Exclusive
  <2>2. ASSUME NEW m \in Locks, NEW d \in Cores, NEW e \in Cores,
               held'[d][m] > 0, held'[e][m] > 0
        PROVE  d = e
    <3>1. held[d][m] > 0 /\ held[e][m] > 0
      BY ONLY <1>6, <2>2
    <3> QED
      BY <3>1 DEF CarefulInv, GuardsOwn, Exclusive
  <2> QED
    BY <2>1, <2>2 DEF Exclusive
<1>9. At(c, s, i + 1)'
  <2>1. \A m \in Locks : ~Takes(o, m)
    BY <1>3, Ops DEF Takes
  <2>2. \A m \in Locks : o = Op("drop", m) <=> m = l
    BY <1>3, Ops
  <2>3. \A m \in Locks : held'[c][m] > 0 <=> Takes(o, m) \/ (held[c][m] > 0 /\ o # Op("drop", m))
    BY <1>6, <2>1, <2>2
  <2>4. call'[c] = call[c] /\ todo'[c] = Tail(todo[c])
    BY <1>3 DEF CarefulInv, TypeOK
  <2>5. TypeOK
    BY DEF CarefulInv
  <2> QED
    BY <1>1, <1>2, <2>1, <2>3, <2>4, <2>5, MoveOn DEF o
<1>10. LockTracksGuard'
  <2>1. \A d \in Cores \ {c} : Unlocked(d)' <=> Unlocked(d)
    BY <1>7 DEF Only, Unlocked, Idle
  <2>2. Unlocked(c)' => call[c] = "unsafe_io"
    BY <1>3 DEF Unlocked
  <2>3. Unlocked(c) <=> call[c] = "unsafe_io"
    BY <1>2 DEF Unlocked
  <2>4. ASSUME NEW m \in Locks \ {l}
        PROVE  lock'[m] <=> \E d \in Cores : held'[d][m] > 0 /\ ~Unlocked(d)'
    <3>1. lock'[m] = lock[m] /\ \A d \in Cores : held'[d][m] = held[d][m]
      BY <1>3, <1>6 DEF CarefulInv, TypeOK
    <3>2. \A d \in Cores : held[d][m] > 0 => (Unlocked(d)' <=> Unlocked(d))
      BY <1>4, <2>1, <2>2, <2>3
    <3> QED
      BY <3>1, <3>2 DEF CarefulInv, GuardsOwn, LockTracksGuard
  <2>5. ~lock'[l] /\ \A d \in Cores : held'[d][l] = 0
    BY <1>3, <1>5, <1>6 DEF CarefulInv, TypeOK
  <2> QED
    BY <1>3, <2>4, <2>5 DEF LockTracksGuard
<1>11. AloneInv'
  <2>1. held[c]["A"] = 0 /\ s[i + 1].lock # "A" => held'[c]["A"] = 0
    BY <1>6 DEF l, o, Locks
  <2> QED
    BY <1>1, <1>2, <1>3, <1>7, <2>1, AloneStep
<1> QED
  BY <1>7, <1>8, <1>9, <1>10, <1>11, PathStep DEF CarefulInv, GuardsOwn

\* A new call begins with no guard kept and no rule of unlocked files broken.
LEMMA InvokeKeeps ==
  ASSUME Careful, CarefulInv, TypeOK', NEW c \in Cores, Invoke(c)
  PROVE  CarefulInv'
<1>0. PICK k \in Calls : \E s \in Scripts(k) :
        Alone(c, k) /\ call' = [call EXCEPT ![c] = k] /\ todo' = [todo EXCEPT ![c] = s]
  BY DEF Invoke
<1>1. PICK s \in Scripts(k) :
        Alone(c, k) /\ call' = [call EXCEPT ![c] = k] /\ todo' = [todo EXCEPT ![c] = s]
  BY <1>0
<1>2. /\ Idle(c) /\ lock' = lock /\ held' = held /\ \A l \in Locks : held[c][l] = 0
  <2>1. Idle(c) /\ ~ListingAlive(c) /\ ~ReaderAlive(c) /\ lock' = lock /\ held' = held
    BY DEF Invoke
  <2>2. PICK t, j : At(c, t, j)
    BY DEF CarefulInv, PathInv
  <2> QED
    BY <2>1, <2>2, NothingKept DEF CarefulInv
<1>3. /\ call'[c] = k /\ todo'[c] = s /\ k \in CallNames
      /\ Only(c)
  BY <1>1, <1>2, CallsAssumption DEF CarefulInv, TypeOK, Only
<1>4. At(c, s, 0)'
  <2>1. s \in Seq(Steps) /\ s \in Lives(k)
    BY <1>1, <1>3, ScriptsTyped DEF Lives, CallNames, Scripts
  <2>2. 0 \in 0..Len(s) /\ SubSeq(s, 0 + 1, Len(s)) = s
    BY <2>1
  <2>3. Fresh(s, 0)
    BY DEF Fresh
  <2>4. \A l \in Locks : ~Holds(s, 0, l)
    BY FirstSix
  <2> QED
    BY <1>2, <1>3, <2>1, <2>2, <2>3, <2>4 DEF At
<1>5. GuardsOwn'
  <2>1. \A d \in Cores, l \in Locks : held[d][l] > 0 => (Unlocked(d)' <=> Unlocked(d))
    <3>1. \A d \in Cores \ {c} : Unlocked(d)' <=> Unlocked(d)
      BY <1>3 DEF Only, Unlocked, Idle
    <3> QED
      BY <1>2, <3>1
  <2>2. LockTracksGuard'
    BY <1>2, <2>1 DEF CarefulInv, GuardsOwn, LockTracksGuard
  <2>3. Exclusive'
    BY <1>2 DEF CarefulInv, GuardsOwn, Exclusive
  <2> QED
    BY <2>2, <2>3 DEF GuardsOwn
<1>6. AloneInv'
  <2> SUFFICES ASSUME NEW x \in Cores, NEW y \in Cores, x # y, Unlocked(x)'
               PROVE  held[y]["A"] = 0 /\ (Idle(y)' \/ call'[y] \notin UsesA)
    BY <1>2 DEF AloneInv
  <2>1. CASE x = c
    <3>1. k = "unsafe_io" /\ y \in Cores \ {c}
      BY <1>3, <2>1 DEF Unlocked
    <3>2. ~ReaderAlive(y) /\ (Idle(y) \/ call[y] \notin UsesA)
      BY <1>1, <3>1 DEF Alone
    <3>3. Idle(y)' \/ call'[y] \notin UsesA
      BY <1>3, <3>1, <3>2 DEF Only, Idle
    <3>4. held[y]["A"] \in Nat
      BY DEF CarefulInv, TypeOK, Locks
    <3>5. ASSUME held[y]["A"] > 0 PROVE FALSE
      <4>1. call[y] \notin UsesA
        BY <3>2, <3>5 DEF ReaderAlive
      <4>2. PICK t, j : At(y, t, j)
        BY DEF CarefulInv, PathInv
      <4>3. /\ Tidy(call[y], t) /\ j \in 0..Len(t) /\ Len(t) \in Nat /\ Holds(t, j, "A")
        BY <3>5, <4>2, CoreAt DEF CarefulInv, At, Locks
      <4> QED
        BY <4>1, <4>3, HeldByScript
    <3> QED
      BY <3>3, <3>4, <3>5
  <2>2. CASE x # c
    <3>1. Unlocked(x)
      BY <1>3, <2>2 DEF Only, Unlocked, Idle
    <3>2. held[y]["A"] = 0 /\ (Idle(y) \/ call[y] \notin UsesA)
      BY <3>1 DEF CarefulInv, AloneInv
    <3>3. k \notin UsesA
      BY <1>1, <2>2, <3>1 DEF Alone
    <3>4. CASE y = c
      BY <1>3, <3>2, <3>3, <3>4
    <3>5. CASE y # c
      BY <1>3, <3>2, <3>5 DEF Only, Idle
    <3> QED
      BY <3>4, <3>5
  <2> QED
    BY <2>1, <2>2
<1> QED
  BY <1>3, <1>4, <1>5, <1>6, PathStep DEF CarefulInv

\* A handle that is dropped ends the script that made it.
LEMMA HandleKeeps ==
  ASSUME Careful, CarefulInv, TypeOK', NEW c \in Cores, DropListing(c) \/ DropReader(c)
  PROVE  CarefulInv'
<1>1. PICK s, i : At(c, s, i)
  BY DEF CarefulInv, PathInv
<1>2. /\ Idle(c) /\ lock' = lock /\ held' = held /\ call' = call
      /\ \E rest : todo' = [todo EXCEPT ![c] = rest]
      /\ DropListing(c) => todo' = [todo EXCEPT ![c] = IndexDrop]
      /\ ~DropListing(c) => todo' = [todo EXCEPT ![c] = <<Op("drop", "A")>>]
  BY DEF DropListing, DropReader, ListingAlive, ReaderAlive
<1>3. /\ i = Len(s) /\ Tidy(call[c], s) /\ Fresh(s, Len(s))
      /\ \A l \in Locks : held[c][l] > 0 <=> Holds(s, Len(s), l)
  BY <1>1, <1>2, CoreAt DEF CarefulInv, At
<1>4. Only(c)
  BY <1>2 DEF Only, CarefulInv, TypeOK
<1>5. ASSUME DropListing(c)
      PROVE  call[c] = "list" /\ \E z, j : At(c, z, j)'
  <2>1. ListingAlive(c)
    BY <1>5 DEF DropListing
  <2>2. call[c] = "list" /\ s = Index
    BY <1>3, <2>1 DEF ListingAlive, Tidy, Locks
  <2> DEFINE z == Index \o IndexDrop
  <2>3. /\ z \in Seq(Steps) /\ Len(z) = 4 /\ z[1] = Index[1] /\ z[2] = Index[2]
        /\ SubSeq(z, 3, 4) = IndexDrop
    <3>1. /\ z \in Seq(Steps) /\ Len(z) = Len(Index) + Len(IndexDrop)
          /\ \A j \in 1..Len(Index) : z[j] = Index[j]
          /\ \A j \in 1..Len(IndexDrop) : z[Len(Index) + j] = IndexDrop[j]
      <4>1. Index \in Seq(Steps) /\ IndexDrop \in Seq(Steps)
        BY Pieces
      <4> QED
        BY ONLY <4>1, Joined
    <3> HIDE DEF z
    <3>2. /\ Len(z) = 4 /\ z[1] = Index[1] /\ z[2] = Index[2]
          /\ z[2 + 1] = IndexDrop[1] /\ z[2 + 2] = IndexDrop[2]
          /\ IndexDrop \in Seq(Steps) /\ Len(IndexDrop) = 2
      BY <3>1, Pieces
    <3>3. /\ SubSeq(z, 3, 4) \in Seq(Steps) /\ Len(SubSeq(z, 3, 4)) = 2
          /\ SubSeq(z, 3, 4)[1] = z[3] /\ SubSeq(z, 3, 4)[2] = z[4]
      BY <3>1, <3>2
    <3>4. SubSeq(z, 3, 4) = IndexDrop
      BY <3>2, <3>3
    <3> QED
      BY <3>1, <3>2, <3>4
  <2>4. z \in Lives("list")
    BY DEF Lives, Scripts, ListScripts
  <2> HIDE DEF z
  <2>5. Len(Index) = 2
    BY Pieces
  <2>6. \A l \in Locks : /\ Holds(z, 0, l) <=> Holds(Index, 0, l)
                         /\ Holds(z, 1, l) <=> Holds(Index, 1, l)
                         /\ Holds(z, 2, l) <=> Holds(Index, 2, l)
    BY <2>3, FirstSix
  <2>7. Fresh(z, 2)
    <3>1. \A j \in 1..2 : j = 1 \/ j = 2
      OBVIOUS
    <3>2. Fresh(Index, 2)
      BY <1>3, <2>2, <2>5
    <3>3. ASSUME NEW l \in Locks
          PROVE  (Takes(z[1], l) => ~Holds(z, 1 - 1, l)) /\ (Takes(z[2], l) => ~Holds(z, 2 - 1, l))
      BY <2>3, <2>6, <3>2 DEF Fresh
    <3> QED
      BY <3>1, <3>3 DEF Fresh
  <2>8. todo'[c] = SubSeq(z, 2 + 1, Len(z))
    BY <1>2, <1>5, <2>1, <2>3 DEF CarefulInv, TypeOK
  <2>9. At(c, z, 2)'
    BY <1>2, <1>3, <2>2, <2>3, <2>4, <2>5, <2>6, <2>7, <2>8 DEF At
  <2> QED
    BY <2>2, <2>9
<1>6. ASSUME ~DropListing(c)
      PROVE  ReaderAlive(c) /\ call[c] = "into_reader" /\ \E z, j : At(c, z, j)'
  <2>1. ReaderAlive(c)
    BY <1>6 DEF DropReader
  <2>2. call[c] = "into_reader" /\ s = <<Op("claim", "A")>>
    BY <1>3, <2>1 DEF ReaderAlive, Tidy, Locks
  <2> DEFINE z == WithA(<<>>)
  <2>3. /\ z \in Seq(Steps) /\ Len(z) = 2 /\ z[1] = s[1]
        /\ SubSeq(z, 2, 2) = <<Op("drop", "A")>>
    <3>1. z \in Seq(Steps) /\ Len(z) = 2 /\ z[1] = Op("claim", "A") /\ z[2] = Op("drop", "A")
      BY OnlyA
    <3> HIDE DEF z
    <3>2. /\ SubSeq(z, 2, 2) \in Seq(Steps) /\ Len(SubSeq(z, 2, 2)) = 1
          /\ SubSeq(z, 2, 2)[1] = Op("drop", "A")
      BY <3>1
    <3> DEFINE e == <<Op("drop", "A")>>
    <3>3. e \in Seq(Steps) /\ Len(e) = 1 /\ e[1] = Op("drop", "A")
      BY DEF Op, Steps, Locks
    <3> HIDE DEF e
    <3>4. SubSeq(z, 2, 2) = e
      BY <3>2, <3>3
    <3> QED
      BY <2>2, <3>1, <3>4 DEF e
  <2>4. z \in Lives("into_reader")
    BY DEF Lives
  <2> HIDE DEF z
  <2>5. Len(s) = 1
    BY <2>2
  <2>6. \A l \in Locks : (Holds(z, 0, l) <=> Holds(s, 0, l)) /\ (Holds(z, 1, l) <=> Holds(s, 1, l))
    BY <2>3, FirstSix
  <2>7. Fresh(z, 1)
    <3>1. \A j \in 1..1 : j = 1
      OBVIOUS
    <3>2. ASSUME NEW l \in Locks PROVE ~Holds(z, 1 - 1, l)
      BY FirstSix
    <3> QED
      BY <3>1, <3>2 DEF Fresh
  <2>8. todo'[c] = SubSeq(z, 1 + 1, Len(z))
    <3>1. todo'[c] = <<Op("drop", "A")>>
      BY <1>2, <1>6 DEF CarefulInv, TypeOK
    <3>2. SubSeq(z, 1 + 1, Len(z)) = SubSeq(z, 2, 2)
      BY <2>3
    <3> QED
      BY <2>3, <3>1, <3>2
  <2>9. At(c, z, 1)'
    BY <1>2, <1>3, <2>2, <2>3, <2>4, <2>5, <2>6, <2>7, <2>8 DEF At
  <2> QED
    BY <2>1, <2>2, <2>9
<1>7. call[c] # "unsafe_io" /\ \E z, j : At(c, z, j)'
  BY <1>5, <1>6
<1>8. \A d \in Cores : Unlocked(d)' <=> Unlocked(d)
  BY <1>2, <1>4, <1>7 DEF Only, Unlocked, Idle
<1>9. GuardsOwn'
  BY <1>2, <1>8 DEF CarefulInv, GuardsOwn, LockTracksGuard, Exclusive
<1>10. AloneInv'
  <2> SUFFICES ASSUME NEW x \in Cores, NEW y \in Cores, x # y, Unlocked(x)
               PROVE  held[y]["A"] = 0 /\ (Idle(y)' \/ call[y] \notin UsesA)
    BY <1>2, <1>8 DEF AloneInv
  <2>1. held[y]["A"] = 0 /\ (Idle(y) \/ call[y] \notin UsesA)
    BY DEF CarefulInv, AloneInv
  <2>2. CASE y = c
    BY <1>5, <1>6, <2>1, <2>2 DEF ReaderAlive, UsesA
  <2>3. CASE y # c
    BY <1>4, <2>1, <2>3 DEF Only, Idle
  <2> QED
    BY <2>2, <2>3
<1> QED
  BY <1>4, <1>7, <1>9, <1>10, PathStep DEF CarefulInv

\* The step lemma of the careful program.
LEMMA CarefulStep ==
  ASSUME Careful, CarefulInv, TypeOK', [Next]_vars
  PROVE  CarefulInv'
<1>1. CASE UNCHANGED vars
  BY <1>1 DEF vars, CarefulInv, GuardsOwn, Exclusive, LockTracksGuard, Unlocked, Idle,
              PathInv, At, AloneInv
<1> QED
  BY <1>1, InvokeKeeps, HandleKeeps, ClaimKeeps, BorrowKeeps, DropKeeps DEF Next, Step, Rest

\* At power-up no core is in a call.
LEMMA CarefulInit == Init => CarefulInv
<1> SUFFICES ASSUME Init PROVE CarefulInv
  OBVIOUS
<1>1. TypeOK /\ GuardsOwn /\ AloneInv
  BY BudgetAssumption DEF Init, TypeOK, Locks, GuardsOwn, Exclusive, LockTracksGuard, AloneInv, Unlocked, Idle
<1>2. ASSUME NEW c \in Cores PROVE At(c, <<>>, 0)
  <2>1. <<>> \in Lives(call[c]) /\ SubSeq(<<>>, 0 + 1, Len(<<>>)) = <<>> /\ 0 \in 0..Len(<<>>)
    BY DEF Init, Lives
  <2>2. Fresh(<<>>, 0)
    BY DEF Fresh
  <2>3. todo[c] = <<>> /\ \A l \in Locks : held[c][l] = 0 /\ ~Holds(<<>>, 0, l)
    BY FirstSix DEF Init
  <2> QED
    BY <2>1, <2>2, <2>3 DEF At
<1> QED
  BY <1>1, <1>2 DEF CarefulInv, PathInv

\* The inductive invariant of the careful program holds for ever.
LEMMA CarefulAlways == ASSUME Careful PROVE Spec => []CarefulInv
<1>1. CarefulInv /\ TypeOK' /\ [Next]_vars => CarefulInv'
  BY CarefulStep
<1> QED
  BY <1>1, CarefulInit, TypeCorrect, PTL DEF Spec

\* A program that drops its handles before the next call, and uses an unlocked
\* file while no other core works on buffer A, never has two live guards on a
\* cache buffer, although the guard of an unlocked file is made without a claim
\* and frees the spinlock of A when it is dropped.
THEOREM CarefulConsistent == ASSUME Careful PROVE Spec => []Consistent
<1>1. CarefulInv => Consistent
  BY DEF CarefulInv, Consistent
<1> QED
  BY <1>1, CarefulAlways, PTL

\* Such a program, on any number of cores and with any calls, hangs in the known
\* ways alone: a core waits for itself where an entry is made or a directory of
\* the root is deleted, two cores wait for each other when one of them deletes.
THEOREM KnownHangs == ASSUME Careful PROVE Spec => []HangsAreKnown
<1> QED
  BY CarefulHangs, CarefulAlways, PTL
=============================================================================
