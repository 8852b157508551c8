------------------------------ MODULE MCDirListing ------------------------------
(* A directory of two clusters with five names for TLC, in every order: two   *)
(* full pieces, none, half a piece, none, and a name another system deleted.  *)
EXTENDS DirListing, SequencesExt

CONSTANTS n1, n2, n3, n4, n5
Names == {n1, n2, n3, n4, n5}
ShortAndLong == {n1, n2}
Sizes == (n1 :> 4) @@ (n2 :> 0) @@ (n3 :> 1) @@ (n4 :> 5) @@ (n5 :> 0)
TwoClusters == <<2, 1>>

\* The entries of a file: its pieces, last one first, and its short entry.
Run(f, pieces, short) ==
  [i \in 1..(Parts(f) + 1) |-> IF i > Parts(f) THEN Short(f, short) ELSE Piece(f, Parts(f) + 1 - i, pieces)]
\* n4 is deleted; with orphans TRUE its pieces were left behind.
Concat(s, orphans) == FlattenSeq([i \in 1..Len(s) |-> Run(s[i], orphans \/ s[i] # n4, s[i] # n4)])
Orders(S) == {s \in [1..Cardinality(S) -> S] : \A i, j \in DOMAIN s : i # j => s[i] # s[j]}

\* Sequences of entries laid out over the sectors of the chain.
Layout(q) == [s \in Sectors |-> [o \in 0..(Slots - 1) |->
                LET k == Rank(<<s, o>>) - Rank(<<FirstOf(1), 0>>) + 1
                IN IF k <= Len(q) THEN q[k] ELSE Zero]]
Tidy == {Layout(Concat(q, FALSE)) : q \in Orders(Names \ {n4})}
Used == {Layout(<<Label>> \o Concat(q, FALSE)) : q \in Orders(Names)}
          \union {Layout(<<Label>> \o Concat(q, TRUE)) : q \in Orders(Names)}
TidyOrUsed == Tidy \union Used
=============================================================================
