-------------------------------- MODULE MCPaths --------------------------------
(* A volume of three nested directories for TLC, in every one a directory and *)
(* a file of the same names, so that a path which goes wrong opens another    *)
(* file; long names whose slots lie in the entry's sector or before it; one   *)
(* with long names only, of every length; and a root that holds files only.   *)
EXTENDS Paths, TLC

Small == ("d" :> "D") @@ ("f" :> "F") @@ ("x" :> "X")
Odd == {" ", "+"}
d == <<"D", "D">>
f == <<"F", "F", ".", "X">>
g == <<"G", "G">>
x == <<"X", "X">>
\* A short name that another system made of a long one.
Alias(t) == [base |-> <<t[1], "1">>, ext |-> <<" ">>]
File(t, c, s, l) == Entry(t, ShortOf(t), FALSE, c, s, l)
Folder(t, c, l) == Entry(t, ShortOf(t), TRUE, c, 0, l)
Long(t, isDir, c, s, l) == Entry(t, Alias(t), isDir, c, s, l)

Sub(self, up, rest) == <<Folder(Dot, self, "no"), Folder(DotDot, up, "no")>> \o rest
Nested ==
  (0 :> <<File(f, 3, 5, "no"), Folder(d, 4, "near"), File(g, 0, 0, "no")>>) @@
  (4 :> Sub(4, 0, <<Folder(d, 5, "far"), File(f, 6, 5, "near")>>)) @@
  (5 :> Sub(5, 4, <<File(f, 7, 5, "no"), Folder(d, 8, "no")>>)) @@
  (8 :> Sub(8, 5, <<File(f, 9, 5, "far")>>))
Flat == 0 :> <<File(f, 2, 5, "near"), File(d, 4, 5, "no"), File(g, 0, 0, "near")>>
Bare0 == 0 :> <<>>
\* Names that no short name holds, some of them with the same short form; and a
\* short name that is not filled.
small == <<"f", "f", ".", "x">>
long1 == <<"d", "d", "x", "x">>
long2 == <<"d", "d", "x", "f", ".", "d">>
one == <<"F">>
Wordy ==
  (0 :> <<Long(long1, TRUE, 4, 0, "near"), Long(small, FALSE, 3, 5, "near"), Long(one, FALSE, 7, 5, "far")>>) @@
  (4 :> Sub(4, 0, <<Long(long2, FALSE, 5, 5, "near"), Long(long1, FALSE, 6, 5, "far")>>))
Unfilled == 0 :> <<Entry(<<>>, [base |-> <<"F", " ">>, ext |-> <<" ">>], FALSE, 3, 5, "no"),
                   Entry(<<>>, ShortOf(long1), FALSE, 4, 5, "no"), File(f, 5, 5, "no")>>
SomeTrees == {Nested, Flat, Bare0, Wordy, Unfilled}

SomeNames == {d, f, Dot, DotDot, small}
Steps == {<<>>} \union UNION {[1..n -> {d, DotDot}] : n \in 1..3}
           \union {<<d, d, DotDot, DotDot>>, <<d, d, d, DotDot>>, <<d, Dot, d>>, <<d, Dot>>, <<x>>}
Join(n) == FoldLeft(LAMBDA r, t : IF r = <<>> THEN <<t>> ELSE r \o <<Sep, t>>, <<>>, n)
SomeRoutes ==
  {Join(s) : s \in Steps} \union {<<Sep>> \o Join(s) \o <<Sep, f>> : s \in Steps}
    \union {<<f>>, <<x>>, <<Sep, f, Sep, d>>, <<Sep, g>>, <<Sep, Sep, f>>, <<d, Sep>>,
            <<Dot, Sep, d, Sep, Sep, d, Sep, Sep, f>>,
            <<long1>>, <<one>>, <<Sep, long2>>, <<long1, Sep, long1>>, <<long1, Sep, long2>>,
            <<long1, Sep, DotDot, Sep, small>>}
SomeModes == {{}, {"write", "create", "truncate"}, {"write", "append"},
              {"append", "truncate"}, {"create"}}
=============================================================================
