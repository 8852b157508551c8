--------------------------------- MODULE Names ---------------------------------
(***************************************************************************)
(* The names of directory entries (src/src/fs/volume/name.rs) and how one   *)
(* that is asked for is compared with them (DirEntryFull::eq, file.rs).     *)
(* A name is a sequence of characters; a short name has a base and an       *)
(* extension, both filled up with spaces.                                   *)
(***************************************************************************)
EXTENDS Integers, Sequences, FiniteSetsExt

CONSTANTS
  BaseSize,   \* ShortName::SIZE_NAME, 8 in the code
  ExtSize,    \* ShortName::SIZE_EXT, 3 in the code
  Capital,    \* the capital of each small letter
  Unfit       \* characters that a short name may not have

ASSUME SizesAssumption == BaseSize \in Nat /\ BaseSize >= 2 /\ ExtSize \in Nat \ {0}
ASSUME CharactersAssumption == " " \in Unfit /\ DOMAIN Capital \cap Unfit = {}

Pad(t, n) == [i \in 1..n |-> IF i <= Len(t) THEN t[i] ELSE " "]
Dot == <<".">>
DotDot == <<".", ".">>
\* ShortName::empty, SELF and PARENT.
Blank == [base |-> Pad(<<>>, BaseSize), ext |-> Pad(<<>>, ExtSize)]
SelfName   == [Blank EXCEPT !.base = Pad(Dot, BaseSize)]
ParentName == [Blank EXCEPT !.base = Pad(DotDot, BaseSize)]

\* transform: it is applied to the spaces of the padding, too.
Transform(c) == IF c \in DOMAIN Capital THEN Capital[c] ELSE IF c \in Unfit THEN "_" ELSE c

\* The last place of a character, 0 if there is none.
LastOf(c, t) == Max({0} \union {i \in DOMAIN t : t[i] = c})
BaseOf(t) == IF LastOf(".", t) = 0 THEN t ELSE SubSeq(t, 1, LastOf(".", t) - 1)
ExtOf(t) == SubSeq(t, Len(BaseOf(t)) + 2, Len(t))

\* ShortName::from_slice: a base that is too long ends in "~1", an extension that is
\* too long is left out, and its letters stay small.
ShortOf(t) ==
  CASE t = <<>> -> Blank
    [] t = Dot -> SelfName
    [] t = DotDot -> ParentName
    [] OTHER ->
         LET b == IF Len(BaseOf(t)) > BaseSize
                  THEN SubSeq(t, 1, BaseSize - 2) \o <<"~", "1">> ELSE Pad(BaseOf(t), BaseSize)
         IN [base |-> [i \in 1..BaseSize |-> Transform(b[i])],
             ext  |-> Pad(IF Len(ExtOf(t)) > ExtSize THEN <<>> ELSE ExtOf(t), ExtSize)]

\* DirEntryFull::eq: a long name, if the entry has one, as it is, or the short one.
Matches(e, t) == IF e.long = "no" THEN e.short = ShortOf(t) ELSE e.name = t

-----------------------------------------------------------------------------
(* For the properties: the name an entry is known by outside of this code,  *)
(* and the names that ShortOf leaves as they are.                           *)

Trim(t) == SelectSeq(t, LAMBDA c : c # " ")
Shown(e) ==
  IF e.long # "no" THEN e.name
  ELSE Trim(e.short.base) \o (IF Trim(e.short.ext) = <<>> THEN <<>> ELSE <<".">> \o Trim(e.short.ext))
Fits(t) ==
  \/ t \in {Dot, DotDot}
  \/ /\ Len(BaseOf(t)) = BaseSize /\ Len(ExtOf(t)) <= ExtSize /\ LastOf(".", t) # Len(t)
     /\ \A i \in DOMAIN t : t[i] \notin Unfit /\ t[i] \notin DOMAIN Capital
=============================================================================
