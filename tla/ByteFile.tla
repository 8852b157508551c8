------------------------------- MODULE ByteFile -------------------------------
(***************************************************************************)
(* What reading an open file promises: a read returns the bytes of the     *)
(* file that follow the cursor, in order, none skipped and none repeated,  *)
(* and comes back short only at the end of the file.                       *)
(***************************************************************************)
EXTENDS Naturals, Sequences

CONSTANTS
  Content(_),  \* Content(p): the byte of the file at position p
  Stored,      \* number of bytes of the file that are stored
  MaxLen       \* bound: length of the caller's buffer

VARIABLES
  pos,    \* the cursor
  size,   \* the size of the file
  want,   \* length of the caller's buffer
  got,    \* the bytes delivered so far
  busy,   \* a read is running
  res     \* how the last read returned: "none", "ok" or "err"

vars == <<pos, size, want, got, busy, res>>

End == IF size < Stored THEN size ELSE Stored

Init ==
  /\ pos = 0 /\ size \in Nat
  /\ want = 0 /\ got = <<>>
  /\ busy = FALSE /\ res = "none"

Call ==
  /\ ~busy /\ busy' = TRUE
  /\ want' \in 1..MaxLen
  /\ got' = <<>>
  /\ UNCHANGED <<pos, size, res>>

Deliver ==
  /\ busy
  /\ \E n \in 1..(want - Len(got)) :
       /\ pos + n <= End
       /\ got' = got \o [i \in 1..n |-> Content(pos + i - 1)]
       /\ pos' = pos + n
  /\ UNCHANGED <<size, want, busy, res>>

\* All that was asked for, or everything up to the end of the file.
Done ==
  /\ busy /\ busy' = FALSE
  /\ Len(got) = want \/ pos >= End
  /\ res' = "ok"
  /\ UNCHANGED <<pos, size, want, got>>

\* The device failed; the cursor stays behind the bytes already delivered.
Fail ==
  /\ busy /\ busy' = FALSE
  /\ res' = "err"
  /\ UNCHANGED <<pos, size, want, got>>

\* A seek sets the cursor to a place in the file.  Which one the caller meant is no
\* part of this promise: the code takes SeekFrom::End back from the cursor and not
\* from the end of the file (file.rs 755-757); SeekTarget in FileCursor does as well.
Seek ==
  /\ ~busy
  /\ pos' \in 0..size
  /\ UNCHANGED <<size, want, got, busy, res>>

\* A shorter size; a cursor inside what is left moves to the new end.
Truncate ==
  /\ ~busy
  /\ size' \in 0..size
  /\ pos' = IF size' > pos THEN size' ELSE pos
  /\ UNCHANGED <<want, got, busy, res>>

Next == Call \/ Deliver \/ Done \/ Fail \/ Seek \/ Truncate

Spec == Init /\ [][Next]_vars
=============================================================================
