------------------------------- MODULE Tga_proofs -------------------------------
(***************************************************************************)
(* The points of a picture are handed out once, inside of it and in the     *)
(* order of its rows, the bytes that were read ahead are the picture's, and *)
(* while nothing fails the pixels are those of the file, for every set of   *)
(* pictures, every size of the buffer and every cutting of the reads.       *)
(***************************************************************************)
EXTENDS Tga, FiniteSetTheorems, TLAPS

Points == [x : Nat, y : Int]
Fields == {"at", "want", "use", "val", "maps", "home", "got", "point"}

\* The point of the iterator stays in its row; a picture of no columns has no rows.
PointInv ==
  /\ pic \in Pictures
  /\ point \in Points
  /\ point.x = 0 \/ point.x < pic.head.width

\* A running call has taken a point of the picture, and the iterator is at the next.
CallInv ==
  /\ Fields \subseteq DOMAIN call
  /\ call.at # "idle" =>
       /\ call.point \in Points
       /\ call.point.x < pic.head.width /\ call.point.y \in 0..(pic.head.height - 1)
       /\ point = NextPoint(pic.head, call.point)

\* What was handed out lies before the point that comes next.
Coming == IF call.at = "idle" THEN point ELSE call.point
OutInv ==
  /\ \E S : out \in Seq(S)
  /\ state = "new" => out = <<>> /\ call.at = "idle"
  /\ PointsInOrder
  /\ out # <<>> => Before(pic.head, out[Len(out)].at, Coming)

Inv == PointInv /\ CallInv /\ OutInv

-----------------------------------------------------------------------------
\* A point of the picture comes before the one after it, which is in a row, too.
LEMMA NextIsAfter ==
  ASSUME NEW h, h.width \in Nat, h.height \in Nat,
         NEW p \in Points, p.x < h.width
  PROVE  /\ NextPoint(h, p) \in Points
         /\ Before(h, p, NextPoint(h, p))
         /\ NextPoint(h, p).x = 0 \/ NextPoint(h, p).x < h.width
<1>1. CASE p.x + 1 < h.width
  <2>1. NextPoint(h, p) = [p EXCEPT !.x = p.x + 1]
    BY <1>1 DEF NextPoint
  <2> QED
    BY <1>1, <2>1 DEF Before, Points
<1>2. CASE ~(p.x + 1 < h.width)
  <2>1. NextPoint(h, p) = [x |-> 0, y |-> IF IsFlipped(h) THEN p.y - 1 ELSE p.y + 1]
    BY <1>2 DEF NextPoint
  <2> QED
    BY <1>2, <2>1 DEF Before, Points
<1> QED
  BY <1>1, <1>2

\* The order of points is transitive.
LEMMA BeforeIsTransitive ==
  ASSUME NEW h, NEW p, NEW q, NEW r,
         p.x \in Int, p.y \in Int, q.x \in Int, q.y \in Int, r.x \in Int, r.y \in Int,
         Before(h, p, q), Before(h, q, r)
  PROVE  Before(h, p, r)
BY DEF Before

\* The fields of the header of a picture.
LEMMA HeadSizes ==
  PointInv => /\ pic.head.width \in Nat /\ pic.head.height \in Nat
              /\ pic.head.height > 0 => pic.head.width > 0
BY PicturesAssumption DEF PointInv

-----------------------------------------------------------------------------
\* A picture that is not open yet has handed out nothing.
LEMMA InitInv == Init => Inv
<1> SUFFICES ASSUME Init PROVE Inv
  OBVIOUS
<1>1. PointInv
  BY DEF Init, PointInv, Points
<1>2. CallInv
  BY DEF Init, CallInv, Idle, Fields
<1>3. OutInv
  <2>1. out \in Seq({})
    BY DEF Init
  <2>2. PointsInOrder
    BY DEF Init, PointsInOrder
  <2> QED
    BY <2>1, <2>2 DEF Init, OutInv, Idle
<1> QED
  BY <1>1, <1>2, <1>3 DEF Inv

\* A step that leaves the points alone, and its call running or idle.
LEMMA CallGoesOn ==
  ASSUME Inv, UNCHANGED <<pic, point, out>>, state' = state, call.at # "idle",
         Fields \subseteq DOMAIN call', call'.at # "idle", call'.point = call.point
  PROVE  Inv'
<1>1. PointInv'
  BY DEF Inv, PointInv
<1>2. CallInv'
  BY DEF Inv, CallInv
<1>3. OutInv'
  BY DEF Inv, OutInv, PointsInOrder, Coming
<1> QED
  BY <1>1, <1>2, <1>3 DEF Inv

\* A call that ends without a pixel: its point is used up.
LEMMA CallGivesUp ==
  ASSUME Inv, UNCHANGED <<pic, point, out>>, state' = state \/ state' = "ended",
         call.at # "idle", call' = Idle
  PROVE  Inv'
<1>1. PointInv'
  BY DEF Inv, PointInv
<1>2. CallInv'
  BY DEF CallInv, Idle, Fields
<1>3. OutInv'
  <2>1. out # <<>> => Before(pic.head, out[Len(out)].at, point)
    <3> SUFFICES ASSUME out # <<>> PROVE Before(pic.head, out[Len(out)].at, point)
      OBVIOUS
    <3>1. Before(pic.head, out[Len(out)].at, call.point)
      BY DEF Inv, OutInv, Coming
    <3>2. Before(pic.head, call.point, point) /\ call.point \in Points /\ point \in Points
      BY NextIsAfter, HeadSizes DEF Inv, CallInv, PointInv
    <3>3. out[Len(out)].at.x \in Int /\ out[Len(out)].at.y \in Int
      <4>1. PICK S : out \in Seq(S)
        BY DEF Inv, OutInv
      <4>2. Len(out) \in DOMAIN out
        BY <4>1
      <4> QED
        BY <4>2, HeadSizes DEF Inv, OutInv, PointsInOrder
    <3> QED
      BY <3>1, <3>2, <3>3, BeforeIsTransitive DEF Points
  <2> QED
    BY <2>1 DEF Inv, OutInv, PointsInOrder, Coming, Idle
<1> QED
  BY <1>1, <1>2, <1>3 DEF Inv

\* A call that hands out its pixel.
LEMMA CallHandsOut ==
  ASSUME Inv, UNCHANGED <<pic, point>>, state' = state, call.at # "idle", call' = Idle,
         NEW c, out' = Append(out, [at |-> call.point, color |-> c])
  PROVE  Inv'
<1> DEFINE e == [at |-> call.point, color |-> c]
<1>1. PointInv'
  BY DEF Inv, PointInv
<1>2. CallInv'
  BY DEF CallInv, Idle, Fields
<1>3. PICK S : out \in Seq(S)
  BY DEF Inv, OutInv
<1>4. /\ out' \in Seq(S \union {e})
      /\ Len(out') = Len(out) + 1 /\ Len(out) \in Nat
      /\ DOMAIN out' = 1..(Len(out) + 1) /\ DOMAIN out = 1..Len(out)
      /\ \A k \in 1..Len(out) : out'[k] = out[k]
      /\ out'[Len(out) + 1] = e
  BY <1>3
<1>5. PointsInOrder'
  <2> SUFFICES ASSUME NEW k \in DOMAIN out'
               PROVE  /\ out'[k].at.x \in 0..(pic.head.width - 1)
                      /\ out'[k].at.y \in 0..(pic.head.height - 1)
                      /\ k > 1 => Before(pic.head, out'[k - 1].at, out'[k].at)
    BY DEF PointsInOrder
  <2>1. CASE k \in 1..Len(out)
    <3>1. out'[k] = out[k] /\ (k > 1 => out'[k - 1] = out[k - 1])
      BY <1>4, <2>1
    <3> QED
      BY <1>4, <2>1, <3>1 DEF Inv, OutInv, PointsInOrder
  <2>2. CASE k = Len(out) + 1
    <3>0. k > 1 => k - 1 = Len(out) /\ Len(out) \in 1..Len(out)
      BY <1>4, <2>2
    <3>1. out'[k] = e /\ (k > 1 => out'[k - 1] = out[Len(out)] /\ out # <<>>)
      <4>1. out'[k] = e
        BY <1>4, <2>2
      <4>2. k > 1 => out'[k - 1] = out[Len(out)]
        BY <1>4, <3>0
      <4>3. out = <<>> => Len(out) = 0
        OBVIOUS
      <4> QED
        BY <1>4, <3>0, <4>1, <4>2, <4>3
    <3>2. e.at = call.point
      OBVIOUS
    <3>3. e.at.x \in 0..(pic.head.width - 1) /\ e.at.y \in 0..(pic.head.height - 1)
      BY <3>2, HeadSizes DEF Inv, CallInv, Points
    <3>4. k > 1 => Before(pic.head, out[Len(out)].at, e.at)
      BY <3>1, <3>2 DEF Inv, OutInv, Coming
    <3> QED
      BY <3>1, <3>3, <3>4
  <2> QED
    BY <1>4, <2>1, <2>2
<1>6. Before(pic.head, call.point, point)
  BY NextIsAfter, HeadSizes DEF Inv, CallInv
<1>7. OutInv'
  <2>1. out'[Len(out')].at = call.point
    BY <1>4
  <2>2. Coming' = point
    BY DEF Coming, Idle
  <2>3. state' = "new" => FALSE
    BY DEF Inv, OutInv
  <2> QED
    BY <1>4, <1>5, <1>6, <2>1, <2>2, <2>3 DEF OutInv
<1> QED
  BY <1>1, <1>2, <1>7 DEF Inv

\* The look-up of a colour goes on or hands out the pixel.
LEMMA MappedKeeps ==
  ASSUME Inv, UNCHANGED <<pic, point>>, state' = state, call.at # "idle",
         NEW c, Mapped(c)
  PROVE  Inv'
<1>1. CASE call.maps > 1
  <2>1. call' = Map(call, Expand(pic.head, c), call.maps - 1) /\ out' = out
    BY <1>1 DEF Mapped
  <2>2. Fields \subseteq DOMAIN call' /\ call'.at = "map" /\ call'.point = call.point
    BY <2>1 DEF Map, Inv, CallInv, Fields
  <2> QED
    BY <2>1, <2>2, CallGoesOn
<1>2. CASE ~(call.maps > 1)
  <2>1. /\ call' = Idle
        /\ out' = Append(out, [at |-> call.point, color |-> Fix(pic.head, Expand(pic.head, c))])
    BY <1>2 DEF Mapped
  <2> QED
    BY <2>1, CallHandsOut
<1> QED
  BY <1>1, <1>2

-----------------------------------------------------------------------------
\* Opening a picture puts the iterator at its first point, before any pixel.
LEMMA OpenKeeps == Inv /\ Open => Inv'
<1> SUFFICES ASSUME Inv, Open PROVE Inv'
  OBVIOUS
<1>1. PointInv'
  <2>1. FirstPoint(pic.head) \in Points /\ FirstPoint(pic.head).x = 0
    BY HeadSizes DEF Inv, FirstPoint, Points
  <2> QED
    BY <2>1 DEF Inv, PointInv, Open
<1>2. out = <<>> /\ call.at = "idle"
  BY DEF Open, Inv, OutInv
<1>3. CallInv'
  BY <1>2 DEF Inv, CallInv, Open
<1>4. state' # "new"
  BY DEF Open, Verdict
<1>5. OutInv'
  BY <1>2, <1>4 DEF Inv, OutInv, PointsInOrder, Open, history
<1> QED
  BY <1>1, <1>3, <1>5 DEF Inv

\* A call of next takes the point of the iterator, which goes on.
LEMMA NextOfKeeps == Inv /\ NextOf => Inv'
<1> SUFFICES ASSUME Inv, NextOf PROVE Inv'
  OBVIOUS
<1> USE DEF file, ahead, packet, history
<1>1. CASE ~HasPoint(pic.head, point)
  <2>1. UNCHANGED <<pic, point, call, out>> /\ state' = "ended"
    BY <1>1 DEF NextOf
  <2> QED
    BY <2>1 DEF Inv, PointInv, CallInv, OutInv, PointsInOrder, Coming
<1>2. CASE HasPoint(pic.head, point)
  <2>1. /\ UNCHANGED <<pic, out, state>> /\ state = "open" /\ call.at = "idle"
        /\ point' = NextPoint(pic.head, point)
    BY <1>2 DEF NextOf
  <2>2. /\ Fields \subseteq DOMAIN call' /\ call'.at # "idle"
        /\ call'.point = point
    <3> DEFINE c == [Idle EXCEPT !.point = point]
    <3>1. \/ call' = Ask(c, PixelSize(pic.head), "pixel")
          \/ call' = Map(c, cur, 1)
          \/ call' = Ask(c, PixelSize(pic.head), "copy")
          \/ call' = Ask(c, 1, "packet")
      BY <1>2 DEF NextOf, NextValue
    <3> QED
      BY <3>1 DEF Ask, Map, Idle, Fields
  <2>3. /\ point \in Points /\ point.x < pic.head.width
        /\ point.y \in 0..(pic.head.height - 1)
    BY <1>2, HeadSizes DEF HasPoint, Inv, PointInv, Points
  <2>4. PointInv'
    BY <2>1, <2>3, NextIsAfter, HeadSizes DEF Inv, PointInv
  <2>5. CallInv'
    BY <2>1, <2>2, <2>3 DEF CallInv
  <2>6. OutInv'
    BY <2>1, <2>2 DEF Inv, OutInv, PointsInOrder, Coming
  <2> QED
    BY <2>4, <2>5, <2>6 DEF Inv
<1> QED
  BY <1>1, <1>2

\* The bytes a value is made of, or the packet it is in, are no matter here.
LEMMA TakeKeeps == Inv /\ Take => Inv'
<1> SUFFICES ASSUME Inv, Take PROVE Inv'
  OBVIOUS
<1>1. \/ \E v, n : call' = Map(call, v, n)
      \/ \E n, u : call' = Ask(call, n, u)
  BY DEF Take, NextValue
<1>2. Fields \subseteq DOMAIN call' /\ call'.at # "idle" /\ call'.point = call.point
  BY <1>1 DEF Map, Ask, Inv, CallInv, Fields
<1> QED
  BY <1>2, CallGoesOn DEF Take, file, history

\* Every step keeps the invariant.
LEMMA NextInv == Inv /\ [Next]_vars => Inv'
<1> SUFFICES ASSUME Inv, [Next]_vars PROVE Inv'
  OBVIOUS
<1> USE DEF file, ahead, packet, history
<1>1. CASE Open
  BY <1>1, OpenKeeps
<1>2. CASE NextOf
  BY <1>2, NextOfKeeps
<1>3. CASE Refill
  BY <1>3, CallGoesOn DEF Refill, Short, Inv, CallInv
<1>4. CASE RefillEmpty
  BY <1>4, CallGivesUp DEF RefillEmpty, Short
<1>5. CASE Take
  BY <1>5, TakeKeeps
<1>6. CASE MapKnown
  <2>1. \E c : Mapped(c)
    BY <1>6 DEF MapKnown
  <2> QED
    BY <1>6, <2>1, MappedKeeps DEF MapKnown
<1>7. CASE MapSeek
  <2>1. Fields \subseteq DOMAIN call' /\ call'.at = "entry" /\ call'.point = call.point
    BY <1>7 DEF MapSeek, Inv, CallInv, Fields
  <2> QED
    BY <1>7, <2>1, CallGoesOn DEF MapSeek
<1>8. CASE MapRead
  <2>1. Fields \subseteq DOMAIN call' /\ call'.at = "back" /\ call'.point = call.point
    BY <1>8 DEF MapRead, Inv, CallInv, Fields
  <2> QED
    BY <1>8, <2>1, CallGoesOn DEF MapRead
<1>9. CASE MapBack
  <2>1. \E c : Mapped(c)
    BY <1>9 DEF MapBack
  <2> QED
    BY <1>9, <2>1, MappedKeeps DEF MapBack
<1>10. CASE OpenFails
  <2>1. UNCHANGED <<pic, point, call, out>> /\ state' = "Io"
    BY <1>10 DEF OpenFails
  <2> QED
    BY <2>1 DEF Inv, PointInv, CallInv, OutInv, PointsInOrder, Coming
<1>11. CASE RefillFails
  BY <1>11, CallGivesUp DEF RefillFails, Short
<1>12. CASE MapFails
  BY <1>12, CallGivesUp DEF MapFails
<1>13. CASE UNCHANGED vars
  BY <1>13 DEF vars, Inv, PointInv, CallInv, OutInv, PointsInOrder, Coming
<1> QED
  BY <1>1, <1>2, <1>3, <1>4, <1>5, <1>6, <1>7, <1>8, <1>9, <1>10, <1>11, <1>12, <1>13
  DEF Next, Step, Fault

\* Whatever fails and however the reader cuts the bytes, the iterators hand out
\* each point at most once, inside the picture and in the order of its rows
\* (Point::next, Raw::next, Compressed::next).
THEOREM PointsDrawnOnce == Spec => []PointsInOrder
<1>1. Inv => PointsInOrder
  BY DEF Inv, OutInv
<1> QED
  BY <1>1, InitInv, NextInv, PTL DEF Spec

-----------------------------------------------------------------------------
(* Reading ahead: the buffer, the reader and the look-up of a colour.      *)

Byte == 0..255
Colour == [1..4 -> Byte]

\* The place where the next byte of the pixels is read, at once or after a look-up.
Home == IF call.at \in {"entry", "back"} THEN call.home ELSE rd

\* What is kept from one pixel to the next.
KeptInv ==
  /\ buf \in Seq(Byte) /\ cur \in Colour
  /\ \A e \in cache : e.last \in Colour
  /\ state = "new" => buf = <<>>
  /\ state = "open" => Verdict(pic.head) = "open" /\ rd >= HeaderSize

\* What a running call needs; a run of equal pixels has been counted before its
\* value is read.
RunInv ==
  /\ call.at \in {"idle", "read", "map", "entry", "back"}
  /\ call.at # "idle" => state = "open"
  /\ call.at = "read" =>
       /\ call.want \in 1..4
       /\ call.use = "packet" => call.want = 1
       /\ call.use = "run" => count >= 1
  /\ call.at \in {"map", "entry", "back"} => call.val \in Colour
  /\ call.at \in {"entry", "back"} => call.home \in Nat /\ call.home >= HeaderSize
  /\ call.at = "back" => call.got \in Seq(Byte)

\* The bytes in the buffer are in the file, behind its header.
AheadInv ==
  state = "open" /\ errors = 0 =>
    /\ buf = Bytes(pic, Home - Len(buf), Len(buf))
    /\ Len(buf) > 0 => Home - Len(buf) >= HeaderSize /\ Home <= Size(pic)

ReadInv == Inv /\ TypeOK /\ KeptInv /\ RunInv /\ AheadInv

\* A piece of a sequence, and the piece after it put behind it.
LEMMA PieceOf ==
  ASSUME NEW S, NEW s \in Seq(S), NEW m \in Int, NEW n \in Nat, n > 0 => m >= 1 /\ m + n - 1 <= Len(s)
  PROVE  /\ SubSeq(s, m, m + n - 1) \in Seq(S)
         /\ Len(SubSeq(s, m, m + n - 1)) = n
         /\ \A k \in 1..n : SubSeq(s, m, m + n - 1)[k] = s[m + k - 1]
<1> DEFINE t == [k \in 1..n |-> s[m + k - 1]]
<1>1. SubSeq(s, m, m + n - 1) = t
  OBVIOUS
<1>2. t \in [1..n -> S]
  OBVIOUS
<1>3. t \in Seq(S) /\ Len(t) = n /\ \A k \in 1..n : t[k] = s[m + k - 1]
  BY <1>2
<1> QED
  BY <1>1, <1>3

\* The bytes of a file behind its header.
LEMMA FileBytes ==
  ASSUME NEW p \in Pictures, NEW i \in Int, NEW n \in Nat,
         n > 0 => i >= HeaderSize /\ i + n <= Size(p)
  PROVE  /\ Bytes(p, i, n) \in Seq(Byte)
         /\ Len(Bytes(p, i, n)) = n
         /\ \A k \in 1..n : Bytes(p, i, n)[k] = p.rest[i + k - HeaderSize]
<1> DEFINE m == i + 1 - HeaderSize
<1>1. m \in Int /\ m + n - 1 = i + n - HeaderSize /\ \A k \in 1..n : m + k - 1 = i + k - HeaderSize
  BY DEF HeaderSize
<1>2. p.rest \in Seq(Byte) /\ (n > 0 => m >= 1 /\ m + n - 1 <= Len(p.rest))
  BY FilesAssumption DEF Byte, Size, HeaderSize
<1>3. Bytes(p, i, n) = SubSeq(p.rest, m, m + n - 1)
  BY <1>1 DEF Bytes
<1> HIDE DEF m
<1>4. /\ SubSeq(p.rest, m, m + n - 1) \in Seq(Byte)
      /\ Len(SubSeq(p.rest, m, m + n - 1)) = n
      /\ \A k \in 1..n : SubSeq(p.rest, m, m + n - 1)[k] = p.rest[m + k - 1]
  BY <1>1, <1>2, PieceOf
<1> QED
  BY <1>1, <1>3, <1>4

\* Sequences are equal when their elements are.
LEMMA SameElements ==
  ASSUME NEW S, NEW s \in Seq(S), NEW t \in Seq(S), Len(s) = Len(t),
         \A k \in 1..Len(s) : s[k] = t[k]
  PROVE  s = t
  OBVIOUS

\* Two sequences, one after the other.
LEMMA Joined ==
  ASSUME NEW S, NEW s \in Seq(S), NEW t \in Seq(S)
  PROVE  s \o t \in Seq(S) /\ Len(s \o t) = Len(s) + Len(t)
  OBVIOUS

\* Bytes of a file followed by those right behind them.
LEMMA BytesGoOn ==
  ASSUME NEW p \in Pictures, NEW i \in Int, NEW n \in Nat, NEW m \in Nat,
         n + m > 0 => i >= HeaderSize /\ i + n + m <= Size(p)
  PROVE  Bytes(p, i, n) \o Bytes(p, i + n, m) = Bytes(p, i, n + m)
<1> DEFINE a == Bytes(p, i, n)
<1> DEFINE b == Bytes(p, i + n, m)
<1> DEFINE c == Bytes(p, i, n + m)
<1>1. /\ a \in Seq(Byte) /\ Len(a) = n
      /\ \A k \in 1..n : a[k] = p.rest[i + k - HeaderSize]
  BY FileBytes DEF Size, HeaderSize
<1>2. /\ b \in Seq(Byte) /\ Len(b) = m
      /\ \A k \in 1..m : b[k] = p.rest[(i + n) + k - HeaderSize]
  <2>1. i + n \in Int /\ (m > 0 => i + n >= HeaderSize /\ (i + n) + m <= Size(p))
    BY DEF HeaderSize
  <2> QED
    BY <2>1, FileBytes
<1>3. /\ c \in Seq(Byte) /\ Len(c) = n + m
      /\ \A k \in 1..(n + m) : c[k] = p.rest[i + k - HeaderSize]
  <2>1. n + m \in Nat /\ (n + m > 0 => i >= HeaderSize /\ i + (n + m) <= Size(p))
    OBVIOUS
  <2> QED
    BY <2>1, FileBytes
<1> HIDE DEF a, b, c
<1>4. /\ a \o b \in Seq(Byte) /\ Len(a \o b) = n + m
      /\ \A k \in 1..(n + m) : (a \o b)[k] = IF k <= n THEN a[k] ELSE b[k - n]
  BY <1>1, <1>2
<1>5. ASSUME NEW k \in 1..(n + m) PROVE (a \o b)[k] = c[k]
  <2>1. CASE k <= n
    <3>1. k \in 1..n
      BY <2>1
    <3> QED
      BY <1>1, <1>3, <1>4, <2>1, <3>1
  <2>2. CASE ~(k <= n)
    <3>1. k - n \in 1..m /\ (i + n) + (k - n) - HeaderSize = i + k - HeaderSize
      BY <2>2 DEF HeaderSize
    <3> QED
      BY <1>2, <1>3, <1>4, <2>2, <3>1
  <2> QED
    BY <2>1, <2>2
<1>6. a \o b = c
  BY <1>3, <1>4, <1>5, SameElements
<1> QED
  BY <1>6 DEF a, b, c

\* What is left of bytes of a file when the first ones are dropped.
LEMMA BytesDropped ==
  ASSUME NEW p \in Pictures, NEW i \in Int, NEW n \in Nat, NEW m \in 0..n,
         n > 0 => i >= HeaderSize /\ i + n <= Size(p)
  PROVE  SubSeq(Bytes(p, i, n), m + 1, n) = Bytes(p, i + m, n - m)
<1> DEFINE a == Bytes(p, i, n)
<1> DEFINE b == SubSeq(a, m + 1, n)
<1> DEFINE c == Bytes(p, i + m, n - m)
<1>1. /\ a \in Seq(Byte) /\ Len(a) = n
      /\ \A k \in 1..n : a[k] = p.rest[i + k - HeaderSize]
  BY FileBytes
<1>2. /\ b \in Seq(Byte) /\ Len(b) = n - m
      /\ \A k \in 1..(n - m) : b[k] = a[m + k]
  <2> HIDE DEF a
  <2>1. /\ m + 1 \in Int /\ n - m \in Nat /\ (m + 1) + (n - m) - 1 = n
        /\ n - m > 0 => m + 1 >= 1 /\ (m + 1) + (n - m) - 1 <= Len(a)
        /\ \A k \in 1..(n - m) : (m + 1) + k - 1 = m + k
    BY <1>1
  <2> DEFINE q == m + 1
  <2> DEFINE r == n - m
  <2>2. q \in Int /\ r \in Nat /\ a \in Seq(Byte) /\ (r > 0 => q >= 1 /\ q + r - 1 <= Len(a))
    BY <1>1, <2>1
  <2> HIDE DEF q, r
  <2>3. /\ SubSeq(a, q, q + r - 1) \in Seq(Byte) /\ Len(SubSeq(a, q, q + r - 1)) = r
        /\ \A k \in 1..r : SubSeq(a, q, q + r - 1)[k] = a[q + k - 1]
    BY ONLY <2>2, PieceOf
  <2>4. q + r - 1 = n /\ \A k \in 1..r : q + k - 1 = m + k
    BY <2>1 DEF q, r
  <2> QED
    BY <2>3, <2>4 DEF q, r
<1>3. /\ c \in Seq(Byte) /\ Len(c) = n - m
      /\ \A k \in 1..(n - m) : c[k] = p.rest[(i + m) + k - HeaderSize]
  <2>1. /\ i + m \in Int /\ n - m \in Nat
        /\ n - m > 0 => i + m >= HeaderSize /\ (i + m) + (n - m) <= Size(p)
    BY DEF HeaderSize
  <2> QED
    BY <2>1, FileBytes
<1> HIDE DEF a, b, c
<1>4. ASSUME NEW k \in 1..(n - m) PROVE b[k] = c[k]
  <2>1. m + k \in 1..n /\ i + (m + k) - HeaderSize = (i + m) + k - HeaderSize
    BY DEF HeaderSize
  <2> QED
    BY <1>1, <1>2, <1>3, <2>1
<1>5. b = c
  BY <1>2, <1>3, <1>4, SameElements
<1> QED
  BY <1>5 DEF a, b, c

\* What map() makes of four bytes are four bytes.
LEMMA ColoursStay ==
  /\ \A b \in Seq(Byte) : Word(b) \in Colour
  /\ \A c \in Colour : Low16(c) \in Nat
  /\ \A h : \A c \in Colour : Expand(h, c) \in Colour
<1>1. ASSUME NEW b \in Seq(Byte) PROVE Word(b) \in Colour
  <2>1. ASSUME NEW k \in 1..4 PROVE (IF k <= Len(b) THEN b[k] ELSE 0) \in Byte
    <3>1. CASE k <= Len(b)
      BY <1>1, <3>1
    <3>2. CASE ~(k <= Len(b))
      BY <3>2 DEF Byte
    <3> QED
      BY <3>1, <3>2
  <2> QED
    BY <2>1 DEF Word, Colour
<1>2. ASSUME NEW c \in Colour PROVE Low16(c) \in Nat
  <2>1. 1 \in 1..4 /\ 2 \in 1..4
    OBVIOUS
  <2>2. c[1] \in Byte /\ c[2] \in Byte
    BY <1>2, <2>1 DEF Colour
  <2>3. \A x, y \in Byte : x + 256 * y \in Nat
    BY DEF Byte
  <2>4. c[1] + 256 * c[2] \in Nat
    BY <2>2, <2>3
  <2> QED
    BY <2>4 DEF Low16
<1>3. ASSUME NEW h, NEW c \in Colour PROVE Expand(h, c) \in Colour
  <2>1. c[1] \in Byte /\ c[2] \in Byte /\ c[1] % 32 \in Byte
    BY <1>3 DEF Colour, Byte
  <2>2. (Low16(c) \div 32) % 32 \in Byte /\ (Low16(c) \div 1024) % 32 \in Byte
    <3>1. Low16(c) \in Nat
      BY <1>2
    <3>2. \A n \in Nat : (n \div 32) % 32 \in Byte /\ (n \div 1024) % 32 \in Byte
      BY DEF Byte
    <3> QED
      BY <3>1, <3>2
  <2>3. \A w, x, y, z \in Byte : <<w, x, y, z>> \in Colour
    BY DEF Colour
  <2>4. 255 \in Byte /\ 0 \in Byte /\ [c EXCEPT ![4] = 255] \in Colour
    BY DEF Colour, Byte
  <2> QED
    BY <2>1, <2>2, <2>3, <2>4 DEF Expand
<1> QED
  BY <1>1, <1>2, <1>3

\* The places a picture sends the reader to.
LEMMA Places ==
  ASSUME NEW p \in Pictures
  PROVE  /\ MapStart(p.head) \in Nat /\ MapStart(p.head) >= HeaderSize
         /\ EntrySize(p.head) \in Nat
         /\ Start(p.head) \in Nat /\ Start(p.head) >= HeaderSize
         /\ Verdict(p.head) = "open" => PixelSize(p.head) \in 1..4
         /\ Size(p) \in Nat
<1> DEFINE h == p.head
<1>1. /\ h.bits \in Nat /\ h.id \in Nat /\ h.first \in Nat /\ h.len \in Nat /\ h.entry \in Nat
      /\ h.first = 0 \/ h.first >= HeaderSize
      /\ p.rest \in Seq(0..255)
  BY FilesAssumption
<1> HIDE DEF h
<1>2. MapStart(h) \in Nat /\ MapStart(h) >= HeaderSize
  BY <1>1 DEF MapStart, HeaderSize
<1>3. EntrySize(h) \in Nat
  BY <1>1 DEF EntrySize
<1>4. Start(h) \in Nat /\ Start(h) >= HeaderSize
  <2>1. (h.len * EntrySize(h)) % 65536 \in Nat
    <3>1. h.len * EntrySize(h) \in Nat
      BY <1>1, <1>3
    <3> QED
      BY <3>1
  <2> QED
    BY <1>1, <1>2, <2>1 DEF Start, HeaderSize
<1>5. Verdict(h) = "open" => PixelSize(h) \in 1..4
  BY <1>1 DEF Verdict, PixelSize
<1>6. Size(p) \in Nat
  BY <1>1 DEF Size, HeaderSize
<1> QED
  BY <1>2, <1>3, <1>4, <1>5, <1>6 DEF h

\* Bounds of what a refill reads.
LEMMA LeftBounds ==
  ASSUME ReadInv
  PROVE  /\ Left \in Nat /\ (Left > 0 => rd + Left = Size(pic))
         /\ \A n \in 1..Fits : n \in Nat /\ n <= Left /\ n <= BufSize - (Len(buf) - pos)
         /\ Fits \in Int
<1>1. /\ Size(pic) \in Nat /\ rd \in Nat /\ pos \in 0..Len(buf) /\ Len(buf) \in Nat
      /\ Len(buf) <= BufSize /\ BufSize \in Nat
  BY Places, BufferAssumption DEF ReadInv, TypeOK, KeptInv
<1>2. Left = IF rd < Size(pic) THEN Size(pic) - rd ELSE 0
  <2>1. \A x \in Int : Max({0, x}) = IF 0 < x THEN x ELSE 0
    BY DEF Max
  <2> QED
    BY <1>1, <2>1 DEF Left
<1>3. Left \in Nat /\ (Left > 0 => rd + Left = Size(pic))
  BY <1>1, <1>2
<1>4. Fits \in Int /\ Fits <= Left /\ Fits <= BufSize - (Len(buf) - pos)
  <2>1. \A x, y \in Int : Min({x, y}) \in Int /\ Min({x, y}) <= x /\ Min({x, y}) <= y
    BY DEF Min
  <2> DEFINE free == BufSize - (Len(buf) - pos)
  <2>2. free \in Int /\ Left \in Int /\ Fits = Min({free, Left})
    BY <1>1, <1>3 DEF Fits
  <2> HIDE DEF free
  <2>3. Fits \in Int /\ Fits <= Left /\ Fits <= free
    BY <2>1, <2>2
  <2> QED
    BY <2>3 DEF free
<1>5. BufSize - (Len(buf) - pos) \in Int
  BY <1>1
<1> QED
  BY <1>3, <1>4, <1>5

\* The bytes not yet used, moved to the front of the buffer.
LEMMA BufDropped ==
  ASSUME ReadInv
  PROVE  LET left == SubSeq(buf, pos + 1, Len(buf))
         IN /\ left \in Seq(Byte) /\ Len(left) = Len(buf) - pos /\ Len(left) \in Nat
            /\ Len(left) <= BufSize
<1>1. /\ buf \in Seq(Byte) /\ pos \in 0..Len(buf) /\ Len(buf) \in Nat /\ pos \in Nat
      /\ Len(buf) <= BufSize /\ BufSize \in Nat
  BY BufferAssumption DEF ReadInv, TypeOK, KeptInv
<1> DEFINE m == pos + 1
<1> DEFINE n == Len(buf) - pos
<1>2. /\ m \in Int /\ n \in Nat /\ (n > 0 => m >= 1 /\ m + n - 1 <= Len(buf))
      /\ m + n - 1 = Len(buf) /\ n <= BufSize
  BY <1>1
<1> HIDE DEF m, n
<1>3. SubSeq(buf, m, m + n - 1) \in Seq(Byte) /\ Len(SubSeq(buf, m, m + n - 1)) = n
  BY <1>1, <1>2, PieceOf
<1> QED
  BY <1>2, <1>3 DEF m, n

\* No bytes, wherever they are.
LEMMA NoBytes == ASSUME NEW p \in Pictures, NEW i \in Int PROVE Bytes(p, i, 0) = <<>>
<1>1. Bytes(p, i, 0) \in Seq(Byte) /\ Len(Bytes(p, i, 0)) = 0
  BY FileBytes
<1> QED
  BY <1>1, SameElements

\* The first picture.
LEMMA InitReads == Init => TypeOK /\ KeptInv /\ RunInv /\ AheadInv
<1> SUFFICES ASSUME Init PROVE TypeOK /\ KeptInv /\ RunInv /\ AheadInv
  OBVIOUS
<1>1. Cardinality({}) <= 1
  BY FS_EmptySet
<1>2. TypeOK
  BY <1>1, BufferAssumption, ErrorsAssumption DEF Init, TypeOK
<1>3. KeptInv
  <2>1. <<>> \in Seq(Byte)
    OBVIOUS
  <2>2. Word(<<>>) \in Colour
    BY <2>1, ColoursStay
  <2> QED
    BY <2>1, <2>2 DEF Init, KeptInv
<1>4. RunInv
  BY DEF Init, RunInv, Idle
<1> QED
  BY <1>2, <1>3, <1>4 DEF Init, AheadInv

\* Opening goes to the first pixel with nothing read ahead.
LEMMA OpenReads == ASSUME ReadInv, Open PROVE (TypeOK /\ KeptInv /\ RunInv /\ AheadInv)'
<1>1. /\ state = "new" /\ state' = Verdict(pic.head)
      /\ rd' = (IF state' = "open" THEN Start(pic.head) ELSE rd)
      /\ UNCHANGED <<pic, buf, pos, cache, cur, skip, count, call, out, errors, cut>>
  BY DEF Open, ahead, packet, history
<1>2. call.at = "idle" /\ pic \in Pictures
  BY <1>1 DEF ReadInv, RunInv, TypeOK
<1>3. rd' \in Nat /\ (state' = "open" => rd' >= HeaderSize)
  BY <1>1, <1>2, Places DEF ReadInv, TypeOK
<1>4. state' \in {"new", "open", "ended", "Io", "InvalidImage", "NotTGA", "InvalidType", "InvalidColorMap"}
  BY <1>1 DEF Verdict
<1>5. TypeOK'
  BY <1>1, <1>3, <1>4 DEF ReadInv, TypeOK
<1>6. KeptInv'
  BY <1>1, <1>3 DEF ReadInv, KeptInv
<1>7. RunInv'
  BY <1>1, <1>2 DEF ReadInv, RunInv
<1>8. AheadInv'
  <2>1. buf = <<>> /\ Home' = rd' /\ Len(buf) = 0
    BY <1>1, <1>2 DEF ReadInv, KeptInv, Home
  <2>2. Bytes(pic, rd' - 0, 0) = <<>>
    BY <1>2, <1>3, NoBytes
  <2> QED
    BY <1>1, <2>1, <2>2 DEF AheadInv
<1> QED
  BY <1>5, <1>6, <1>7, <1>8

\* A call that ends or stays with the values and the buffer as they are.
LEMMA NextOfReads == ASSUME ReadInv, NextOf PROVE (TypeOK /\ KeptInv /\ RunInv /\ AheadInv)'
<1> USE DEF file, ahead, packet, history
<1>1. /\ state = "open" /\ call.at = "idle" /\ Fields \subseteq DOMAIN call
      /\ UNCHANGED <<pic, rd, buf, pos, cache, out, errors, cut>>
  BY DEF NextOf, ReadInv, Inv, CallInv
<1>2. PixelSize(pic.head) \in 1..4
  BY <1>1, Places DEF ReadInv, TypeOK, KeptInv
<1>3. CASE ~HasPoint(pic.head, point)
  <2>1. state' = "ended" /\ UNCHANGED <<call, cur, skip, count>>
    BY <1>3 DEF NextOf
  <2> QED
    BY <1>1, <2>1 DEF ReadInv, TypeOK, KeptInv, RunInv, AheadInv
<1>4. CASE HasPoint(pic.head, point)
  <2> DEFINE c == [Idle EXCEPT !.point = point]
  <2>0. /\ \/ call' = Ask(c, PixelSize(pic.head), "pixel")
           \/ call' = Map(c, cur, 1)
           \/ call' = Ask(c, PixelSize(pic.head), "copy")
           \/ call' = Ask(c, 1, "packet")
        /\ \/ UNCHANGED <<skip, count>>
           \/ skip > 0 /\ skip' = skip - 1 /\ count' = count
           \/ count > 0 /\ count' = count - 1 /\ skip' = skip
        /\ state' = state /\ cur' = cur
    BY <1>4 DEF NextOf, NextValue
  <2>1. state' = state /\ cur' = cur /\ skip' \in 0..127 /\ count' \in 0..128
    <3>1. skip \in 0..127 /\ count \in 0..128
      BY DEF ReadInv, TypeOK
    <3> HIDE DEF c
    <3> QED
      BY <2>0, <3>1
  <2>2. \/ /\ call'.at = "read" /\ call'.want \in 1..4
           /\ call'.use # "run" /\ (call'.use = "packet" => call'.want = 1)
        \/ call'.at = "map" /\ call'.val = cur
    <3>1. Fields \subseteq DOMAIN c
      BY DEF Idle, Fields
    <3> HIDE DEF c
    <3>2. /\ \A n, u : /\ Ask(c, n, u).at = "read" /\ Ask(c, n, u).want = n
                      /\ Ask(c, n, u).use = u
          /\ Map(c, cur, 1).at = "map" /\ Map(c, cur, 1).val = cur
      BY <3>1 DEF Ask, Map, Fields
    <3> QED
      BY <1>2, <2>0, <3>2
  <2> HIDE DEF c
  <2>3. TypeOK'
    BY <1>1, <2>1 DEF ReadInv, TypeOK
  <2>4. KeptInv'
    BY <1>1, <2>1 DEF ReadInv, KeptInv
  <2>5. RunInv'
    BY <1>1, <2>1, <2>2 DEF ReadInv, RunInv, KeptInv
  <2>6. AheadInv'
    <3>1. Home' = Home
      BY <1>1, <2>2 DEF Home
    <3> QED
      BY <1>1, <2>1, <3>1 DEF ReadInv, AheadInv
  <2> QED
    BY <2>3, <2>4, <2>5, <2>6
<1> QED
  BY <1>3, <1>4

\* refill appends the next bytes of the file to the ones not yet used.
LEMMA RefillReads == ASSUME ReadInv, Refill PROVE (TypeOK /\ KeptInv /\ RunInv /\ AheadInv)'
<1> USE DEF file, ahead, packet, history
<1> DEFINE left == SubSeq(buf, pos + 1, Len(buf))
<1>1. /\ call.at = "read" /\ pos' = 0
      /\ UNCHANGED <<pic, state, cache, cur, skip, count, call, out, errors, cut>>
  BY DEF Refill, Short
<1>2. PICK n \in 1..Fits : buf' = left \o Bytes(pic, rd, n) /\ rd' = rd + n
  BY DEF Refill
<1>3. /\ pic \in Pictures /\ rd \in Nat /\ state = "open" /\ rd >= HeaderSize
      /\ Len(buf) \in Nat /\ pos \in 0..Len(buf) /\ Size(pic) \in Nat /\ BufSize \in Nat
  BY <1>1, Places, BufferAssumption DEF ReadInv, TypeOK, KeptInv, RunInv
<1>4. n \in Nat /\ n > 0 /\ rd + n <= Size(pic) /\ n <= BufSize - (Len(buf) - pos)
  <2>1. Fits \in Int /\ n \in Int /\ n <= Left /\ n >= 1 /\ n <= BufSize - (Len(buf) - pos)
    BY LeftBounds
  <2>2. Left \in Nat /\ (Left > 0 => rd + Left = Size(pic))
    BY LeftBounds
  <2> QED
    BY <1>3, <2>1, <2>2
<1>5. left \in Seq(Byte) /\ Len(left) = Len(buf) - pos
  BY BufDropped
<1>6. Bytes(pic, rd, n) \in Seq(Byte) /\ Len(Bytes(pic, rd, n)) = n
  BY <1>3, <1>4, FileBytes
<1>7. buf' \in Seq(Byte) /\ Len(buf') = (Len(buf) - pos) + n
  <2> DEFINE piece == Bytes(pic, rd, n)
  <2>1. /\ buf' = left \o piece /\ piece \in Seq(Byte) /\ Len(piece) = n
        /\ left \in Seq(Byte) /\ Len(left) = Len(buf) - pos
    BY <1>2, <1>5, <1>6
  <2> HIDE DEF left, piece
  <2>2. left \o piece \in Seq(Byte) /\ Len(left \o piece) = Len(left) + Len(piece)
    BY <2>1, Joined
  <2> QED
    BY <2>1, <2>2
<1>8. TypeOK'
  <2>1. rd' \in Nat /\ pos' \in 0..Len(buf') /\ Len(buf') <= BufSize
    BY <1>1, <1>2, <1>3, <1>4, <1>7
  <2> QED
    BY <1>1, <2>1 DEF ReadInv, TypeOK
<1>9. KeptInv'
  <2>1. rd' >= HeaderSize
    BY <1>2, <1>3, <1>4 DEF HeaderSize
  <2> QED
    BY <1>1, <1>3, <1>7, <2>1 DEF ReadInv, KeptInv
<1>10. RunInv'
  BY <1>1 DEF ReadInv, RunInv
<1>11. AheadInv'
  <2>1. SUFFICES ASSUME errors = 0
                 PROVE  /\ buf' = Bytes(pic, rd' - Len(buf'), Len(buf'))
                        /\ rd' - Len(buf') >= HeaderSize /\ rd' <= Size(pic)
    BY <1>1, <1>3 DEF AheadInv, Home
  <2> DEFINE i == rd - Len(buf)
  <2> DEFINE l == Len(buf) - pos
  <2>2. /\ buf = Bytes(pic, i, Len(buf))
        /\ Len(buf) > 0 => i >= HeaderSize /\ i + Len(buf) <= Size(pic)
    BY <1>1, <1>3, <2>1 DEF ReadInv, AheadInv, Home
  <2>3. i \in Int /\ l \in Nat /\ i + pos = rd - l /\ (i + pos) + l = rd
    BY <1>3
  <2>4. left = Bytes(pic, i + pos, l)
    <3>1. SubSeq(Bytes(pic, i, Len(buf)), pos + 1, Len(buf)) = Bytes(pic, i + pos, Len(buf) - pos)
      BY <1>3, <2>2, <2>3, BytesDropped
    <3> QED
      BY <2>2, <3>1
  <2> HIDE DEF i, left
  <2>5. rd - l >= HeaderSize
    BY <1>3, <2>2, <2>3 DEF HeaderSize, i
  <2> HIDE DEF l
  <2>6. Bytes(pic, rd - l, l) \o Bytes(pic, (rd - l) + l, n) = Bytes(pic, rd - l, l + n)
    <3>1. rd - l \in Int /\ (rd - l) + l + n <= Size(pic)
      BY <1>3, <1>4, <2>3
    <3> QED
      BY <1>3, <1>4, <2>3, <2>5, <3>1, BytesGoOn
  <2>7. (rd - l) + l = rd /\ Len(buf') = l + n /\ rd' - Len(buf') = rd - l
    BY <1>2, <1>3, <1>4, <1>7, <2>3 DEF l
  <2> QED
    BY <1>2, <1>4, <2>3, <2>4, <2>5, <2>6, <2>7
<1> QED
  BY <1>8, <1>9, <1>10, <1>11

\* The bytes of a file that ends, or of a reader that fails, are dropped to those
\* not yet used; the call is over.
LEMMA DropReads ==
  ASSUME ReadInv, call.at = "read", state' \in {state, "ended"}, call' = Idle,
         buf' = SubSeq(buf, pos + 1, Len(buf)), pos' = 0,
         rd' \in Nat, rd' >= rd, rd' = rd \/ errors' > 0, errors' \in 0..MaxErrors,
         errors' = errors \/ errors' > 0, state' = "ended" \/ errors' > 0,
         UNCHANGED <<pic, cache, cur, skip, count, out, cut>>
  PROVE  (TypeOK /\ KeptInv /\ RunInv /\ AheadInv)'
<1>1. /\ buf' \in Seq(Byte) /\ Len(buf') \in Nat /\ Len(buf') <= BufSize
  BY BufDropped
<1>2. state = "open" /\ rd \in Nat
  BY DEF ReadInv, RunInv, TypeOK
<1>3. TypeOK'
  BY <1>1, <1>2 DEF ReadInv, TypeOK
<1>4. KeptInv'
  BY <1>1, <1>2 DEF ReadInv, KeptInv, HeaderSize
<1>5. RunInv'
  BY DEF RunInv, Idle
<1>6. AheadInv'
  BY DEF AheadInv
<1> QED
  BY <1>3, <1>4, <1>5, <1>6

\* read() hands out bytes of the buffer; the buffer stays.
LEMMA TakeReads == ASSUME ReadInv, Take PROVE (TypeOK /\ KeptInv /\ RunInv /\ AheadInv)'
<1> USE DEF file, ahead, packet, history
<1>1. /\ call.at = "read" /\ Len(buf) - pos >= call.want /\ pos' = pos + call.want
      /\ UNCHANGED <<pic, rd, state, buf, cache, out, errors, cut>>
      /\ state = "open" /\ call.want \in 1..4 /\ Fields \subseteq DOMAIN call
  <2>1. /\ call.at = "read" /\ ~(Len(buf) - pos < call.want) /\ pos' = pos + call.want
        /\ UNCHANGED <<pic, rd, state, buf, cache, out, errors, cut>>
    BY DEF Take, Short
  <2> QED
    BY <2>1 DEF ReadInv, TypeOK, KeptInv, RunInv, Inv, CallInv
<1>2. /\ buf \in Seq(Byte) /\ Len(buf) \in Nat /\ pos \in 0..Len(buf)
  BY DEF ReadInv, TypeOK, KeptInv
<1>3. /\ Value \in Seq(Byte) /\ Len(Value) = call.want
      /\ Value[1] \in Byte
  <2> DEFINE n == call.want
  <2> DEFINE m == pos + 1
  <2>1. n \in Nat /\ n > 0 /\ m \in Int /\ m >= 1 /\ m + n - 1 <= Len(buf) /\ pos + n = m + n - 1
    BY <1>1, <1>2
  <2>2. Value = SubSeq(buf, m, m + n - 1)
    BY <2>1 DEF Value
  <2> HIDE DEF m, n
  <2>3. Value \in Seq(Byte) /\ Len(Value) = n
    BY <1>2, <2>1, <2>2, PieceOf
  <2>4. Value[1] \in Byte
    BY <2>1, <2>3
  <2> QED
    BY <2>3, <2>4 DEF n
<1>4. Word(Value) \in Colour
  BY <1>3, ColoursStay
<1>5. PixelSize(pic.head) \in 1..4
  BY <1>1, Places DEF ReadInv, TypeOK, KeptInv
<1>6. pos' \in 0..Len(buf')
  BY <1>1, <1>2
<1>7. Home' = rd /\ Home = rd => AheadInv'
  BY <1>1 DEF ReadInv, AheadInv
<1>8. Home = rd
  BY <1>1 DEF Home
<1>9. CASE call.use \in {"pixel", "copy"} /\ UNCHANGED <<cur, skip, count>>
           /\ \E n : call' = Map(call, Word(Value), n)
  <2>1. call'.at = "map" /\ call'.val = Word(Value)
    BY <1>1, <1>9 DEF Map, Fields
  <2>2. TypeOK'
    BY <1>1, <1>6, <1>9 DEF ReadInv, TypeOK
  <2>3. KeptInv' /\ RunInv'
    BY <1>1, <1>4, <1>9, <2>1 DEF ReadInv, KeptInv, RunInv
  <2>4. AheadInv'
    BY <1>1, <1>7, <1>8, <2>1 DEF Home
  <2> QED
    BY <2>2, <2>3, <2>4
<1>10. CASE \E u \in {"run", "copy"} :
              /\ call' = NextValue(call, u) /\ cur' = cur
              /\ skip' \in 0..127 /\ count' \in 0..128
              /\ u = "run" => count' >= 1
  <2>1. PICK u \in {"run", "copy"} :
          /\ call' = Ask(call, PixelSize(pic.head), u) /\ cur' = cur
          /\ skip' \in 0..127 /\ count' \in 0..128
          /\ u = "run" => count' >= 1
    BY <1>10 DEF NextValue
  <2>2. call'.at = "read" /\ call'.want = PixelSize(pic.head) /\ call'.use = u
    BY <1>1, <2>1 DEF Ask, Fields
  <2>3. TypeOK'
    BY <1>1, <1>6, <2>1 DEF ReadInv, TypeOK
  <2>4. KeptInv' /\ RunInv'
    BY <1>1, <1>5, <2>1, <2>2 DEF ReadInv, KeptInv, RunInv
  <2>5. AheadInv'
    BY <1>1, <1>7, <1>8, <2>2 DEF Home
  <2> QED
    BY <2>3, <2>4, <2>5
<1>11. CASE /\ call.use = "run" /\ skip' = skip
            /\ cur' = Word(Value) /\ count' = count - 1 /\ call' = Map(call, cur', 1)
  <2>1. call'.at = "map" /\ call'.val = cur'
    BY <1>1, <1>11 DEF Map, Fields
  <2>2. count' \in 0..128
    BY <1>1, <1>11 DEF ReadInv, TypeOK, RunInv
  <2>3. TypeOK'
    BY <1>1, <1>6, <1>11, <2>2 DEF ReadInv, TypeOK
  <2>4. KeptInv' /\ RunInv'
    BY <1>1, <1>4, <1>11, <2>1 DEF ReadInv, KeptInv, RunInv
  <2>5. AheadInv'
    BY <1>1, <1>7, <1>8, <2>1 DEF Home
  <2> QED
    BY <2>3, <2>4, <2>5
<1>12. ASSUME call.use = "packet", Value[1] >= 128,
              count' = Value[1] - 127, call' = NextValue(call, "run"), UNCHANGED <<cur, skip>>
       PROVE  (TypeOK /\ KeptInv /\ RunInv /\ AheadInv)'
  <2>1. count' \in 0..128 /\ count' >= 1 /\ skip' \in 0..127
    <3>1. Value[1] \in 0..255 /\ skip \in 0..127
      BY <1>3 DEF Byte, ReadInv, TypeOK
    <3> QED
      BY <1>12, <3>1
  <2> QED
    BY <1>10, <1>12, <2>1
<1>13. ASSUME call.use = "packet", Value[1] < 128,
              skip' = Value[1], call' = NextValue(call, "copy"), UNCHANGED <<cur, count>>
       PROVE  (TypeOK /\ KeptInv /\ RunInv /\ AheadInv)'
  <2>1. skip' \in 0..127 /\ count' \in 0..128
    <3>1. Value[1] \in 0..255 /\ count \in 0..128
      BY <1>3 DEF Byte, ReadInv, TypeOK
    <3> QED
      BY <1>13, <3>1
  <2> QED
    BY <1>10, <1>13, <2>1
<1> QED
  BY <1>9, <1>11, <1>12, <1>13 DEF Take

\* The look-up of a colour ends in a pixel or goes on with four bytes again.
LEMMA MappedReads ==
  ASSUME ReadInv, NEW c \in Colour, Mapped(c)
  PROVE  /\ call'.at \in {"idle", "map"}
         /\ call'.at = "map" => call'.val \in Colour
<1>1. Fields \subseteq DOMAIN call
  BY DEF ReadInv, Inv, CallInv
<1>2. Expand(pic.head, c) \in Colour
  BY ColoursStay
<1>3. CASE call.maps > 1
  <2>1. call' = Map(call, Expand(pic.head, c), call.maps - 1)
    BY <1>3 DEF Mapped
  <2> QED
    BY <1>1, <1>2, <2>1 DEF Map, Fields
<1>4. CASE ~(call.maps > 1)
  BY <1>4 DEF Mapped, Idle
<1> QED
  BY <1>3, <1>4

\* A colour known without a look at the file.
LEMMA MapKnownReads == ASSUME ReadInv, MapKnown PROVE (TypeOK /\ KeptInv /\ RunInv /\ AheadInv)'
<1> USE DEF file, ahead, packet, history
<1>1. /\ call.at = "map" /\ state = "open" /\ call.val \in Colour
      /\ UNCHANGED <<pic, rd, state, buf, pos, cache, cur, skip, count, errors, cut>>
  BY DEF MapKnown, ReadInv, RunInv
<1>2. PICK c \in Colour : Mapped(c)
  <2> DEFINE hit == {e.last : e \in {e \in Cached(call.val) : HasMap(pic.head)}}
  <2>1. hit \subseteq Colour
    BY DEF Cached, ReadInv, KeptInv
  <2>2. Mapped(IF hit = {} THEN call.val ELSE CHOOSE c \in hit : TRUE)
    BY DEF MapKnown
  <2> HIDE DEF hit
  <2>3. hit # {} => (CHOOSE c \in hit : TRUE) \in hit
    OBVIOUS
  <2>4. (IF hit = {} THEN call.val ELSE CHOOSE c \in hit : TRUE) \in Colour
    BY <1>1, <2>1, <2>3
  <2> QED
    BY <2>2, <2>4
<1>3. call'.at \in {"idle", "map"} /\ (call'.at = "map" => call'.val \in Colour)
  BY <1>2, MappedReads
<1>4. TypeOK' /\ KeptInv'
  BY <1>1 DEF ReadInv, TypeOK, KeptInv
<1>5. RunInv'
  BY <1>1, <1>3 DEF RunInv
<1>6. AheadInv'
  BY <1>1, <1>3 DEF ReadInv, AheadInv, Home
<1> QED
  BY <1>4, <1>5, <1>6

\* The reader leaves for the colour map, remembering where it was.
LEMMA MapSeekReads == ASSUME ReadInv, MapSeek PROVE (TypeOK /\ KeptInv /\ RunInv /\ AheadInv)'
<1> USE DEF file, ahead, packet, history
<1>1. /\ call.at = "map" /\ state = "open" /\ call.val \in Colour /\ pic \in Pictures
      /\ rd \in Nat /\ rd >= HeaderSize
      /\ rd' = MapStart(pic.head) + Low16(call.val) * EntrySize(pic.head)
      /\ UNCHANGED <<pic, state, buf, pos, cache, cur, skip, count, out, errors, cut>>
  BY DEF MapSeek, ReadInv, RunInv, TypeOK, KeptInv
<1>2. call'.at = "entry" /\ call'.home = rd /\ call'.val = call.val
  <2>1. Fields \subseteq DOMAIN call
    BY DEF ReadInv, Inv, CallInv
  <2> QED
    BY <2>1 DEF MapSeek, Fields
<1>3. rd' \in Nat /\ rd' >= HeaderSize
  <2>1. Low16(call.val) \in Nat
    BY <1>1, ColoursStay
  <2>2. Low16(call.val) * EntrySize(pic.head) \in Nat
    BY <1>1, <2>1, Places
  <2> QED
    BY <1>1, <2>2, Places DEF HeaderSize
<1>4. TypeOK' /\ KeptInv'
  BY <1>1, <1>3 DEF ReadInv, TypeOK, KeptInv
<1>5. RunInv'
  BY <1>1, <1>2 DEF RunInv
<1>6. Home' = Home
  BY <1>1, <1>2 DEF Home
<1>7. AheadInv'
  BY <1>1, <1>6 DEF ReadInv, AheadInv
<1> QED
  BY <1>4, <1>5, <1>7

\* One read in the colour map.
LEMMA MapReadReads == ASSUME ReadInv, MapRead PROVE (TypeOK /\ KeptInv /\ RunInv /\ AheadInv)'
<1> USE DEF file, ahead, packet, history
<1> DEFINE all == Min({4, Left})
<1>1. /\ call.at = "entry" /\ state = "open" /\ call.val \in Colour /\ pic \in Pictures
      /\ call.home \in Nat /\ call.home >= HeaderSize
      /\ rd \in Nat /\ rd >= HeaderSize
      /\ UNCHANGED <<pic, state, buf, pos, cache, cur, skip, count, out, errors>>
  BY DEF MapRead, ReadInv, RunInv, TypeOK, KeptInv
<1>2. PICK n \in Min({1, all})..all :
        call' = [call EXCEPT !.at = "back", !.got = Bytes(pic, rd, n)] /\ rd' = rd + n
  BY DEF MapRead
<1>3. n \in Nat /\ n <= Left /\ Left \in Nat
  <2>1. \A x, y \in Nat : Min({x, y}) \in Nat /\ Min({x, y}) <= x /\ Min({x, y}) <= y
    BY DEF Min
  <2>2. Left \in Nat
    BY LeftBounds
  <2>3. all \in Nat /\ all <= Left
    BY <2>1, <2>2
  <2> HIDE DEF all
  <2>4. Min({1, all}) \in Nat
    BY <2>1, <2>3
  <2> QED
    BY <2>2, <2>3, <2>4
<1> HIDE DEF all
<1>4. Bytes(pic, rd, n) \in Seq(Byte)
  <2>1. n > 0 => rd + n <= Size(pic)
    <3>1. Size(pic) \in Nat /\ (Left > 0 => rd + Left = Size(pic))
      BY <1>1, Places, LeftBounds
    <3> QED
      BY <1>1, <1>3, <3>1
  <2> QED
    BY <1>1, <1>3, <2>1, FileBytes
<1>5. call'.at = "back" /\ call'.got \in Seq(Byte) /\ call'.home = call.home /\ call'.val = call.val
  <2> DEFINE b == Bytes(pic, rd, n)
  <2>1. Fields \subseteq DOMAIN call /\ call' = [call EXCEPT !.at = "back", !.got = b] /\ b \in Seq(Byte)
    BY <1>2, <1>4 DEF ReadInv, Inv, CallInv
  <2> HIDE DEF b
  <2> QED
    BY <2>1 DEF Fields
<1>6. rd' \in Nat /\ rd' >= HeaderSize
  BY <1>1, <1>2, <1>3 DEF HeaderSize
<1>7. TypeOK' /\ KeptInv'
  BY <1>1, <1>6 DEF ReadInv, TypeOK, KeptInv
<1>8. RunInv'
  BY <1>1, <1>5 DEF RunInv
<1>9. Home' = Home
  BY <1>1, <1>5 DEF Home
<1>10. AheadInv'
  BY <1>1, <1>9 DEF ReadInv, AheadInv
<1> QED
  BY <1>7, <1>8, <1>10

\* The reader is back where the pixels go on.
LEMMA MapBackReads == ASSUME ReadInv, MapBack PROVE (TypeOK /\ KeptInv /\ RunInv /\ AheadInv)'
<1> USE DEF file, ahead, packet, history
<1> DEFINE piece == SubSeq(call.got, 1, EntrySize(pic.head))
<1>1. /\ call.at = "back" /\ state = "open" /\ call.val \in Colour /\ call.got \in Seq(Byte)
      /\ call.home \in Nat /\ call.home >= HeaderSize /\ rd' = call.home
      /\ UNCHANGED <<pic, state, buf, pos, cur, skip, count, errors, cut>>
  BY DEF MapBack, ReadInv, RunInv
<1>2. \/ /\ Word(piece) \in Colour /\ Mapped(Word(piece))
         /\ cache' = {[index |-> Low16(call.val), last |-> Word(piece)]}
      \/ Mapped(call.val) /\ cache' = cache
  <2>1. CASE EntrySize(pic.head) \in 1..4 /\ Len(call.got) >= EntrySize(pic.head)
    <3> DEFINE b == EntrySize(pic.head)
    <3>1. Mapped(Word(piece)) /\ cache' = {[index |-> Low16(call.val), last |-> Word(piece)]}
      BY <2>1 DEF MapBack
    <3>2. b \in Nat /\ b > 0 /\ 1 + b - 1 = b /\ b <= Len(call.got)
      BY <2>1
    <3>3. SubSeq(call.got, 1, b) \in Seq(Byte)
      <4> HIDE DEF b
      <4>1. SubSeq(call.got, 1, 1 + b - 1) \in Seq(Byte)
        BY <1>1, <3>2, PieceOf
      <4> QED
        BY <3>2, <4>1
    <3> QED
      BY <3>1, <3>3, ColoursStay
  <2>2. CASE ~(EntrySize(pic.head) \in 1..4 /\ Len(call.got) >= EntrySize(pic.head))
    BY <2>2 DEF MapBack
  <2> QED
    BY <2>1, <2>2
<1>3. call'.at \in {"idle", "map"} /\ (call'.at = "map" => call'.val \in Colour)
  BY <1>1, <1>2, MappedReads
<1>4. Cardinality(cache') <= 1 /\ \A e \in cache' : e.last \in Colour
  <2>1. CASE cache' = cache
    BY <2>1 DEF ReadInv, TypeOK, KeptInv
  <2>2. ASSUME NEW e, cache' = {e}, e.last \in Colour PROVE Cardinality(cache') <= 1 /\ \A f \in cache' : f.last \in Colour
    <3>1. Cardinality({e}) = 1
      BY FS_Singleton
    <3>2. Cardinality(cache') = 1
      BY <2>2, <3>1
    <3> QED
      BY <2>2, <3>2
  <2> QED
    BY <1>2, <2>1, <2>2
<1>5. TypeOK' /\ KeptInv'
  BY <1>1, <1>4 DEF ReadInv, TypeOK, KeptInv
<1>6. RunInv'
  BY <1>1, <1>3 DEF RunInv
<1>7. Home' = Home
  BY <1>1, <1>3 DEF Home
<1>8. AheadInv'
  BY <1>1, <1>7 DEF ReadInv, AheadInv
<1> QED
  BY <1>5, <1>6, <1>8

\* A seek or the read of the look-up fails: nothing has been lost but the order.
LEMMA MapFailsReads == ASSUME ReadInv, MapFails PROVE (TypeOK /\ KeptInv /\ RunInv /\ AheadInv)'
<1>1. /\ UNCHANGED <<pic, rd, state, buf, pos, cache, cur, skip, count>>
      /\ call' = Idle /\ errors' = errors + 1 /\ errors < MaxErrors
  BY DEF MapFails, file, ahead, packet
<1>2. errors' \in 0..MaxErrors /\ errors' > 0
  BY <1>1, ErrorsAssumption DEF ReadInv, TypeOK
<1>3. TypeOK' /\ KeptInv'
  BY <1>1, <1>2 DEF ReadInv, TypeOK, KeptInv
<1>4. RunInv' /\ AheadInv'
  BY <1>1, <1>2 DEF RunInv, AheadInv, Idle
<1> QED
  BY <1>3, <1>4

\* Every step keeps the invariant.
LEMMA ReadStep == ReadInv /\ [Next]_vars => ReadInv'
<1> SUFFICES ASSUME ReadInv, [Next]_vars PROVE (TypeOK /\ KeptInv /\ RunInv /\ AheadInv)'
  BY NextInv DEF ReadInv
<1>1. CASE Open
  BY <1>1, OpenReads
<1>2. CASE NextOf
  BY <1>2, NextOfReads
<1>3. CASE Refill
  BY <1>3, RefillReads
<1>4. CASE RefillEmpty
  <2>1. /\ call.at = "read" /\ state' = "ended" /\ call' = Idle
        /\ buf' = SubSeq(buf, pos + 1, Len(buf)) /\ pos' = 0
        /\ UNCHANGED <<pic, rd, cache, cur, skip, count, out, errors, cut>>
    BY <1>4 DEF RefillEmpty, Short, file, packet, history
  <2>2. rd \in Nat /\ errors \in 0..MaxErrors
    BY DEF ReadInv, TypeOK
  <2> QED
    BY <2>1, <2>2, DropReads
<1>5. CASE Take
  BY <1>5, TakeReads
<1>6. CASE MapKnown
  BY <1>6, MapKnownReads
<1>7. CASE MapSeek
  BY <1>7, MapSeekReads
<1>8. CASE MapRead
  BY <1>8, MapReadReads
<1>9. CASE MapBack
  BY <1>9, MapBackReads
<1>10. CASE OpenFails
  <2>1. /\ state = "new" /\ state' = "Io" /\ errors' = errors + 1 /\ errors < MaxErrors
        /\ UNCHANGED <<pic, rd, buf, pos, cache, cur, skip, count, call>>
    BY <1>10 DEF OpenFails, file, ahead, packet
  <2>2. errors' \in 0..MaxErrors /\ call.at = "idle"
    BY <2>1, ErrorsAssumption DEF ReadInv, TypeOK, RunInv
  <2>3. TypeOK'
    BY <2>1, <2>2 DEF ReadInv, TypeOK
  <2> QED
    BY <2>1, <2>2, <2>3 DEF ReadInv, KeptInv, RunInv, AheadInv
<1>11. CASE RefillFails
  <2>1. /\ call.at = "read" /\ call' = Idle /\ errors' = errors + 1 /\ errors < MaxErrors
        /\ buf' = SubSeq(buf, pos + 1, Len(buf)) /\ pos' = 0
        /\ UNCHANGED <<pic, state, cache, cur, skip, count, out, cut>>
    BY <1>11 DEF RefillFails, Short, packet
  <2>2. errors' \in 0..MaxErrors /\ errors' > 0
    BY <2>1, ErrorsAssumption DEF ReadInv, TypeOK
  <2>3. rd' \in Nat /\ rd' >= rd
    <3>1. PICK n \in 0..Fits : rd' = rd + n
      BY <1>11 DEF RefillFails
    <3>2. rd \in Nat /\ Fits \in Int
      BY LeftBounds DEF ReadInv, TypeOK
    <3> QED
      BY <3>1, <3>2
  <2> QED
    BY <2>1, <2>2, <2>3, DropReads
<1>12. CASE MapFails
  BY <1>12, MapFailsReads
<1>13. CASE UNCHANGED vars
  BY <1>13 DEF vars, file, ahead, packet, history, ReadInv, TypeOK, KeptInv, RunInv, AheadInv, Home
<1> QED
  BY <1>1, <1>2, <1>3, <1>4, <1>5, <1>6, <1>7, <1>8, <1>9, <1>10, <1>11, <1>12, <1>13
  DEF Next, Step, Fault

\* The buffer always holds the bytes of the file right before the reader, or before
\* the place it returns to from the colour map, and every counter stays in its
\* range: for any pictures, size of the buffer, cutting of the reads and failures
\* (TgaParser::refill, ColorMap::index, TgaParser::decompress).
THEOREM SpecConsistent == Spec => []Consistent
<1>1. Init => ReadInv
  BY InitInv, InitReads DEF ReadInv
<1>2. ReadInv => Consistent
  BY DEF ReadInv, AheadInv, Consistent, ReadsAhead, Home
<1> QED
  BY <1>1, <1>2, ReadStep, PTL DEF Spec

-----------------------------------------------------------------------------
(* The pixels: what is handed out and what is still to come.               *)

\* The place of the first byte of the pixels that was not used yet.
Place == Home - (Len(buf) - pos)

\* s is what is left of v after its first k elements.
Ends(v, k, s) == Len(v) = k + Len(s) /\ \A j \in 1..Len(s) : v[k + j] = s[j]

\* The values still to come behind place i of the file, with c values v and s
\* values of a packet due, and those of a call that asks for a value or the head
\* of a packet there.
LaterAt(p, i, v, c, s) ==
  IF IsCompressed(p.head) THEN [k \in 1..c |-> v] \o Copies(p, Packed(p), i, s)
  ELSE Row(p, i, Behind(p, i) \div PixelSize(p.head))
AskedAt(p, i, use, c, s) ==
  CASE use = "pixel" -> Row(p, i, Behind(p, i) \div PixelSize(p.head))
    [] use = "copy" -> Copies(p, Packed(p), i, s + 1)
    [] use = "run" -> Runs(p, Packed(p), i, c)
    [] OTHER -> Packed(p)[Behind(p, i)]
Later == LaterAt(pic, Place, cur, count, skip)
Asked == AskedAt(pic, Place, call.use, count, skip)

\* What a call asks for, and what the counters of packets are meanwhile.
UseInv ==
  /\ call.use \in IF IsCompressed(pic.head) THEN {"copy", "run", "packet"} ELSE {"pixel"}
  /\ call.want = IF call.use = "packet" THEN 1 ELSE PixelSize(pic.head)
  /\ call.use \in {"copy", "packet"} => count = 0
  /\ call.use \in {"run", "packet"} => skip = 0

\* The value w is looked up: a copied one for a second time, which leaves it alone.
LookUp(w) ==
  /\ \/ call.val = w /\ call.maps \in 1..2 /\ (call.maps = 2 => IsCompressed(pic.head))
     \/ /\ call.at = "map" /\ call.maps = 1 /\ pic.head.kind = 9
        /\ call.val = Entry(pic, w[1]) /\ \A e \in cache : e.index = Low16(w)
  /\ call.at \in {"entry", "back"} => HasMap(pic.head)
  /\ call.at = "entry" => rd = MapStart(pic.head) + Low16(w) * EntrySize(pic.head)
  /\ call.at = "back" =>
       /\ Len(call.got) >= EntrySize(pic.head)
       /\ Word(SubSeq(call.got, 1, EntrySize(pic.head))) = Entry(pic, w[1])

\* The values handed out and those to come are the values of the file.
FlowInv ==
  LET v == Values(pic)
      k == Len(out)
  IN /\ Place >= Start(pic.head)
     /\ call.at \in {"map", "entry", "back"} \/ count > 0 => Start(pic.head) < Size(pic)
     /\ call.at = "idle" => Ends(v, k, Later)
     /\ call.at = "read" => Ends(v, k, Asked) /\ UseInv
     /\ call.at \in {"map", "entry", "back"} =>
          k < Len(v) /\ Ends(v, k + 1, Later) /\ LookUp(v[k + 1])

\* The point that comes next is the one behind those handed out.
InRows(h, n, p) ==
  h.height > 0 =>
    \E r \in 0..h.height : /\ n = r * h.width + p.x
                           /\ p.y = IF IsFlipped(h) THEN h.height - 1 - r ELSE r
GridInv == InRows(pic.head, Len(out), Coming)

\* The colour kept from the last look-up is the one in the file.
EntryInv ==
  HasMap(pic.head) =>
    \A e \in cache : e.last = Entry(pic, e.index) /\ \A f \in cache : e = f

\* What was handed out is the beginning of the picture.
DrawnInv ==
  /\ Len(out) <= pic.head.width * pic.head.height /\ Len(out) <= Len(Values(pic))
  /\ \A k \in 1..Len(out) :
       out[k] = [at |-> PointAt(pic.head, k), color |-> Color(pic, Values(pic)[k])]

Right ==
  /\ state = "open" => DrawnInv /\ FlowInv /\ GridInv /\ EntryInv
  /\ state = "ended" => DrawnInv /\ Len(out) = Len(Pixels(pic))

DecodeInv ==
  /\ state = "new" => count = 0 /\ skip = 0 /\ cache = {}
  /\ state = "ended" => Verdict(pic.head) = "open"
  /\ Plain(pic) /\ Undisturbed => Right

-----------------------------------------------------------------------------
(* Sequences of values.                                                    *)

\* What a value of so many bytes can be.
Valued(p) == {c \in Colour : \A j \in 1..4 : j > PixelSize(p.head) => c[j] = 0}

\* A number of values of one to four bytes takes so many bytes.
LEMMA Multiples ==
  ASSUME NEW b \in 1..4, NEW k \in Nat, NEW n \in Nat
  PROVE  /\ k * b \in Nat /\ (k + 1) * b = k * b + b
         /\ k <= n => k * b <= n * b
         /\ k < n => k * b + b <= n * b
<1>1. CASE b = 1
  BY <1>1
<1>2. CASE b = 2
  BY <1>2
<1>3. CASE b = 3
  BY <1>3
<1>4. CASE b = 4
  BY <1>4
<1> QED
  BY <1>1, <1>2, <1>3, <1>4

\* So many values of one to four bytes are in m bytes.
LEMMA Wholes ==
  ASSUME NEW b \in 1..4, NEW m \in Nat
  PROVE  /\ m \div b \in Nat /\ (m \div b) * b <= m
         /\ m < b => m \div b = 0
         /\ m >= b => m \div b >= 1 /\ (m - b) \div b = (m \div b) - 1
         /\ \A n \in Nat : n <= m \div b => n * b <= m
<1>1. CASE b = 1
  BY <1>1
<1>2. CASE b = 2
  BY <1>2
<1>3. CASE b = 3
  BY <1>3
<1>4. CASE b = 4
  BY <1>4
<1> QED
  BY <1>1, <1>2, <1>3, <1>4

\* The bytes behind a place of a file.
LEMMA BehindIs ==
  ASSUME NEW p \in Pictures, NEW i \in Nat
  PROVE  /\ Behind(p, i) = IF i < Size(p) THEN Size(p) - i ELSE 0
         /\ Behind(p, i) \in Nat
         /\ Len(p.rest) \in Nat /\ Size(p) = HeaderSize + Len(p.rest)
         /\ i >= HeaderSize => Behind(p, i) \in 0..Len(p.rest)
<1>1. Size(p) \in Nat /\ Len(p.rest) \in Nat /\ Size(p) = HeaderSize + Len(p.rest)
  BY Places, FilesAssumption DEF Size
<1>2. \A x \in Int : Max({0, x}) = IF 0 < x THEN x ELSE 0
  BY DEF Max
<1>3. Behind(p, i) = IF i < Size(p) THEN Size(p) - i ELSE 0
  BY <1>1, <1>2 DEF Behind
<1> QED
  BY <1>1, <1>3 DEF HeaderSize

\* A value in the file.
LEMMA ValueTyped ==
  ASSUME NEW p \in Pictures, Verdict(p.head) = "open", NEW i \in Nat, i >= HeaderSize,
         i + PixelSize(p.head) <= Size(p)
  PROVE  ValueAt(p, i) \in Valued(p)
<1> DEFINE b == PixelSize(p.head)
<1> DEFINE s == Bytes(p, i, b)
<1>1. b \in 1..4
  BY Places
<1>2. s \in Seq(Byte) /\ Len(s) = b
  BY <1>1, FileBytes
<1>3. Word(s) \in Colour
  BY <1>2, ColoursStay
<1> HIDE DEF s
<1>4. ASSUME NEW j \in 1..4, j > b PROVE Word(s)[j] = 0
  BY <1>1, <1>2, <1>4 DEF Word
<1> QED
  BY <1>3, <1>4 DEF ValueAt, Valued, s

\* A row of values in the file.
LEMMA RowTyped ==
  ASSUME NEW p \in Pictures, Verdict(p.head) = "open", NEW i \in Nat, i >= HeaderSize,
         NEW n \in Nat, n > 0 => i + n * PixelSize(p.head) <= Size(p)
  PROVE  Row(p, i, n) \in Seq(Valued(p)) /\ Len(Row(p, i, n)) = n
<1> DEFINE b == PixelSize(p.head)
<1>1. b \in 1..4
  BY Places
<1>2. ASSUME NEW k \in 1..n PROVE ValueAt(p, i + (k - 1) * b) \in Valued(p)
  <2>1. k - 1 \in Nat /\ k - 1 < n /\ n > 0
    OBVIOUS
  <2> DEFINE j == k - 1
  <2> HIDE DEF j, b
  <2>2. j * b \in Nat /\ j * b + b <= n * b /\ n * b \in Nat
    BY <1>1, <2>1, Multiples DEF j
  <2>3. i + j * b \in Nat /\ i + j * b >= HeaderSize /\ (i + j * b) + b <= Size(p)
    <3>1. Size(p) \in Nat /\ i + n * b <= Size(p)
      BY <2>1, Places DEF b
    <3> QED
      BY <1>1, <2>2, <3>1 DEF HeaderSize
  <2> QED
    BY <2>3, ValueTyped DEF b, j
<1> HIDE DEF b
<1>3. [k \in 1..n |-> ValueAt(p, i + (k - 1) * b)] \in Seq(Valued(p))
  BY <1>2
<1> QED
  BY <1>3 DEF Row, b

\* A row of no values, and one that starts with a value.
LEMMA RowStep ==
  ASSUME NEW p \in Pictures, Verdict(p.head) = "open", NEW i \in Nat, NEW n \in Nat
  PROVE  /\ Row(p, i, 0) = <<>>
         /\ n > 0 => Row(p, i, n) = <<ValueAt(p, i)>> \o Row(p, i + PixelSize(p.head), n - 1)
<1> DEFINE b == PixelSize(p.head)
<1>1. b \in 1..4
  BY Places
<1>2. Row(p, i, 0) = <<>>
  BY DEF Row
<1>3. ASSUME n > 0 PROVE Row(p, i, n) = <<ValueAt(p, i)>> \o Row(p, i + b, n - 1)
  <2> DEFINE v(j) == ValueAt(p, j)
  <2> DEFINE r == [k \in 1..n |-> v(i + (k - 1) * b)]
  <2> DEFINE t == [k \in 1..(n - 1) |-> v((i + b) + (k - 1) * b)]
  <2>1. Row(p, i, n) = r /\ Row(p, i + b, n - 1) = t
    BY DEF Row
  <2>2. ASSUME NEW k \in 2..n PROVE r[k] = t[k - 1]
    <3>1. k - 1 \in 1..(n - 1) /\ k \in 1..n /\ (k - 1) - 1 = k - 2 /\ k - 2 \in Nat
      BY <1>3
    <3>2. ((k - 2) + 1) * b = (k - 2) * b + b /\ (k - 2) * b \in Nat
      BY <1>1, <3>1, Multiples
    <3>3. i + (k - 1) * b = (i + b) + ((k - 1) - 1) * b
      <4>1. k - 1 = (k - 2) + 1
        BY <3>1
      <4> QED
        BY <1>1, <3>1, <3>2, <4>1
    <3> HIDE DEF v, b
    <3> QED
      BY <3>1, <3>3
  <2>3. r[1] = v(i)
    <3>1. (1 - 1) * b = 0 /\ i + 0 = i /\ 1 \in 1..n
      BY <1>1, <1>3
    <3> HIDE DEF v, b
    <3> QED
      BY <3>1
  <2>4. r = <<v(i)>> \o t
    <3> DEFINE u == <<v(i)>> \o t
    <3> DEFINE S == {v(i + (k - 1) * b) : k \in 1..n} \union {v((i + b) + (k - 1) * b) : k \in 1..(n - 1)}
    <3>1. /\ \A k \in 1..n : v(i + (k - 1) * b) \in S
          /\ \A k \in 1..(n - 1) : v((i + b) + (k - 1) * b) \in S
      OBVIOUS
    <3> HIDE DEF S
    <3>2. /\ r \in Seq(S) /\ Len(r) = n
          /\ t \in Seq(S) /\ Len(t) = n - 1
      <4> HIDE DEF v, b
      <4> QED
        BY <1>3, <3>1
    <3>3. v(i) \in S
      <4>1. 1 \in 1..n
        BY <1>3
      <4> HIDE DEF v, b, r
      <4> QED
        BY <2>3, <3>2, <4>1
    <3> DEFINE w == v(i)
    <3> HIDE DEF r, t, v, w
    <3>4. u \in Seq(S) /\ Len(u) = n /\ u[1] = w /\ \A k \in 2..n : u[k] = t[k - 1]
      BY <1>3, <3>2, <3>3 DEF w
    <3>5. \A k \in 1..n : u[k] = r[k]
      BY <1>3, <2>2, <2>3, <3>4 DEF w
    <3> HIDE DEF u
    <3>6. u = r
      BY <3>2, <3>4, <3>5, SameElements
    <3> QED
      BY <3>6 DEF u
  <2> QED
    BY <2>1, <2>4
<1> QED
  BY <1>2, <1>3

\* An element put before two sequences.
LEMMA OneBefore ==
  ASSUME NEW S, NEW x \in S, NEW s \in Seq(S), NEW t \in Seq(S)
  PROVE  /\ <<x>> \o s \in Seq(S)
         /\ (<<x>> \o s) \o t = <<x>> \o (s \o t)
         /\ <<>> \o s = s
<1>1. <<x>> \in Seq(S) /\ Len(<<x>>) = 1
  OBVIOUS
<1>2. <<x>> \o s \in Seq(S) /\ s \o t \in Seq(S)
  BY <1>1
<1> DEFINE a == (<<x>> \o s) \o t
<1> DEFINE b == <<x>> \o (s \o t)
<1>3. a \in Seq(S) /\ b \in Seq(S) /\ Len(a) = 1 + Len(s) + Len(t) /\ Len(b) = 1 + Len(s) + Len(t)
  BY <1>1, <1>2
<1>4. ASSUME NEW k \in 1..Len(a) PROVE a[k] = b[k]
  BY <1>1, <1>2, <1>3
<1>5. a = b
  <2> HIDE DEF a, b
  <2> QED
    BY <1>3, <1>4, SameElements
<1> QED
  BY <1>2, <1>5

\* A run of equal values starts with one of them.
LEMMA RunStep ==
  ASSUME NEW S, NEW x \in S, NEW n \in Nat
  PROVE  /\ [k \in 1..n |-> x] \in Seq(S) /\ Len([k \in 1..n |-> x]) = n
         /\ [k \in 1..0 |-> x] = <<>>
         /\ n > 0 => [k \in 1..n |-> x] = <<x>> \o [k \in 1..(n - 1) |-> x]
<1>1. [k \in 1..n |-> x] \in Seq(S) /\ Len([k \in 1..n |-> x]) = n
  OBVIOUS
<1>2. ASSUME n > 0 PROVE [k \in 1..n |-> x] = <<x>> \o [k \in 1..(n - 1) |-> x]
  <2> DEFINE a == [k \in 1..n |-> x]
  <2> DEFINE t == [k \in 1..(n - 1) |-> x]
  <2>1. t \in Seq(S) /\ Len(t) = n - 1 /\ \A k \in 1..(n - 1) : t[k] = x
    BY <1>2
  <2>2. \A k \in 1..n : a[k] = x
    OBVIOUS
  <2> HIDE DEF a, t
  <2>3. <<x>> \o t \in Seq(S) /\ Len(<<x>> \o t) = n /\ \A k \in 1..n : (<<x>> \o t)[k] = x
    BY <1>2, <2>1
  <2>4. a \in Seq(S) /\ Len(a) = n
    BY <1>1 DEF a
  <2>5. a = <<x>> \o t
    BY <2>2, <2>3, <2>4, SameElements
  <2> QED
    BY <2>5 DEF a, t
<1> QED
  BY <1>1, <1>2

\* What is left of a sequence after one more of its elements.
LEMMA EndsStep ==
  ASSUME NEW S, NEW v \in Seq(S), NEW k \in Nat, NEW T, NEW x \in T, NEW s \in Seq(T),
         Ends(v, k, <<x>> \o s)
  PROVE  /\ k + 1 <= Len(v) /\ v[k + 1] = x
         /\ Ends(v, k + 1, s)
<1> DEFINE a == <<x>> \o s
<1>1. /\ Len(a) = 1 + Len(s) /\ Len(s) \in Nat /\ a[1] = x
      /\ \A j \in 1..Len(s) : a[1 + j] = s[j]
  OBVIOUS
<1>2. Len(v) = k + Len(a) /\ \A j \in 1..Len(a) : v[k + j] = a[j]
  BY DEF Ends
<1> HIDE DEF a
<1>3. k + 1 <= Len(v) /\ v[k + 1] = x /\ Len(v) = (k + 1) + Len(s)
  BY <1>1, <1>2
<1>4. ASSUME NEW j \in 1..Len(s) PROVE v[(k + 1) + j] = s[j]
  <2>1. j \in Nat /\ j <= Len(s) /\ j >= 1
    BY <1>1
  <2>2. 1 + j \in 1..Len(a)
    BY <1>1, <2>1
  <2>3. v[k + (1 + j)] = a[1 + j]
    BY <1>2, <2>2
  <2>4. k + (1 + j) = (k + 1) + j
    BY <2>1
  <2> QED
    BY <1>1, <2>3, <2>4
<1> QED
  BY <1>3, <1>4 DEF Ends

-----------------------------------------------------------------------------
(* Packets.                                                                *)


\* A packet that is used up, or that has values left in the file or not.
LEMMA CopiesStep ==
  ASSUME NEW p \in Pictures, Verdict(p.head) = "open", NEW f,
         \A m \in 0..Len(p.rest) : f[m] \in Seq(Valued(p)),
         NEW i \in Nat, i >= HeaderSize, NEW n \in Nat
  PROVE  LET b == PixelSize(p.head)
         IN /\ Copies(p, f, i, 0) = f[Behind(p, i)]
            /\ n > 0 /\ Behind(p, i) < b => Copies(p, f, i, n) = <<>>
            /\ n > 0 /\ Behind(p, i) >= b =>
                 Copies(p, f, i, n) = <<ValueAt(p, i)>> \o Copies(p, f, i + b, n - 1)
<1> DEFINE b == PixelSize(p.head)
<1> DEFINE left == Behind(p, i)
<1> DEFINE all == left \div b
<1> DEFINE S == Valued(p)
<1>1. b \in 1..4 /\ left \in 0..Len(p.rest) /\ Len(p.rest) \in Nat /\ left \in Nat
      /\ left = IF i < Size(p) THEN Size(p) - i ELSE 0
  BY Places, BehindIs
<1>2. all \in Nat /\ (left < b => all = 0) /\ (left >= b => all >= 1 /\ (left - b) \div b = all - 1)
      /\ all * b <= left
  <2> HIDE DEF b, left
  <2> QED
    BY <1>1, Wholes
<1>3. Copies(p, f, i, 0) = f[left]
  <2>1. Copies(p, f, i, 0) = Row(p, i, 0) \o f[Behind(p, i + 0 * b)]
    <3> HIDE DEF b, left
    <3>1. ~(0 > all)
      BY <1>2
    <3> QED
      BY <3>1 DEF Copies, b, left
  <2>2. i + 0 * b = i
    BY <1>1
  <2>3. Row(p, i, 0) = <<>>
    BY RowStep
  <2>4. f[left] \in Seq(S)
    BY <1>1
  <2>5. <<>> \o f[left] = f[left]
    <3> HIDE DEF left, S
    <3> QED
      BY <2>4
  <2> QED
    BY <2>1, <2>2, <2>3, <2>5
<1>4. ASSUME n > 0, left < b PROVE Copies(p, f, i, n) = <<>>
  <2>1. n > all /\ all = 0
    BY <1>2, <1>4
  <2>2. Copies(p, f, i, n) = Row(p, i, all)
    BY <2>1 DEF Copies
  <2> QED
    BY <2>1, <2>2, RowStep
<1>5. ASSUME n > 0, left >= b
      PROVE  Copies(p, f, i, n) = <<ValueAt(p, i)>> \o Copies(p, f, i + b, n - 1)
  <2> DEFINE l == Behind(p, i + b)
  <2> DEFINE x == ValueAt(p, i)
  <2>1. i < Size(p) /\ left = Size(p) - i /\ i + b <= Size(p) /\ Size(p) \in Nat
    BY <1>1, <1>5, Places
  <2>2. i + b \in Nat /\ i + b >= HeaderSize
    BY <1>1 DEF HeaderSize
  <2>3. l = left - b
    <3>1. l = IF i + b < Size(p) THEN Size(p) - (i + b) ELSE 0
      BY <2>2, BehindIs
    <3> QED
      BY <1>1, <2>1, <3>1
  <2>4. l \div b = all - 1
    BY <1>2, <1>5, <2>3
  <2>5. x \in S
    BY <2>1, ValueTyped
  <2>6. CASE n > all
    <3>1. Copies(p, f, i, n) = Row(p, i, all)
      BY <2>6 DEF Copies
    <3>2. n - 1 > all - 1
      BY <2>6, <1>2
    <3>3. Copies(p, f, i + b, n - 1) = Row(p, i + b, all - 1)
      BY <2>4, <3>2 DEF Copies
    <3>4. Row(p, i, all) = <<x>> \o Row(p, i + b, all - 1)
      <4>1. all \in Nat /\ all > 0
        BY <1>2, <1>5
      <4> HIDE DEF all
      <4> QED
        BY <4>1, RowStep
    <3> QED
      BY <3>1, <3>3, <3>4
  <2>7. CASE ~(n > all)
    <3> DEFINE j == i + n * b
    <3>1. Copies(p, f, i, n) = Row(p, i, n) \o f[Behind(p, j)]
      BY <2>7 DEF Copies
    <3>2. ~(n - 1 > all - 1)
      BY <2>7, <1>2
    <3>3. Copies(p, f, i + b, n - 1) = Row(p, i + b, n - 1) \o f[Behind(p, (i + b) + (n - 1) * b)]
      BY <2>4, <3>2 DEF Copies
    <3>4. (i + b) + (n - 1) * b = j /\ j \in Nat /\ j >= HeaderSize
      <4> HIDE DEF b
      <4>1. n - 1 \in Nat /\ (n - 1) + 1 = n
        BY <1>5
      <4>2. n * b = (n - 1) * b + b /\ (n - 1) * b \in Nat /\ n * b \in Nat
        BY <1>1, <4>1, Multiples
      <4> QED
        BY <1>1, <4>2 DEF HeaderSize
    <3>5. Row(p, i, n) = <<x>> \o Row(p, i + b, n - 1)
      BY <1>5, RowStep
    <3>6. Row(p, i + b, n - 1) \in Seq(S)
      <4>1. n - 1 \in Nat /\ (n - 1 > 0 => (i + b) + (n - 1) * b <= Size(p))
        <5>1. n * b <= left
          <6> HIDE DEF b, left
          <6>1. n \in Nat /\ n <= left \div b
            BY <1>2, <2>7
          <6> QED
            BY <1>1, <6>1, Wholes
        <5>2. n * b \in Nat
          <6> HIDE DEF b
          <6> QED
            BY <1>1, Multiples
        <5> HIDE DEF b, left
        <5> QED
          BY <1>5, <2>1, <3>4, <5>1, <5>2
      <4> QED
        BY <2>2, <4>1, RowTyped
    <3>7. f[Behind(p, j)] \in Seq(S)
      <4>1. Behind(p, j) \in 0..Len(p.rest)
        <5> HIDE DEF j
        <5> QED
          BY <3>4, BehindIs
      <4> QED
        BY <4>1
    <3> DEFINE t == f[Behind(p, j)]
    <3> DEFINE r == Row(p, i + b, n - 1)
    <3>8. (<<x>> \o r) \o t = <<x>> \o (r \o t)
      <4>1. r \in Seq(S) /\ t \in Seq(S)
        BY <3>6, <3>7
      <4> HIDE DEF x, r, t, S
      <4> QED
        BY ONLY <2>5, <4>1, OneBefore
    <3> QED
      BY <3>1, <3>3, <3>4, <3>5, <3>8
  <2> QED
    BY <2>6, <2>7
<1> QED
  BY <1>3, <1>4, <1>5

\* A packet of equal values whose value is in the file or not.
LEMMA RunsStep ==
  ASSUME NEW p \in Pictures, Verdict(p.head) = "open", NEW f,
         \A m \in 0..Len(p.rest) : f[m] \in Seq(Valued(p)),
         NEW i \in Nat, i >= HeaderSize, NEW n \in Nat, n > 0
  PROVE  LET b == PixelSize(p.head)
             x == ValueAt(p, i)
         IN /\ Behind(p, i) < b => Runs(p, f, i, n) = <<>>
            /\ Behind(p, i) >= b =>
                 Runs(p, f, i, n) = <<x>> \o ([k \in 1..(n - 1) |-> x] \o f[Behind(p, i + b)])
<1> DEFINE b == PixelSize(p.head)
<1> DEFINE x == ValueAt(p, i)
<1> DEFINE S == Valued(p)
<1> DEFINE t == f[Behind(p, i + b)]
<1>1. b \in 1..4 /\ i + b \in Nat /\ i + b >= HeaderSize
  BY Places DEF HeaderSize
<1>2. Behind(p, i) < b => Runs(p, f, i, n) = <<>>
  BY DEF Runs
<1>3. ASSUME Behind(p, i) >= b
      PROVE  Runs(p, f, i, n) = <<x>> \o ([k \in 1..(n - 1) |-> x] \o t)
  <2>1. x \in S
    <3>1. i + b <= Size(p)
      <4>1. Behind(p, i) = (IF i < Size(p) THEN Size(p) - i ELSE 0) /\ Size(p) \in Nat
        BY BehindIs, Places
      <4> HIDE DEF b
      <4> QED
        BY <1>1, <1>3, <4>1
    <3> QED
      BY <3>1, ValueTyped
  <2>2. t \in Seq(S)
    <3>1. Behind(p, i + b) \in 0..Len(p.rest)
      <4> HIDE DEF b
      <4> QED
        BY <1>1, BehindIs
    <3> QED
      BY <3>1
  <2>3. Runs(p, f, i, n) = [k \in 1..n |-> x] \o t
    <3>1. ~(Behind(p, i) < b)
      <4>1. Behind(p, i) \in Nat
        BY BehindIs
      <4> HIDE DEF b
      <4> QED
        BY <1>1, <1>3, <4>1
    <3> QED
      BY <3>1 DEF Runs
  <2> HIDE DEF x, t, S
  <2> DEFINE r == [k \in 1..(n - 1) |-> x]
  <2>4. [k \in 1..n |-> x] = <<x>> \o r
    BY <2>1, RunStep
  <2>5. r \in Seq(S)
    <3>1. n - 1 \in Nat
      OBVIOUS
    <3> QED
      BY <2>1, <3>1, RunStep
  <2> HIDE DEF r
  <2>6. (<<x>> \o r) \o t = <<x>> \o (r \o t)
    BY ONLY <2>1, <2>2, <2>5, OneBefore
  <2> QED
    BY <2>3, <2>4, <2>6 DEF r
<1> QED
  BY <1>2, <1>3

\* The head of a packet, and where it goes on.
LEMMA HeadOf ==
  ASSUME NEW p \in Pictures, NEW n \in Nat, n <= Len(p.rest), n > 0
  PROVE  LET i == Size(p) - n
         IN /\ i \in Nat /\ i >= HeaderSize /\ i + 1 >= HeaderSize /\ i + 1 \in Nat
            /\ Behind(p, i) = n /\ Behind(p, i + 1) = n - 1
            /\ Bytes(p, i, 1)[1] \in Byte
            /\ \A j \in Nat : Behind(p, (i + 1) + j) = IF j < n - 1 THEN (n - 1) - j ELSE 0
<1> DEFINE i == Size(p) - n
<1>1. Size(p) = HeaderSize + Len(p.rest) /\ Len(p.rest) \in Nat /\ Size(p) \in Nat
  BY BehindIs, Places
<1>2. i \in Nat /\ i >= HeaderSize /\ i + 1 >= HeaderSize /\ i + 1 \in Nat /\ i < Size(p) /\ i + n = Size(p)
  BY <1>1 DEF HeaderSize
<1> HIDE DEF i
<1>3. Behind(p, i) = n
  <2>1. Behind(p, i) = IF i < Size(p) THEN Size(p) - i ELSE 0
    BY <1>2, BehindIs
  <2> QED
    BY <1>1, <1>2, <2>1
<1>4. ASSUME NEW j \in Nat PROVE Behind(p, (i + 1) + j) = IF j < n - 1 THEN (n - 1) - j ELSE 0
  <2>1. (i + 1) + j \in Nat
    BY <1>2
  <2>2. Behind(p, (i + 1) + j) = IF (i + 1) + j < Size(p) THEN Size(p) - ((i + 1) + j) ELSE 0
    BY <2>1, BehindIs
  <2> QED
    BY <1>1, <1>2, <2>2
<1>5. Behind(p, i + 1) = n - 1
  <2>1. Behind(p, i + 1) = IF i + 1 < Size(p) THEN Size(p) - (i + 1) ELSE 0
    BY <1>2, BehindIs
  <2> QED
    BY <1>1, <1>2, <2>1
<1>6. Bytes(p, i, 1)[1] \in Byte
  <2>1. i \in Int /\ 1 \in Nat /\ (1 > 0 => i >= HeaderSize /\ i + 1 <= Size(p))
    BY <1>1, <1>2
  <2>2. Bytes(p, i, 1) \in Seq(Byte) /\ Len(Bytes(p, i, 1)) = 1
    BY <2>1, FileBytes
  <2> QED
    BY <2>2
<1> QED
  BY <1>2, <1>3, <1>4, <1>5, <1>6 DEF i

\* The values behind a packet depend on those of fewer bytes only, and are values
\* when those are.
LEMMA PacketUses ==
  ASSUME NEW p \in Pictures, Verdict(p.head) = "open", NEW n \in Nat, n <= Len(p.rest),
         NEW f, NEW g, \A m \in 0..(n - 1) : f[m] = g[m]
  PROVE  Unpacked(p, f, n) = Unpacked(p, g, n)
<1> DEFINE i == Size(p) - n
<1> DEFINE head == Bytes(p, i, 1)[1]
<1> DEFINE b == PixelSize(p.head)
<1>1. CASE n = 0
  BY <1>1 DEF Unpacked
<1>2. CASE n > 0
  <2>1. /\ Behind(p, i + 1) = n - 1 /\ head \in Byte /\ n - 1 \in Nat
        /\ \A j \in Nat : Behind(p, (i + 1) + j) = IF j < n - 1 THEN (n - 1) - j ELSE 0
    BY <1>2, HeadOf
  <2>2. b \in 1..4
    BY Places
  <2>3. /\ Unpacked(p, f, n) = (IF head >= 128 THEN Runs(p, f, i + 1, head - 127) ELSE Copies(p, f, i + 1, head + 1))
        /\ Unpacked(p, g, n) = (IF head >= 128 THEN Runs(p, g, i + 1, head - 127) ELSE Copies(p, g, i + 1, head + 1))
    BY <1>2 DEF Unpacked
  <2> HIDE DEF i, head
  <2>4. Runs(p, f, i + 1, head - 127) = Runs(p, g, i + 1, head - 127)
    <3>1. CASE n - 1 < b
      BY <2>1, <3>1 DEF Runs
    <3>2. CASE ~(n - 1 < b)
      <4>1. Behind(p, (i + 1) + b) \in 0..(n - 1)
        <5> HIDE DEF b
        <5>1. b \in Nat /\ Behind(p, (i + 1) + b) = IF b < n - 1 THEN (n - 1) - b ELSE 0
          BY <2>1, <2>2
        <5> QED
          BY <2>1, <2>2, <5>1
      <4>2. f[Behind(p, (i + 1) + b)] = g[Behind(p, (i + 1) + b)]
        BY <4>1
      <4> QED
        BY <2>1, <3>2, <4>2 DEF Runs
    <3> QED
      BY <3>1, <3>2
  <2>5. Copies(p, f, i + 1, head + 1) = Copies(p, g, i + 1, head + 1)
    <3> DEFINE all == Behind(p, i + 1) \div b
    <3>1. CASE head + 1 > all
      BY <3>1 DEF Copies
    <3>2. CASE ~(head + 1 > all)
      <4> DEFINE j == (head + 1) * b
      <4>1. j \in Nat
        <5>1. head + 1 \in Nat
          BY <2>1 DEF Byte
        <5> HIDE DEF b
        <5> QED
          BY <2>2, <5>1, Multiples
      <4>2. Behind(p, (i + 1) + j) \in 0..(n - 1)
        <5> HIDE DEF j
        <5>1. Behind(p, (i + 1) + j) = IF j < n - 1 THEN (n - 1) - j ELSE 0
          BY <2>1, <4>1
        <5> QED
          BY <2>1, <4>1, <5>1
      <4>3. f[Behind(p, (i + 1) + j)] = g[Behind(p, (i + 1) + j)]
        BY <4>2
      <4> QED
        BY <3>2, <4>3 DEF Copies
    <3> QED
      BY <3>1, <3>2
  <2> QED
    BY <2>3, <2>4, <2>5
<1> QED
  BY <1>1, <1>2

\* The values of a packet are values when those behind it are.
LEMMA PacketTyped ==
  ASSUME NEW p \in Pictures, Verdict(p.head) = "open", NEW n \in Nat, n <= Len(p.rest),
         NEW f, \A m \in 0..(n - 1) : f[m] \in Seq(Valued(p))
  PROVE  Unpacked(p, f, n) \in Seq(Valued(p))
<1> DEFINE i == Size(p) - n
<1> DEFINE head == Bytes(p, i, 1)[1]
<1> DEFINE b == PixelSize(p.head)
<1> DEFINE S == Valued(p)
<1>1. CASE n = 0
  <2>1. Unpacked(p, f, n) = <<>>
    BY <1>1 DEF Unpacked
  <2> QED
    BY <2>1
<1>2. CASE n > 0
  <2>1. /\ Behind(p, i + 1) = n - 1 /\ head \in Byte /\ n - 1 \in Nat
        /\ i + 1 \in Nat /\ i + 1 >= HeaderSize
        /\ \A j \in Nat : Behind(p, (i + 1) + j) = IF j < n - 1 THEN (n - 1) - j ELSE 0
    BY <1>2, HeadOf
  <2>7. i + n = Size(p) /\ Size(p) \in Nat /\ i \in Nat
    <3>1. Size(p) \in Nat /\ i \in Nat
      BY <1>2, HeadOf, Places
    <3> QED
      BY <3>1
  <2>2. b \in 1..4
    BY Places
  <2>3. Unpacked(p, f, n) = IF head >= 128 THEN Runs(p, f, i + 1, head - 127) ELSE Copies(p, f, i + 1, head + 1)
    BY <1>2 DEF Unpacked
  <2> HIDE DEF i, head
  <2>4. ASSUME NEW j \in Nat PROVE f[Behind(p, (i + 1) + j)] \in Seq(S)
    <3>1. Behind(p, (i + 1) + j) = IF j < n - 1 THEN (n - 1) - j ELSE 0
      BY <2>1
    <3>2. Behind(p, (i + 1) + j) \in 0..(n - 1)
      <4>1. n - 1 \in Nat
        BY <2>1
      <4> QED
        BY <3>1, <4>1
    <3> QED
      BY <3>2
  <2>5. ASSUME head >= 128 PROVE Runs(p, f, i + 1, head - 127) \in Seq(S)
    <3>1. CASE n - 1 < b
      <4>1. Runs(p, f, i + 1, head - 127) = <<>>
        BY <2>1, <3>1 DEF Runs
      <4> HIDE DEF S
      <4>2. <<>> \in Seq(S)
        OBVIOUS
      <4> QED
        BY <4>1, <4>2
    <3>2. CASE ~(n - 1 < b)
      <4> DEFINE x == ValueAt(p, i + 1)
      <4> DEFINE t == f[Behind(p, (i + 1) + b)]
      <4>1. Runs(p, f, i + 1, head - 127) = [k \in 1..(head - 127) |-> x] \o t
        BY <2>1, <3>2 DEF Runs
      <4>2. t \in Seq(S)
        BY <2>2, <2>4
      <4>3. (i + 1) + b <= Size(p)
        <5>1. b <= n - 1 /\ b \in Nat
          <6> HIDE DEF b
          <6> QED
            BY <2>2, <3>2
        <5> HIDE DEF b
        <5> QED
          BY <2>7, <5>1
      <4>4. x \in S
        BY <2>1, <4>3, ValueTyped
      <4>5. head - 127 \in Nat
        BY <2>1, <2>5 DEF Byte
      <4> HIDE DEF x, t, S
      <4>6. [k \in 1..(head - 127) |-> x] \in Seq(S)
        BY <4>4, <4>5, RunStep
      <4> DEFINE r == [k \in 1..(head - 127) |-> x]
      <4> HIDE DEF r
      <4>7. r \o t \in Seq(S)
        BY <4>2, <4>6, Joined DEF r
      <4> QED
        BY <4>1, <4>7 DEF r
    <3> QED
      BY <3>1, <3>2
  <2>6. Copies(p, f, i + 1, head + 1) \in Seq(S)
    <3> DEFINE all == Behind(p, i + 1) \div b
    <3>1. all \in Nat /\ all * b <= n - 1
      <4> HIDE DEF b
      <4> QED
        BY <2>1, <2>2, Wholes
    <3>2. ASSUME NEW m \in Nat, m <= all PROVE Row(p, i + 1, m) \in Seq(S)
      <4>1. m * b <= n - 1 /\ m * b \in Nat
        <5> HIDE DEF b
        <5> QED
          BY <2>1, <2>2, <3>2, Wholes, Multiples
      <4>2. (i + 1) + m * b <= Size(p)
        <5> DEFINE y == m * b
        <5> HIDE DEF y
        <5>1. y \in Nat /\ y <= n - 1
          BY <4>1 DEF y
        <5>2. (i + 1) + y <= Size(p)
          BY <2>7, <5>1
        <5> QED
          BY <5>2 DEF y
      <4> QED
        BY <2>1, <4>2, RowTyped
    <3>3. CASE head + 1 > all
      <4>1. Copies(p, f, i + 1, head + 1) = Row(p, i + 1, all)
        BY <3>3 DEF Copies
      <4> HIDE DEF all
      <4> QED
        BY <3>1, <3>2, <4>1
    <3>4. CASE ~(head + 1 > all)
      <4> DEFINE t == f[Behind(p, (i + 1) + (head + 1) * b)]
      <4> DEFINE r == Row(p, i + 1, head + 1)
      <4>1. Copies(p, f, i + 1, head + 1) = r \o t
        BY <3>4 DEF Copies
      <4>2. head + 1 \in Nat
        BY <2>1 DEF Byte
      <4>3. (head + 1) * b \in Nat
        <5> HIDE DEF b
        <5> QED
          BY <2>2, <4>2, Multiples
      <4>4. t \in Seq(S)
        <5> DEFINE y == (head + 1) * b
        <5> HIDE DEF y
        <5>1. f[Behind(p, (i + 1) + y)] \in Seq(S)
          BY <2>4, <4>3 DEF y
        <5> QED
          BY <5>1 DEF y
      <4>5. r \in Seq(S)
        <5> HIDE DEF all
        <5>1. head + 1 <= all
          BY <3>1, <3>4, <4>2
        <5> QED
          BY <3>2, <4>2, <5>1
      <4> HIDE DEF r, t, S
      <4>6. r \o t \in Seq(S)
        BY <4>4, <4>5, Joined
      <4> QED
        BY <4>1, <4>6
    <3> QED
      BY <3>3, <3>4
  <2> QED
    BY <2>3, <2>5, <2>6
<1> QED
  BY <1>1, <1>2

\* Numbers have no infinite descent.
LEMMA LessIsWellFounded == IsWellFoundedOn({p \in Nat \X Nat : p[1] < p[2]}, Nat)
<1>1. {p \in Nat \X Nat : p[1] < p[2]} = OpToRel(<, Nat)
  BY Zenon DEF OpToRel
<1> QED
  BY <1>1, NatLessThanWellFounded, Zenon

\* A set of numbers has a least one.
LEMMA Least ==
  ASSUME NEW T, T \subseteq Nat, T # {}
  PROVE  \E x \in T : \A y \in T : x <= y
<1>1. PICK x \in T : \A y \in T : ~(<<y, x>> \in {p \in Nat \X Nat : p[1] < p[2]})
  BY WFMin, LessIsWellFounded, Zenon
<1>2. \A y \in T : ~(y < x)
  <2> TAKE y \in T
  <2>1. y \in Nat /\ x \in Nat /\ <<y, x>> \in Nat \X Nat
    OBVIOUS
  <2> QED
    BY <1>1, <2>1
<1> QED
  BY <1>2

\* The packets of the last n bytes have been unpacked.
IsUnpacked(p, f, n) == f = [m \in 0..n |-> Unpacked(p, f, m)]

\* However many bytes there are, their packets can be unpacked.
LEMMA UnpackedExists ==
  ASSUME NEW p \in Pictures, Verdict(p.head) = "open", NEW n \in Nat, n <= Len(p.rest)
  PROVE  \E f : IsUnpacked(p, f, n)
<1> DEFINE T == {m \in 0..Len(p.rest) : ~\E f : IsUnpacked(p, f, m)}
<1>1. Len(p.rest) \in Nat
  BY BehindIs, FilesAssumption
<1> SUFFICES ASSUME T # {} PROVE FALSE
  BY <1>1
<1>2. PICK m \in T : \A y \in T : m <= y
  <2>1. T \subseteq Nat
    BY <1>1
  <2> HIDE DEF T
  <2> QED
    BY <2>1, Least
<1>3. m \in Nat /\ m <= Len(p.rest) /\ ~\E f : IsUnpacked(p, f, m)
  BY <1>1, <1>2
<1>4. CASE m = 0
  <2> DEFINE f == [k \in 0..0 |-> Unpacked(p, <<>>, k)]
  <2>1. ASSUME NEW k \in 0..0 PROVE Unpacked(p, f, k) = Unpacked(p, <<>>, k)
    <3>1. k = 0
      OBVIOUS
    <3> HIDE DEF f
    <3> QED
      BY <3>1 DEF Unpacked
  <2>2. IsUnpacked(p, f, 0)
    BY <2>1 DEF IsUnpacked
  <2> QED
    BY <1>3, <1>4, <2>2
<1>5. CASE m > 0
  <2>1. m - 1 \in 0..Len(p.rest) /\ m - 1 \in Nat /\ ~(m <= m - 1)
    BY <1>1, <1>3, <1>5
  <2>2. PICK g : IsUnpacked(p, g, m - 1)
    BY <1>2, <2>1
  <2>3. g = [k \in 0..(m - 1) |-> Unpacked(p, g, k)]
    BY <2>2 DEF IsUnpacked
  <2> DEFINE f == [k \in 0..m |-> IF k = m THEN Unpacked(p, g, m) ELSE g[k]]
  <2>4. \A k \in 0..(m - 1) : f[k] = g[k]
    BY <1>3
  <2>5. ASSUME NEW k \in 0..m PROVE f[k] = Unpacked(p, f, k)
    <3>1. k \in Nat /\ k <= Len(p.rest) /\ \A j \in 0..(k - 1) : j \in 0..(m - 1)
      BY <1>1, <1>3
    <3>2. \A j \in 0..(k - 1) : f[j] = g[j]
      <4> HIDE DEF f
      <4> QED
        BY <2>4, <3>1
    <3>3. Unpacked(p, f, k) = Unpacked(p, g, k)
      <4> HIDE DEF f
      <4> QED
        BY <3>1, <3>2, PacketUses
    <3>4. CASE k = m
      <4>1. f[k] = Unpacked(p, g, m)
        BY <3>4
      <4> QED
        BY <3>3, <3>4, <4>1
    <3>5. CASE k # m
      <4>1. k \in 0..(m - 1)
        BY <1>3, <3>5
      <4>2. f[k] = g[k] /\ g[k] = Unpacked(p, g, k)
        BY <2>3, <2>4, <4>1
      <4> QED
        BY <3>3, <4>2
    <3> QED
      BY <3>4, <3>5
  <2>6. f = [k \in 0..m |-> f[k]]
    OBVIOUS
  <2>7. IsUnpacked(p, f, m)
    <3> HIDE DEF f
    <3> QED
      BY <2>5, <2>6 DEF IsUnpacked
  <2> QED
    BY <1>3, <2>7
<1> QED
  BY <1>3, <1>4, <1>5

\* The unpacked file: packet by packet, and every value of it is one.
LEMMA PackedIs ==
  ASSUME NEW p \in Pictures, Verdict(p.head) = "open"
  PROVE  \A n \in 0..Len(p.rest) : /\ Packed(p)[n] = Unpacked(p, Packed(p), n)
                                   /\ Packed(p)[n] \in Seq(Valued(p))
<1> DEFINE f == Packed(p)
<1>1. Len(p.rest) \in Nat
  BY BehindIs, FilesAssumption
<1>2. IsUnpacked(p, f, Len(p.rest))
  <2>1. \E g : IsUnpacked(p, g, Len(p.rest))
    BY <1>1, UnpackedExists
  <2>2. f = CHOOSE g : IsUnpacked(p, g, Len(p.rest))
    BY DEF Packed, IsUnpacked
  <2> HIDE DEF f
  <2> QED
    BY <2>1, <2>2
<1> HIDE DEF f
<1>3. \A n \in 0..Len(p.rest) : f[n] = Unpacked(p, f, n)
  <2>1. f = [m \in 0..Len(p.rest) |-> Unpacked(p, f, m)]
    BY <1>2 DEF IsUnpacked
  <2> QED
    BY <2>1
<1>4. \A n \in 0..Len(p.rest) : f[n] \in Seq(Valued(p))
  <2> DEFINE T == {m \in 0..Len(p.rest) : ~(f[m] \in Seq(Valued(p)))}
  <2> SUFFICES ASSUME T # {} PROVE FALSE
    OBVIOUS
  <2>1. PICK m \in T : \A y \in T : m <= y
    <3>1. T \subseteq Nat
      BY <1>1
    <3> HIDE DEF T
    <3> QED
      BY <3>1, Least
  <2>2. m \in Nat /\ m <= Len(p.rest) /\ ~(f[m] \in Seq(Valued(p)))
    BY <1>1, <2>1
  <2>3. \A k \in 0..(m - 1) : f[k] \in Seq(Valued(p))
    <3> TAKE k \in 0..(m - 1)
    <3>1. k \in 0..Len(p.rest) /\ ~(m <= k)
      BY <1>1, <2>2
    <3> QED
      BY <2>1, <3>1
  <2>4. Unpacked(p, f, m) \in Seq(Valued(p))
    BY <2>2, <2>3, PacketTyped
  <2> QED
    BY <1>3, <2>2, <2>4
<1> QED
  BY <1>3, <1>4 DEF f

\* So many values fit between a place and the end of a file.
LEMMA RowFits ==
  ASSUME NEW p \in Pictures, Verdict(p.head) = "open", NEW i \in Nat
  PROVE  LET all == Behind(p, i) \div PixelSize(p.head)
         IN /\ all \in Nat
            /\ \A n \in Nat : n <= all /\ n > 0 => i + n * PixelSize(p.head) <= Size(p)
<1> DEFINE b == PixelSize(p.head)
<1> DEFINE left == Behind(p, i)
<1>1. b \in 1..4 /\ left \in Nat /\ left = (IF i < Size(p) THEN Size(p) - i ELSE 0) /\ Size(p) \in Nat
  BY Places, BehindIs
<1> HIDE DEF b, left
<1>2. left \div b \in Nat /\ \A n \in Nat : n <= left \div b => n * b <= left
  BY <1>1, Wholes
<1>3. ASSUME NEW n \in Nat, n <= left \div b, n > 0 PROVE i + n * b <= Size(p)
  <2>1. n * b <= left
    BY <1>2, <1>3
  <2>2. 1 * b <= n * b /\ n * b \in Nat /\ 1 * b = b
    BY <1>1, <1>3, Multiples
  <2> DEFINE y == n * b
  <2> HIDE DEF y
  <2>3. y <= left /\ y >= 1 /\ y \in Nat
    BY <1>1, <2>1, <2>2 DEF y
  <2>4. i + y <= Size(p)
    BY <1>1, <2>3
  <2> QED
    BY <2>4 DEF y
<1> QED
  BY <1>2, <1>3 DEF b, left

-----------------------------------------------------------------------------
(* What is still to come.                                                  *)

\* The values of a file.
LEMMA ValuesTyped ==
  ASSUME NEW p \in Pictures, Verdict(p.head) = "open"
  PROVE  Values(p) \in Seq(Valued(p))
<1> DEFINE i == Start(p.head)
<1>1. i \in Nat /\ i >= HeaderSize /\ PixelSize(p.head) \in 1..4
  BY Places
<1>2. Behind(p, i) \in 0..Len(p.rest)
  <2> HIDE DEF i
  <2> QED
    BY <1>1, BehindIs
<1>3. CASE IsCompressed(p.head)
  <2>1. Values(p) = Packed(p)[Behind(p, i)]
    BY <1>3 DEF Values
  <2>2. Packed(p)[Behind(p, i)] \in Seq(Valued(p))
    <3> HIDE DEF i
    <3> QED
      BY <1>2, PackedIs
  <2> QED
    BY <2>1, <2>2
<1>4. CASE ~IsCompressed(p.head)
  <2> DEFINE n == Behind(p, i) \div PixelSize(p.head)
  <2>1. Values(p) = Row(p, i, n)
    BY <1>4 DEF Values
  <2> HIDE DEF i, n
  <2>2. n \in Nat /\ (n > 0 => i + n * PixelSize(p.head) <= Size(p))
    BY <1>1, RowFits DEF n
  <2>3. Row(p, i, n) \in Seq(Valued(p))
    BY <1>1, <2>2, RowTyped
  <2> QED
    BY <2>1, <2>3
<1> QED
  BY <1>3, <1>4

\* The values of a packet that goes on are colours.
LEMMA CopiesTyped ==
  ASSUME NEW p \in Pictures, Verdict(p.head) = "open", NEW i \in Nat, i >= HeaderSize,
         NEW s \in Nat
  PROVE  /\ Copies(p, Packed(p), i, s) \in Seq(Colour)
         /\ \A n \in Nat : n <= Behind(p, i) \div PixelSize(p.head) => Row(p, i, n) \in Seq(Colour)
<1> DEFINE b == PixelSize(p.head)
<1>1. b \in 1..4 /\ Behind(p, i) \in 0..Len(p.rest) /\ Behind(p, i) \in Nat
  BY Places, BehindIs
<1>2. \A n \in Nat : n <= Behind(p, i) \div b => Row(p, i, n) \in Seq(Colour)
  <2> TAKE n \in Nat
  <2>1. HAVE n <= Behind(p, i) \div b
  <2>2. n > 0 => i + n * b <= Size(p)
    <3> HIDE DEF b
    <3> QED
      BY <2>1, RowFits DEF b
  <2>3. Row(p, i, n) \in Seq(Valued(p)) /\ Valued(p) \subseteq Colour
    BY <2>2, RowTyped DEF Valued
  <2> QED
    BY <2>3
<1>3. \A m \in 0..Len(p.rest) : Packed(p)[m] \in Seq(Colour)
  <2>1. Valued(p) \subseteq Colour
    BY DEF Valued
  <2> QED
    BY <2>1, PackedIs
<1> DEFINE f == Packed(p)
<1> DEFINE t == Copies(p, f, i, s)
<1> DEFINE all == Behind(p, i) \div b
<1>4. all \in Nat
  <2> HIDE DEF b
  <2> QED
    BY <1>1, Wholes
<1>5. CASE s > all
  <2>1. t = Row(p, i, all)
    BY <1>5 DEF Copies
  <2> QED
    BY <1>2, <1>4, <2>1
<1>6. CASE ~(s > all)
  <2> DEFINE r == Row(p, i, s)
  <2> DEFINE u == f[Behind(p, i + s * b)]
  <2>1. t = r \o u
    BY <1>6 DEF Copies
  <2>2. r \in Seq(Colour)
    BY <1>2, <1>4, <1>6
  <2>3. i + s * b \in Nat /\ i + s * b >= HeaderSize
    <3>1. s * b \in Nat
      <4> HIDE DEF b
      <4> QED
        BY <1>1, Multiples
    <3> DEFINE y == s * b
    <3> HIDE DEF y
    <3>2. i + y \in Nat /\ i + y >= HeaderSize
      BY <3>1 DEF y, HeaderSize
    <3> QED
      BY <3>2 DEF y
  <2>4. u \in Seq(Colour)
    <3> DEFINE j == i + s * b
    <3>1. Behind(p, j) \in 0..Len(p.rest)
      <4> HIDE DEF j
      <4> QED
        BY <2>3, BehindIs DEF j
    <3> QED
      BY <1>3, <3>1
  <2>5. t \in Seq(Colour)
    <3> HIDE DEF r, u, t
    <3> QED
      BY <2>1, <2>2, <2>4, Joined
  <2> QED
    BY <1>2, <2>5
<1> QED
  BY <1>5, <1>6

\* The values to come are colours.
LEMMA LaterTyped ==
  ASSUME NEW p \in Pictures, Verdict(p.head) = "open", NEW i \in Nat, i >= HeaderSize,
         NEW v \in Colour, NEW c \in Nat, NEW s \in Nat
  PROVE  LaterAt(p, i, v, c, s) \in Seq(Colour)
<1>1. CASE ~IsCompressed(p.head)
  <2>1. Behind(p, i) \div PixelSize(p.head) \in Nat
    BY RowFits
  <2> QED
    BY <1>1, <2>1, CopiesTyped DEF LaterAt
<1>2. CASE IsCompressed(p.head)
  <2> DEFINE t == Copies(p, Packed(p), i, s)
  <2> DEFINE r == [k \in 1..c |-> v]
  <2>1. LaterAt(p, i, v, c, s) = r \o t
    BY <1>2 DEF LaterAt
  <2>2. t \in Seq(Colour)
    BY CopiesTyped
  <2>3. r \in Seq(Colour)
    BY RunStep
  <2> HIDE DEF r, t
  <2> QED
    BY <2>1, <2>2, <2>3, Joined
<1> QED
  BY <1>1, <1>2

\* A pixel of a raw picture takes the next value, if the file still has it.
LEMMA PixelTakes ==
  ASSUME NEW p \in Pictures, Verdict(p.head) = "open", ~IsCompressed(p.head),
         NEW i \in Nat, i >= HeaderSize, NEW v, NEW c, NEW s
  PROVE  LET b == PixelSize(p.head)
         IN /\ LaterAt(p, i, v, c, s) = AskedAt(p, i, "pixel", c, s)
            /\ Behind(p, i) < b => AskedAt(p, i, "pixel", c, s) = <<>>
            /\ Behind(p, i) >= b =>
                 AskedAt(p, i, "pixel", c, s) = <<ValueAt(p, i)>> \o LaterAt(p, i + b, v, c, s)
<1> DEFINE b == PixelSize(p.head)
<1> DEFINE left == Behind(p, i)
<1> DEFINE all == left \div b
<1>1. /\ b \in 1..4 /\ left \in Nat /\ left = (IF i < Size(p) THEN Size(p) - i ELSE 0)
      /\ Size(p) \in Nat
  BY Places, BehindIs
<1>2. AskedAt(p, i, "pixel", c, s) = Row(p, i, all)
  BY DEF AskedAt
<1>3. LaterAt(p, i, v, c, s) = Row(p, i, all)
  BY DEF LaterAt
<1>4. /\ left < b => all = 0
      /\ all \in Nat
      /\ left >= b => all >= 1 /\ (left - b) \div b = all - 1
  <2> HIDE DEF left, b
  <2> QED
    BY <1>1, Wholes
<1>5. left < b => Row(p, i, all) = <<>>
  <2>1. Row(p, i, 0) = <<>>
    BY RowStep
  <2> QED
    BY <1>4, <2>1
<1>6. ASSUME left >= b
      PROVE  Row(p, i, all) = <<ValueAt(p, i)>> \o LaterAt(p, i + b, v, c, s)
  <2>1. LaterAt(p, i + b, v, c, s) = Row(p, i + b, Behind(p, i + b) \div b)
    BY DEF LaterAt
  <2>2. Behind(p, i + b) = left - b
    <3> HIDE DEF left, b
    <3>1. i + b \in Nat
      BY <1>1
    <3>2. Behind(p, i + b) = IF i + b < Size(p) THEN Size(p) - (i + b) ELSE 0
      BY <3>1, BehindIs
    <3> QED
      BY <1>1, <1>6, <3>2
  <2>3. Behind(p, i + b) \div b = all - 1
    BY <1>4, <1>6, <2>2
  <2>4. Row(p, i, all) = <<ValueAt(p, i)>> \o Row(p, i + b, all - 1)
    <3>1. all \in Nat /\ all > 0
      BY <1>4, <1>6
    <3> HIDE DEF all
    <3> QED
      BY <3>1, RowStep
  <2> QED
    BY <2>1, <2>3, <2>4
<1> QED
  BY <1>2, <1>3, <1>5, <1>6

\* What a packet is at, in a compressed picture: a run that goes on, a value to be
\* copied, or the next packet.
LEMMA PacketNext ==
  ASSUME NEW p \in Pictures, Verdict(p.head) = "open", IsCompressed(p.head),
         NEW i \in Nat, i >= HeaderSize, NEW v \in Colour, NEW c \in Nat, NEW s \in Nat
  PROVE  /\ c > 0 => LaterAt(p, i, v, c, s) = <<v>> \o LaterAt(p, i, v, c - 1, s)
         /\ c = 0 /\ s > 0 => LaterAt(p, i, v, c, s) = AskedAt(p, i, "copy", c, s - 1)
         /\ c = 0 /\ s = 0 => LaterAt(p, i, v, c, s) = AskedAt(p, i, "packet", c, s)
<1> DEFINE f == Packed(p)
<1> DEFINE t == Copies(p, f, i, s)
<1>1. t \in Seq(Colour)
  BY CopiesTyped
<1>2. \A n : LaterAt(p, i, v, n, s) = [k \in 1..n |-> v] \o t
  BY DEF LaterAt
<1>3. ASSUME c > 0 PROVE LaterAt(p, i, v, c, s) = <<v>> \o LaterAt(p, i, v, c - 1, s)
  <2> DEFINE r == [k \in 1..(c - 1) |-> v]
  <2>1. [k \in 1..c |-> v] = <<v>> \o r
    BY <1>3, RunStep
  <2>2. r \in Seq(Colour)
    <3>1. c - 1 \in Nat
      BY <1>3
    <3> QED
      BY <3>1, RunStep
  <2>3. LaterAt(p, i, v, c, s) = (<<v>> \o r) \o t /\ LaterAt(p, i, v, c - 1, s) = r \o t
    BY <1>2, <2>1
  <2> HIDE DEF r, t
  <2>4. (<<v>> \o r) \o t = <<v>> \o (r \o t)
    BY <1>1, <2>2, OneBefore
  <2> QED
    BY <2>3, <2>4
<1>4. LaterAt(p, i, v, 0, s) = t
  <2>1. [k \in 1..0 |-> v] = <<>>
    BY RunStep
  <2>2. LaterAt(p, i, v, 0, s) = <<>> \o t
    BY <1>2, <2>1
  <2> HIDE DEF t
  <2>3. <<>> \o t = t
    BY <1>1, OneBefore
  <2> QED
    BY <2>2, <2>3
<1>5. s > 0 => AskedAt(p, i, "copy", 0, s - 1) = t
  <2>1. (s - 1) + 1 = s
    OBVIOUS
  <2>2. AskedAt(p, i, "copy", 0, s - 1) = Copies(p, f, i, (s - 1) + 1)
    BY DEF AskedAt
  <2> QED
    BY <2>1, <2>2
<1>6. s = 0 => AskedAt(p, i, "packet", 0, s) = t
  <2>1. AskedAt(p, i, "packet", 0, s) = f[Behind(p, i)]
    BY DEF AskedAt
  <2>2. Copies(p, f, i, 0) = f[Behind(p, i)]
    <3>1. \A m \in 0..Len(p.rest) : f[m] \in Seq(Valued(p))
      BY PackedIs
    <3> HIDE DEF f
    <3> QED
      BY <3>1, CopiesStep
  <2> QED
    BY <2>1, <2>2
<1> QED
  BY <1>3, <1>4, <1>5, <1>6

\* What a call that reads gets of the values to come: a copied one, the first one
\* of a run, or a packet that goes on with its values; nothing when the file ends.
LEMMA PacketTakes ==
  ASSUME NEW p \in Pictures, Verdict(p.head) = "open", IsCompressed(p.head),
         NEW i \in Nat, i >= HeaderSize, NEW v \in Colour, NEW c \in Nat, NEW s \in Nat
  PROVE  LET b == PixelSize(p.head)
             x == ValueAt(p, i)
             head == Bytes(p, i, 1)[1]
         IN /\ Behind(p, i) < b => AskedAt(p, i, "copy", c, s) = <<>>
            /\ Behind(p, i) >= b =>
                 AskedAt(p, i, "copy", c, s) = <<x>> \o LaterAt(p, i + b, v, 0, s)
            /\ c > 0 /\ Behind(p, i) < b => AskedAt(p, i, "run", c, s) = <<>>
            /\ c > 0 /\ Behind(p, i) >= b =>
                 AskedAt(p, i, "run", c, s) = <<x>> \o LaterAt(p, i + b, x, c - 1, 0)
            /\ Behind(p, i) < 1 => AskedAt(p, i, "packet", c, s) = <<>>
            /\ Behind(p, i) >= 1 =>
                 AskedAt(p, i, "packet", c, s) =
                   IF head >= 128 THEN AskedAt(p, i + 1, "run", head - 127, s)
                   ELSE AskedAt(p, i + 1, "copy", c, head)
<1> DEFINE b == PixelSize(p.head)
<1> DEFINE x == ValueAt(p, i)
<1> DEFINE f == Packed(p)
<1>1. \A m \in 0..Len(p.rest) : f[m] \in Seq(Valued(p))
  BY PackedIs
<1>2. /\ AskedAt(p, i, "copy", c, s) = Copies(p, f, i, s + 1)
      /\ AskedAt(p, i, "run", c, s) = Runs(p, f, i, c)
      /\ AskedAt(p, i, "packet", c, s) = f[Behind(p, i)]
      /\ \A j, n, m : AskedAt(p, j, "run", n, m) = Runs(p, f, j, n)
      /\ \A j, n, m : AskedAt(p, j, "copy", n, m) = Copies(p, f, j, m + 1)
  BY DEF AskedAt
<1>3. /\ b \in 1..4 /\ Behind(p, i) \in 0..Len(p.rest) /\ Len(p.rest) \in Nat
      /\ i + b \in Nat /\ i + b >= HeaderSize
      /\ Behind(p, i) = (IF i < Size(p) THEN Size(p) - i ELSE 0) /\ Size(p) \in Nat
  <2>1. b \in 1..4 /\ Size(p) \in Nat
    BY Places
  <2> HIDE DEF b
  <2>2. i + b \in Nat /\ i + b >= HeaderSize
    BY <2>1 DEF HeaderSize
  <2> QED
    BY <2>1, <2>2, BehindIs
<1>4. LaterAt(p, i + b, v, 0, s) = Copies(p, f, i + b, s)
  <2> DEFINE t == Copies(p, f, i + b, s)
  <2>1. LaterAt(p, i + b, v, 0, s) = [k \in 1..0 |-> v] \o t
    BY DEF LaterAt
  <2>2. t \in Seq(Colour)
    <3> HIDE DEF b
    <3> QED
      BY <1>3, CopiesTyped
  <2>3. [k \in 1..0 |-> v] = <<>>
    BY RunStep
  <2> HIDE DEF t
  <2>4. <<>> \o t = t
    BY <2>2, OneBefore
  <2> QED
    BY <2>1, <2>3, <2>4 DEF t
<1>5. /\ Behind(p, i) < b => Copies(p, f, i, s + 1) = <<>>
      /\ Behind(p, i) >= b => Copies(p, f, i, s + 1) = <<x>> \o Copies(p, f, i + b, s)
  <2>1. s + 1 \in Nat /\ s + 1 > 0 /\ (s + 1) - 1 = s
    OBVIOUS
  <2> HIDE DEF f
  <2>2. /\ Behind(p, i) < b => Copies(p, f, i, s + 1) = <<>>
        /\ Behind(p, i) >= b => Copies(p, f, i, s + 1) = <<x>> \o Copies(p, f, i + b, (s + 1) - 1)
    BY <1>1, <2>1, CopiesStep
  <2> QED
    BY <2>1, <2>2
<1>6. /\ c > 0 /\ Behind(p, i) < b => Runs(p, f, i, c) = <<>>
      /\ c > 0 /\ Behind(p, i) >= b =>
           Runs(p, f, i, c) = <<x>> \o ([k \in 1..(c - 1) |-> x] \o f[Behind(p, i + b)])
  <2> HIDE DEF f
  <2> QED
    BY <1>1, RunsStep
<1>7. LaterAt(p, i + b, x, c - 1, 0) = [k \in 1..(c - 1) |-> x] \o f[Behind(p, i + b)]
  <2>1. LaterAt(p, i + b, x, c - 1, 0) = [k \in 1..(c - 1) |-> x] \o Copies(p, f, i + b, 0)
    BY DEF LaterAt
  <2>2. Copies(p, f, i + b, 0) = f[Behind(p, i + b)]
    <3> HIDE DEF f, b
    <3> QED
      BY <1>1, <1>3, CopiesStep
  <2> QED
    BY <2>1, <2>2
<1>8. Behind(p, i) < 1 => f[Behind(p, i)] = <<>>
  <2>1. f[0] = Unpacked(p, f, 0) /\ Unpacked(p, f, 0) = <<>>
    <3>1. 0 \in 0..Len(p.rest)
      BY <1>3
    <3> QED
      BY <3>1, PackedIs DEF Unpacked
  <2> HIDE DEF f
  <2> QED
    BY <1>3, <2>1
<1>9. ASSUME Behind(p, i) >= 1
      PROVE  LET head == Bytes(p, i, 1)[1]
             IN f[Behind(p, i)] = IF head >= 128 THEN Runs(p, f, i + 1, head - 127)
                                  ELSE Copies(p, f, i + 1, head + 1)
  <2> DEFINE n == Behind(p, i)
  <2>1. Size(p) - n = i /\ n # 0
    BY <1>3, <1>9
  <2>2. f[n] = Unpacked(p, f, n)
    BY <1>3, PackedIs
  <2> HIDE DEF f
  <2> QED
    BY <2>1, <2>2 DEF Unpacked
<1> HIDE DEF f
<1> QED
  BY <1>2, <1>4, <1>5, <1>6, <1>7, <1>8, <1>9

-----------------------------------------------------------------------------
(* Points and colours.                                                     *)

\* The row and the column of a point, from its number.
LEMMA RowAndColumn ==
  ASSUME NEW w \in Nat, NEW r \in Nat, NEW x \in Nat, x < w
  PROVE  (r * w + x) \div w = r /\ (r * w + x) % w = x
<1>1. r * w \in Nat
  OBVIOUS
<1>2. (r * w + x) = w * ((r * w + x) \div w) + ((r * w + x) % w) /\ (r * w + x) % w \in 0..(w - 1)
      /\ (r * w + x) \div w \in Int
  BY <1>1
<1> DEFINE q == (r * w + x) \div w
<1> DEFINE m == (r * w + x) % w
<1> HIDE DEF q, m
<1>3. r * w + x = w * q + m /\ m \in 0..(w - 1) /\ q \in Int
  BY <1>2 DEF q, m
<1>4. ~(q < r)
  <2> SUFFICES ASSUME q < r PROVE FALSE
    OBVIOUS
  <2>1. w * q + w <= w * r
    BY <1>3
  <2> QED
    BY <1>3, <2>1
<1>5. ~(q > r)
  <2> SUFFICES ASSUME q > r PROVE FALSE
    OBVIOUS
  <2>1. w * r + w <= w * q
    BY <1>3
  <2> QED
    BY <1>3, <2>1
<1>6. q = r
  BY <1>3, <1>4, <1>5
<1>7. m = x
  BY <1>1, <1>3, <1>6
<1> QED
  BY <1>6, <1>7 DEF q, m

\* The point behind k others in its row is the next of the file, and the one
\* behind it the next but one.
LEMMA RowsGoOn ==
  ASSUME NEW h, h.width \in Nat, h.height \in Nat, h.height > 0,
         NEW k \in Nat, NEW p \in Points, p.x < h.width, InRows(h, k, p), HasPoint(h, p)
  PROVE  /\ k < h.width * h.height
         /\ PointAt(h, k + 1) = p
         /\ InRows(h, k + 1, NextPoint(h, p))
<1>1. PICK r \in 0..h.height : /\ k = r * h.width + p.x
                               /\ p.y = IF IsFlipped(h) THEN h.height - 1 - r ELSE r
  BY DEF InRows
<1>2. r \in Nat /\ r < h.height /\ p.x \in Nat /\ p.y \in Int
  BY <1>1 DEF HasPoint, Points
<1>3. k < h.width * h.height
  <2>1. r * h.width + h.width <= h.width * h.height
    BY <1>2
  <2>2. r * h.width \in Nat
    BY <1>2
  <2> QED
    BY <1>1, <1>2, <2>1, <2>2
<1>4. PointAt(h, k + 1) = p
  <2>1. (k + 1) - 1 = r * h.width + p.x
    BY <1>1
  <2>4. (r * h.width + p.x) \div h.width = r /\ (r * h.width + p.x) % h.width = p.x
    BY <1>2, RowAndColumn
  <2>2. ((k + 1) - 1) \div h.width = r /\ ((k + 1) - 1) % h.width = p.x
    BY <2>1, <2>4
  <2>3. PointAt(h, k + 1) = [x |-> p.x, y |-> IF IsFlipped(h) THEN h.height - 1 - r ELSE r]
    BY <2>2 DEF PointAt
  <2> QED
    BY <1>1, <2>3 DEF Points
<1>5. InRows(h, k + 1, NextPoint(h, p))
  <2>1. CASE p.x + 1 < h.width
    <3>1. NextPoint(h, p).x = p.x + 1 /\ NextPoint(h, p).y = p.y
      BY <2>1 DEF NextPoint, Points
    <3>2. k + 1 = r * h.width + (p.x + 1)
      <4>1. r * h.width \in Nat
        BY <1>2
      <4> QED
        BY <1>1, <1>2, <4>1
    <3> QED
      BY <1>1, <3>1, <3>2 DEF InRows
  <2>2. CASE ~(p.x + 1 < h.width)
    <3>1. /\ NextPoint(h, p).x = 0
          /\ NextPoint(h, p).y = IF IsFlipped(h) THEN p.y - 1 ELSE p.y + 1
      BY <2>2 DEF NextPoint
    <3>2. p.x + 1 = h.width
      BY <1>2, <2>2
    <3>3. r + 1 \in 0..h.height
      BY <1>2
    <3>4. k + 1 = (r + 1) * h.width + 0
      <4>1. (r + 1) * h.width = r * h.width + h.width /\ r * h.width \in Nat
        BY <1>2
      <4> QED
        BY <1>1, <1>2, <3>2, <4>1
    <3>5. (IF IsFlipped(h) THEN p.y - 1 ELSE p.y + 1)
            = IF IsFlipped(h) THEN h.height - 1 - (r + 1) ELSE r + 1
      BY <1>1, <1>2
    <3> QED
      BY <3>1, <3>3, <3>4, <3>5 DEF InRows
  <2> QED
    BY <2>1, <2>2
<1> QED
  BY <1>3, <1>4, <1>5

\* A point outside of the picture is behind all of its points.
LEMMA RowsEnd ==
  ASSUME NEW h, h.width \in Nat, h.height \in Nat,
         NEW k \in Nat, NEW p \in Points, k <= h.width * h.height,
         InRows(h, k, p), ~HasPoint(h, p)
  PROVE  k = h.width * h.height
<1>1. CASE h.height = 0
  <2>1. h.width * h.height = 0
    BY <1>1
  <2> QED
    BY <2>1
<1>2. CASE h.height > 0
  <2>1. PICK r \in 0..h.height : /\ k = r * h.width + p.x
                                 /\ p.y = IF IsFlipped(h) THEN h.height - 1 - r ELSE r
    BY <1>2 DEF InRows
  <2>2. r = h.height
    BY <2>1 DEF HasPoint
  <2>3. h.width * h.height = r * h.width /\ r * h.width \in Nat /\ p.x \in Nat
    BY <2>2 DEF Points
  <2> QED
    BY <2>1, <2>3
<1> QED
  BY <1>1, <1>2

\* The values of a plain picture without a map are expanded to its colours; those
\* of a compressed one are its colours, and looking at them twice changes nothing.
LEMMA PlainColors ==
  ASSUME NEW p \in Pictures, Plain(p), ~HasMap(p.head),
         NEW v \in Valued(p), v \in Range(Values(p))
  PROVE  /\ Fix(p.head, Expand(p.head, v)) = Color(p, v)
         /\ IsCompressed(p.head) => Expand(p.head, v) = v
<1> DEFINE h == p.head
<1>1. v \in Colour /\ v[1] \in 0..255 /\ v[2] \in 0..255 /\ v[3] \in 0..255 /\ v[4] \in 0..255
  BY DEF Valued, Colour, Byte
<1>2. \/ h.kind = 2 /\ h.bits > 16
      \/ h.kind = 10 /\ (h.bits = 32 \/ (h.bits = 24 /\ h.alpha = 0))
      \/ h.kind = 3 /\ h.bits = 8
  BY DEF Plain
<1>3. h.bits = 24 => v[4] = 0
  BY DEF Valued, PixelSize
<1>4. h.bits \in Nat
  BY FilesAssumption
<1> HIDE DEF h
<1>5. CASE h.kind = 3 /\ h.bits = 8
  <2>1. Expand(h, v) = <<v[1], v[1], v[1], 255>>
    BY <1>5 DEF Expand, Shade
  <2>2. Color(p, v) = Fix(h, <<v[1], v[1], v[1], 255>>)
    BY <1>5 DEF Color, h
  <2> QED
    BY <1>5, <2>1, <2>2 DEF IsCompressed, h
<1>6. CASE h.kind = 2 /\ h.bits = 24
  <2> DEFINE c == [v EXCEPT ![4] = 255]
  <2>1. Expand(h, v) = c
    BY <1>6 DEF Expand, Shade
  <2>2. Color(p, v) = c
    BY <1>6 DEF Color, h
  <2>3. Fix(h, c) = c
    <3>1. c[4] = 255
      BY <1>1 DEF Colour
    <3> QED
      BY <3>1 DEF Fix
  <2> QED
    BY <1>6, <2>1, <2>2, <2>3 DEF IsCompressed, h
<1>7. CASE h.kind = 2 /\ h.bits \notin {8, 16, 24}
  <2>1. Expand(h, v) = v
    BY <1>7 DEF Expand, Shade
  <2>2. Color(p, v) = Fix(h, v)
    BY <1>7 DEF Color, h
  <2> QED
    BY <1>7, <2>1, <2>2 DEF IsCompressed, h
<1>8. CASE h.kind = 10 /\ h.bits = 24 /\ h.alpha = 0
  <2>1. Expand(h, v) = v
    BY <1>8 DEF Expand, Shade
  <2>2. Color(p, v) = [v EXCEPT ![4] = 255]
    BY <1>8 DEF Color, h
  <2>3. Fix(h, v) = [v EXCEPT ![4] = 255]
    BY <1>3, <1>8 DEF Fix
  <2> QED
    BY <2>1, <2>2, <2>3 DEF h
<1>9. CASE h.kind = 10 /\ h.bits = 32
  <2>1. Expand(h, v) = v
    BY <1>9 DEF Expand, Shade
  <2>2. Color(p, v) = Fix(h, v)
    BY <1>9 DEF Color, h
  <2> QED
    BY <2>1, <2>2 DEF h
<1> QED
  BY <1>2, <1>4, <1>5, <1>6, <1>7, <1>8, <1>9

\* A value of a plain picture with a map is an index of it, whose entry is in the
\* file before the pixels; what the map gives is the colour.
LEMMA MapColors ==
  ASSUME NEW p \in Pictures, Plain(p), HasMap(p.head), Start(p.head) < Size(p),
         NEW v \in Valued(p), v \in Range(Values(p))
  PROVE  LET h == p.head
             n == EntrySize(h)
         IN /\ h.kind \in {1, 9} /\ n \in {3, 4}
            /\ v[1] \in Byte /\ v[1] < h.len /\ Low16(v) = v[1] /\ ~Beyond(h, v)
            /\ Entry(p, v[1]) \in Colour
            /\ MapStart(h) + v[1] * n \in Nat /\ MapStart(h) + v[1] * n >= HeaderSize
            /\ MapStart(h) + v[1] * n + n <= Size(p)
            /\ \A c \in Colour : Expand(h, c) = c
            /\ Fix(h, Entry(p, v[1])) = Color(p, v)
            /\ h.kind = 9 => Beyond(h, Entry(p, v[1]))
<1> DEFINE h == p.head
<1> DEFINE n == EntrySize(h)
<1> DEFINE k == v[1]
<1> DEFINE i == MapStart(h) + k * n
<1>1. /\ h.kind \in {1, 9} /\ h.bits = 8 /\ (n = 4 \/ (n = 3 /\ h.alpha = 0))
      /\ h.len * n < 65536 /\ k < h.len
      /\ h.kind = 9 => \A m \in 0..(h.len - 1) : Beyond(h, Entry(p, m))
  BY DEF Plain
<1>2. h.len \in Nat /\ MapStart(h) \in Nat /\ MapStart(h) >= HeaderSize /\ Size(p) \in Nat
  BY FilesAssumption, Places
<1>3. v \in Colour /\ k \in Byte /\ v[2] = 0 /\ v[3] = 0 /\ v[4] = 0
  BY <1>1 DEF Valued, Colour, PixelSize
<1>4. Start(h) = MapStart(h) + h.len * n
  <2> DEFINE y == h.len * n
  <2>1. y \in Nat /\ y < 65536
    BY <1>1, <1>2
  <2>2. Start(h) = MapStart(h) + (y % 65536)
    BY DEF Start
  <2> HIDE DEF y
  <2>3. y % 65536 = y
    BY <2>1
  <2> QED
    BY <2>2, <2>3 DEF y
<1>5. Low16(v) = k
  BY <1>3 DEF Low16, Byte
<1> HIDE DEF h, n, k
<1>6. k \in Nat /\ k <= 255
  BY <1>3 DEF Byte
<1>7. i \in Nat /\ i >= HeaderSize /\ i + n <= Size(p)
  <2>1. n \in 1..4 /\ Start(h) < Size(p)
    BY <1>1 DEF h
  <2>2. k * n \in Nat /\ k * n + n <= h.len * n /\ h.len * n \in Nat
    BY <1>1, <1>2, <1>6, <2>1, Multiples
  <2> DEFINE y == k * n
  <2> DEFINE z == h.len * n
  <2>3. y \in Nat /\ z \in Nat /\ y + n <= z /\ MapStart(h) + z < Size(p) /\ i = MapStart(h) + y
    BY <1>4, <2>1, <2>2
  <2> HIDE DEF y, z, i
  <2> QED
    BY <1>2, <2>1, <2>3 DEF HeaderSize
<1>8. ~Beyond(h, v)
  <2>1. k * n <= 1020
    BY <1>1, <1>6
  <2> QED
    BY <1>1, <1>2, <1>3, <1>5, <1>6, <2>1 DEF Beyond, n
<1> DEFINE s == Bytes(p, i, n)
<1>9. s \in Seq(Byte) /\ Len(s) = n
  <2> HIDE DEF i
  <2> QED
    BY <1>1, <1>7, FileBytes
<1>10. Entry(p, k) = Word(s)
  BY DEF Entry, h, n
<1>11. Entry(p, k) \in Colour
  <2> HIDE DEF s
  <2> QED
    BY <1>9, <1>10, ColoursStay
<1>12. \A c \in Colour : Expand(h, c) = c
  BY <1>1 DEF Expand, Shade
<1>13. Fix(h, Entry(p, k)) = Color(p, v)
  <2> DEFINE c == Entry(p, k)
  <2>1. CASE n = 3 /\ h.alpha = 0
    <3>1. c[4] = 0
      <4> HIDE DEF s
      <4>1. ~(4 <= Len(s))
        BY <1>9, <2>1
      <4>2. Word(s)[4] = 0
        BY <4>1 DEF Word
      <4> QED
        BY <1>10, <4>2
    <3>2. Fix(h, c) = [c EXCEPT ![4] = 255]
      BY <2>1, <3>1 DEF Fix
    <3>3. Color(p, v) = [c EXCEPT ![4] = 255]
      BY <1>1, <2>1 DEF Color, h, n, k
    <3> QED
      BY <3>2, <3>3
  <2>2. CASE n = 4
    <3>1. Color(p, v) = Fix(h, c)
      BY <1>1, <2>2 DEF Color, h, n, k
    <3> QED
      BY <3>1
  <2> QED
    BY <1>1, <2>1, <2>2
<1>14. h.kind = 9 => Beyond(h, Entry(p, k))
  <2>1. k \in 0..(h.len - 1)
    BY <1>1, <1>2, <1>6
  <2> QED
    BY <1>1, <2>1
<1> QED
  BY <1>1, <1>3, <1>5, <1>7, <1>8, <1>11, <1>12, <1>13, <1>14 DEF h, n, k

-----------------------------------------------------------------------------
(* The steps of a call.                                                    *)

\* The bytes in the middle of bytes of a file.
LEMMA BytesWithin ==
  ASSUME NEW p \in Pictures, NEW i \in Int, NEW n \in Nat, NEW m \in Nat, NEW q \in Nat, m + q <= n,
         n > 0 => i >= HeaderSize /\ i + n <= Size(p)
  PROVE  SubSeq(Bytes(p, i, n), m + 1, m + q) = Bytes(p, i + m, q)
<1> DEFINE a == Bytes(p, i, n)
<1> DEFINE c == Bytes(p, i + m, q)
<1>1. /\ a \in Seq(Byte) /\ Len(a) = n
      /\ \A k \in 1..n : a[k] = p.rest[i + k - HeaderSize]
  BY FileBytes
<1>2. /\ c \in Seq(Byte) /\ Len(c) = q
      /\ \A k \in 1..q : c[k] = p.rest[(i + m) + k - HeaderSize]
  <2>1. i + m \in Int /\ (q > 0 => i + m >= HeaderSize /\ (i + m) + q <= Size(p))
    <3>1. Size(p) \in Nat
      BY Places
    <3> QED
      BY <3>1 DEF HeaderSize
  <2> QED
    BY <2>1, FileBytes
<1> HIDE DEF a, c
<1> DEFINE l == m + 1
<1> DEFINE b == SubSeq(a, l, l + q - 1)
<1>3. /\ b \in Seq(Byte) /\ Len(b) = q
      /\ \A k \in 1..q : b[k] = a[l + k - 1]
  <2>1. l \in Int /\ (q > 0 => l >= 1 /\ l + q - 1 <= Len(a))
    BY <1>1
  <2> HIDE DEF l
  <2> QED
    BY <1>1, <2>1, PieceOf
<1>4. l + q - 1 = m + q /\ \A k \in 1..q : l + k - 1 = m + k
  OBVIOUS
<1>5. ASSUME NEW k \in 1..q PROVE b[k] = c[k]
  <2>1. m + k \in 1..n /\ i + (m + k) - HeaderSize = (i + m) + k - HeaderSize
    BY DEF HeaderSize
  <2>2. b[k] = a[m + k]
    BY <1>3, <1>4
  <2> HIDE DEF b
  <2> QED
    BY <1>1, <1>2, <2>1, <2>2
<1>6. b = c
  <2> HIDE DEF b
  <2> QED
    BY <1>2, <1>3, <1>5, SameElements
<1> QED
  BY <1>4, <1>6 DEF a, c

\* Nothing has gone wrong, and the picture is being read.
Going == ReadInv /\ DecodeInv /\ Plain(pic) /\ Undisturbed /\ state = "open"

\* What is known then.
LEMMA GoingFacts ==
  ASSUME Going
  PROVE  /\ pic \in Pictures /\ Verdict(pic.head) = "open" /\ errors = 0 /\ ~cut
         /\ DrawnInv /\ FlowInv /\ GridInv /\ EntryInv
         /\ Place \in Nat /\ Place >= HeaderSize /\ Place >= Start(pic.head)
         /\ Start(pic.head) \in Nat /\ Size(pic) \in Nat
         /\ cur \in Colour /\ count \in Nat /\ skip \in Nat
         /\ Len(out) \in Nat /\ Len(buf) \in Nat /\ pos \in 0..Len(buf) /\ rd \in Nat
         /\ Fields \subseteq DOMAIN call /\ PixelSize(pic.head) \in 1..4
         /\ pic.head.width \in Nat /\ pic.head.height \in Nat
         /\ Values(pic) \in Seq(Valued(pic))
         /\ Later \in Seq(Colour)
<1>1. /\ pic \in Pictures /\ Verdict(pic.head) = "open"
      /\ cur \in Colour /\ count \in Nat /\ skip \in Nat
      /\ Len(buf) \in Nat /\ pos \in 0..Len(buf) /\ rd \in Nat
      /\ Fields \subseteq DOMAIN call
      /\ pic.head.width \in Nat /\ pic.head.height \in Nat
  BY PicturesAssumption DEF Going, ReadInv, TypeOK, KeptInv, Inv, CallInv
<1>2. errors = 0 /\ ~cut
  BY DEF Going, Undisturbed
<1>3. DrawnInv /\ FlowInv /\ GridInv /\ EntryInv
  BY DEF Going, DecodeInv, Right
<1>4. /\ Start(pic.head) \in Nat /\ Start(pic.head) >= HeaderSize /\ Size(pic) \in Nat
      /\ PixelSize(pic.head) \in 1..4
  BY <1>1, Places
<1>5. Place \in Nat /\ Place >= HeaderSize /\ Place >= Start(pic.head)
  <2>1. Home \in Nat
    BY <1>1 DEF Home, Going, ReadInv, RunInv
  <2>2. Place >= Start(pic.head)
    BY <1>3 DEF FlowInv
  <2> QED
    BY <1>1, <1>4, <2>1, <2>2 DEF Place, HeaderSize
<1>6. Len(out) \in Nat
  BY DEF Going, ReadInv, Inv, OutInv
<1>7. Values(pic) \in Seq(Valued(pic))
  BY <1>1, ValuesTyped
<1>8. Later \in Seq(Colour)
  BY <1>1, <1>5, LaterTyped DEF Later
<1> QED
  BY <1>1, <1>2, <1>3, <1>4, <1>5, <1>6, <1>7, <1>8

\* The fields of a call that reads or maps.
LEMMA CallFields ==
  ASSUME NEW c, Fields \subseteq DOMAIN c
  PROVE  /\ \A n, u : /\ Ask(c, n, u).at = "read" /\ Ask(c, n, u).want = n
                      /\ Ask(c, n, u).use = u /\ Ask(c, n, u).point = c.point
         /\ \A v, t : /\ Map(c, v, t).at = "map" /\ Map(c, v, t).val = v
                      /\ Map(c, v, t).maps = t /\ Map(c, v, t).point = c.point
BY DEF Ask, Map, Fields

\* The bytes that read() hands out are the next ones of the file, and when refill
\* finds no more the file has not got enough of them.
LEMMA Window ==
  ASSUME Going, call.at = "read", NEW n \in 1..4
  PROVE  /\ Len(buf) - pos >= n => /\ SubSeq(buf, pos + 1, pos + n) = Bytes(pic, Place, n)
                                   /\ Place + n <= Size(pic) /\ Behind(pic, Place) >= n
         /\ Len(buf) - pos < n /\ Left = 0 => Behind(pic, Place) < n
<1>1. /\ pic \in Pictures /\ Place \in Nat /\ Place >= HeaderSize /\ Size(pic) \in Nat
      /\ Len(buf) \in Nat /\ pos \in 0..Len(buf) /\ rd \in Nat
  BY GoingFacts
<1>2. Place = rd - (Len(buf) - pos) /\ Home = rd
  BY DEF Place, Home
<1>3. /\ buf = Bytes(pic, rd - Len(buf), Len(buf))
      /\ Len(buf) > 0 => rd - Len(buf) >= HeaderSize /\ rd <= Size(pic)
  BY <1>2 DEF Going, Undisturbed, ReadInv, AheadInv
<1>4. Behind(pic, Place) = IF Place < Size(pic) THEN Size(pic) - Place ELSE 0
  BY <1>1, BehindIs
<1>5. ASSUME Len(buf) - pos >= n
      PROVE  /\ SubSeq(buf, pos + 1, pos + n) = Bytes(pic, Place, n)
             /\ Place + n <= Size(pic) /\ Behind(pic, Place) >= n
  <2> DEFINE l == Len(buf)
  <2> DEFINE i == rd - l
  <2>1. /\ i \in Int /\ l \in Nat /\ pos \in Nat /\ n \in Nat /\ pos + n <= l
        /\ l > 0 => i >= HeaderSize /\ i + l <= Size(pic)
        /\ i + pos = Place /\ Place + n <= Size(pic)
    BY <1>1, <1>2, <1>3, <1>5
  <2>2. buf = Bytes(pic, i, l)
    BY <1>3
  <2> HIDE DEF i, l
  <2>3. SubSeq(Bytes(pic, i, l), pos + 1, pos + n) = Bytes(pic, i + pos, n)
    <3>1. pic \in Pictures
      BY <1>1
    <3>2. i \in Int /\ l \in Nat /\ pos \in Nat /\ n \in Nat
      BY <2>1
    <3>3. pos + n <= l /\ (l > 0 => i >= HeaderSize /\ i + l <= Size(pic))
      BY <2>1
    <3> QED
      BY ONLY <3>1, <3>2, <3>3, BytesWithin
  <2>4. Behind(pic, Place) >= n
    BY <1>1, <1>4, <2>1
  <2> QED
    BY <2>1, <2>2, <2>3, <2>4
<1>6. ASSUME Len(buf) - pos < n, Left = 0 PROVE Behind(pic, Place) < n
  <2>1. rd >= Size(pic)
    <3>1. Left = Behind(pic, rd)
      BY DEF Left, Behind
    <3>2. Behind(pic, rd) = IF rd < Size(pic) THEN Size(pic) - rd ELSE 0
      BY <1>1, BehindIs
    <3> QED
      BY <1>1, <1>6, <3>1, <3>2
  <2> QED
    BY <1>1, <1>2, <1>3, <1>4, <1>6, <2>1
<1> QED
  BY <1>5, <1>6

\* The picture has so many pixels.
LEMMA PixelsLength ==
  ASSUME NEW p \in Pictures, Verdict(p.head) = "open"
  PROVE  LET n == p.head.width * p.head.height
             l == Len(Values(p))
         IN /\ n \in Nat /\ l \in Nat
            /\ Len(Pixels(p)) = IF n <= l THEN n ELSE l
            /\ \E S : Pixels(p) \in Seq(S)
            /\ \A k \in 1..Len(Pixels(p)) :
                 Pixels(p)[k] = [at |-> PointAt(p.head, k), color |-> Color(p, Values(p)[k])]
<1> DEFINE n == p.head.width * p.head.height
<1> DEFINE l == Len(Values(p))
<1> DEFINE r(k) == [at |-> PointAt(p.head, k), color |-> Color(p, Values(p)[k])]
<1>1. n \in Nat /\ l \in Nat
  <2>1. p.head.width \in Nat /\ p.head.height \in Nat
    BY PicturesAssumption
  <2>2. n \in Nat
    BY <2>1
  <2>3. Values(p) \in Seq(Valued(p))
    BY ValuesTyped
  <2> QED
    BY <2>2, <2>3
<1>2. Min({n, l}) = IF n <= l THEN n ELSE l
  <2> HIDE DEF n, l
  <2>1. \A x, y \in Int : Min({x, y}) = IF x <= y THEN x ELSE y
    BY DEF Min
  <2> QED
    BY <1>1, <2>1
<1> DEFINE m == Min({n, l})
<1>3. Pixels(p) = [k \in 1..m |-> r(k)]
  BY DEF Pixels
<1>4. m \in Nat /\ m = IF n <= l THEN n ELSE l
  <2> HIDE DEF n, l
  <2> QED
    BY <1>1, <1>2
<1> HIDE DEF m, n, l, r
<1> DEFINE S == {r(k) : k \in 1..m}
<1>5. [k \in 1..m |-> r(k)] \in Seq(S) /\ Len([k \in 1..m |-> r(k)]) = m
  BY <1>4
<1>6. \A k \in 1..m : Pixels(p)[k] = r(k)
  BY <1>3
<1> QED
  BY <1>1, <1>3, <1>4, <1>5, <1>6 DEF n, l, r

\* A call that goes on hands out no pixel.
LEMMA StaysRight ==
  ASSUME Going, UNCHANGED <<pic, out, cache, state>>, Coming' = Coming, FlowInv'
  PROVE  Right'
<1>1. DrawnInv /\ GridInv /\ EntryInv /\ state = "open"
  BY GoingFacts DEF Going
<1>2. DrawnInv'
  BY <1>1 DEF DrawnInv
<1>3. GridInv'
  BY <1>1 DEF GridInv
<1>4. EntryInv'
  BY <1>1 DEF EntryInv
<1> QED
  BY <1>1, <1>2, <1>3, <1>4 DEF Right

\* The end of the picture.
LEMMA EndsRight ==
  ASSUME Going, UNCHANGED <<pic, out>>, state' = "ended",
         \/ Len(out) = pic.head.width * pic.head.height
         \/ Len(out) = Len(Values(pic))
  PROVE  Right'
<1>1. DrawnInv /\ pic \in Pictures /\ Verdict(pic.head) = "open" /\ Len(out) \in Nat
  BY GoingFacts
<1>2. DrawnInv'
  BY <1>1 DEF DrawnInv
<1> DEFINE n == pic.head.width * pic.head.height
<1> DEFINE l == Len(Values(pic))
<1>3. n \in Nat /\ l \in Nat /\ Len(Pixels(pic)) = (IF n <= l THEN n ELSE l)
  BY <1>1, PixelsLength
<1>4. Len(out) <= n /\ Len(out) <= l /\ (Len(out) = n \/ Len(out) = l)
  BY <1>1 DEF DrawnInv
<1> HIDE DEF n, l
<1>5. Len(out) = Len(Pixels(pic))
  BY <1>1, <1>3, <1>4
<1> QED
  BY <1>2, <1>5 DEF Right

\* A value is taken: the ones behind it are to come.
LEMMA TakesRight ==
  ASSUME Going, UNCHANGED <<pic, out, cache, state>>, Coming' = Coming,
         Place' \in Nat, Place' >= Start(pic.head), Start(pic.head) < Size(pic),
         call'.at = "map", call'.maps \in 1..2, call'.maps = 2 => IsCompressed(pic.head),
         call'.val \in Colour, Later' \in Seq(Colour),
         Ends(Values(pic), Len(out), <<call'.val>> \o Later')
  PROVE  Right'
<1>1. Values(pic) \in Seq(Valued(pic)) /\ Len(out) \in Nat
  BY GoingFacts
<1> DEFINE v == Values(pic)
<1> DEFINE k == Len(out)
<1> DEFINE x == call'.val
<1> DEFINE l == Later'
<1> HIDE DEF v, k, x, l
<1>2. k + 1 <= Len(v) /\ v[k + 1] = x /\ Ends(v, k + 1, l)
  <2>1. v \in Seq(Valued(pic)) /\ k \in Nat /\ x \in Colour /\ l \in Seq(Colour) /\ Ends(v, k, <<x>> \o l)
    BY <1>1 DEF v, k, x, l
  <2> QED
    BY ONLY <2>1, EndsStep
<1>3. k < Len(v)
  BY <1>1, <1>2 DEF v, k
<1>4. LookUp(v[k + 1])'
  BY <1>2 DEF LookUp, x, v, k
<1>5. FlowInv'
  BY <1>2, <1>3, <1>4 DEF FlowInv, v, k, l
<1> QED
  BY <1>5, StaysRight

\* The end of the points, or the start of a call with its point.
LEMMA NextOfRight == ASSUME Going, NextOf PROVE Right'
<1> DEFINE h == pic.head
<1> DEFINE c == [Idle EXCEPT !.point = point]
<1> DEFINE v == Values(pic)
<1>1. /\ state = "open" /\ call.at = "idle"
      /\ UNCHANGED <<pic, rd, buf, pos, cache, out, errors, cut>>
  BY DEF NextOf, file, ahead, history
<1>2. /\ pic \in Pictures /\ Verdict(h) = "open" /\ FlowInv /\ GridInv /\ DrawnInv
      /\ Place \in Nat /\ Place >= HeaderSize /\ Place >= Start(h)
      /\ cur \in Colour /\ count \in Nat /\ skip \in Nat /\ Later \in Seq(Colour)
      /\ h.width \in Nat /\ h.height \in Nat /\ Len(out) \in Nat
  BY GoingFacts
<1>3. Ends(v, Len(out), Later) /\ (count > 0 => Start(h) < Size(pic))
  BY <1>1, <1>2 DEF FlowInv
<1>4. CASE ~HasPoint(h, point)
  <2>1. state' = "ended"
    BY <1>4 DEF NextOf
  <2>2. Len(out) = h.width * h.height
    <3>1. Len(out) <= h.width * h.height /\ InRows(h, Len(out), point)
      BY <1>1, <1>2 DEF DrawnInv, GridInv, Coming
    <3>2. point \in Points
      BY DEF Going, ReadInv, Inv, PointInv
    <3> HIDE DEF h
    <3> QED
      BY <1>2, <1>4, <3>1, <3>2, RowsEnd
  <2> QED
    BY <1>1, <2>1, <2>2, EndsRight
<1>5. CASE HasPoint(h, point)
  <2>1. Fields \subseteq DOMAIN c /\ c.point = point
    BY DEF Idle, Fields
  <2>2. state' = state
    BY <1>5 DEF NextOf
  <2>3. \/ /\ ~IsCompressed(h)
           /\ call' = Ask(c, PixelSize(h), "pixel") /\ UNCHANGED <<cur, skip, count>>
        \/ /\ IsCompressed(h) /\ count > 0
           /\ count' = count - 1 /\ call' = Map(c, cur, 1)
           /\ UNCHANGED <<cur, skip>>
        \/ /\ IsCompressed(h) /\ count = 0 /\ skip > 0
           /\ skip' = skip - 1 /\ call' = Ask(c, PixelSize(h), "copy")
           /\ UNCHANGED <<cur, count>>
        \/ /\ IsCompressed(h) /\ count = 0 /\ skip = 0
           /\ call' = Ask(c, 1, "packet") /\ UNCHANGED <<cur, skip, count>>
    BY <1>5 DEF NextOf, NextValue, packet
  <2> HIDE DEF c
  <2>4. /\ \A n, u : /\ Ask(c, n, u).at = "read" /\ Ask(c, n, u).want = n
                     /\ Ask(c, n, u).use = u /\ Ask(c, n, u).point = point
        /\ Map(c, cur, 1).at = "map" /\ Map(c, cur, 1).val = cur
        /\ Map(c, cur, 1).maps = 1 /\ Map(c, cur, 1).point = point
    BY <2>1, CallFields
  <2>5. call'.at \in {"read", "map"} /\ call'.point = point
    BY <2>3, <2>4
  <2>6. Coming' = Coming
    BY <1>1, <2>5 DEF Coming
  <2>7. Place' = Place
    BY <1>1, <2>5 DEF Place, Home
  <2>13. Later = LaterAt(pic, Place, cur, count, skip)
    BY DEF Later
  <2>14. ASSUME IsCompressed(h)
         PROVE  /\ count > 0 => Later = <<cur>> \o LaterAt(pic, Place, cur, count - 1, skip)
                /\ count = 0 /\ skip > 0 => Later = AskedAt(pic, Place, "copy", count, skip - 1)
                /\ count = 0 /\ skip = 0 => Later = AskedAt(pic, Place, "packet", count, skip)
    <3> DEFINE i == Place
    <3>1. /\ pic \in Pictures /\ Verdict(pic.head) = "open" /\ IsCompressed(pic.head)
          /\ i \in Nat /\ i >= HeaderSize /\ cur \in Colour /\ count \in Nat /\ skip \in Nat
      BY <1>2, <2>14
    <3>2. Later = LaterAt(pic, i, cur, count, skip)
      BY <2>13
    <3> HIDE DEF i
    <3>3. /\ count > 0 => LaterAt(pic, i, cur, count, skip) = <<cur>> \o LaterAt(pic, i, cur, count - 1, skip)
          /\ count = 0 /\ skip > 0 => LaterAt(pic, i, cur, count, skip) = AskedAt(pic, i, "copy", count, skip - 1)
          /\ count = 0 /\ skip = 0 => LaterAt(pic, i, cur, count, skip) = AskedAt(pic, i, "packet", count, skip)
      BY ONLY <3>1, PacketNext
    <3> QED
      BY <3>2, <3>3 DEF i
  <2>8. CASE IsCompressed(h) /\ count > 0
    <3>1. /\ call'.at = "map" /\ call'.maps = 1 /\ call'.val = cur
          /\ count' = count - 1 /\ UNCHANGED <<cur, skip>>
      BY <2>3, <2>4, <2>8
    <3>2. Later' = LaterAt(pic, Place, cur, count - 1, skip)
      BY <1>1, <2>7, <3>1 DEF Later
    <3>3. Later = <<cur>> \o LaterAt(pic, Place, cur, count - 1, skip)
      BY <2>8, <2>14
    <3>4. LaterAt(pic, Place, cur, count - 1, skip) \in Seq(Colour)
      <4>1. count - 1 \in Nat
        BY <1>2, <2>8
      <4> QED
        BY <1>2, <4>1, LaterTyped
    <3>5. Ends(v, Len(out), <<call'.val>> \o Later')
      BY <1>3, <3>1, <3>2, <3>3
    <3>6. 1 \in 1..2 /\ ~(1 = 2)
      OBVIOUS
    <3> QED
      BY <1>1, <1>2, <1>3, <2>2, <2>6, <2>7, <2>8, <3>1, <3>2, <3>4, <3>5, <3>6, TakesRight
  <2>9. ASSUME NEW u \in {"pixel", "copy", "packet"}, call'.at = "read", call'.use = u,
               u \in IF IsCompressed(h) THEN {"copy", "run", "packet"} ELSE {"pixel"},
               call'.want = IF u = "packet" THEN 1 ELSE PixelSize(h),
               u # "pixel" => count = 0, u = "packet" => skip = 0,
               NEW n \in Nat, skip' = n, UNCHANGED <<cur, count>>,
               Later = AskedAt(pic, Place, u, count, n),
               u = "packet" => n = 0
        PROVE  Right'
    <3>1. Asked' = Later
      BY <1>1, <2>7, <2>9 DEF Asked
    <3>2. UseInv'
      BY <1>1, <2>9 DEF UseInv
    <3>3. FlowInv'
      BY <1>1, <1>2, <1>3, <2>7, <2>9, <3>1, <3>2 DEF FlowInv
    <3> QED
      BY <1>1, <2>2, <2>6, <3>3, StaysRight
  <2>10. CASE ~IsCompressed(h)
    <3>1. call' = Ask(c, PixelSize(h), "pixel") /\ UNCHANGED <<cur, skip, count>>
      BY <2>3, <2>10
    <3>2. Later = AskedAt(pic, Place, "pixel", count, skip)
      BY <1>2, <2>10, PixelTakes DEF Later
    <3> QED
      BY <1>2, <2>4, <2>9, <2>10, <3>1, <3>2
  <2>11. CASE IsCompressed(h) /\ count = 0 /\ skip > 0
    <3>1. /\ call' = Ask(c, PixelSize(h), "copy") /\ skip' = skip - 1
          /\ UNCHANGED <<cur, count>>
      BY <2>3, <2>11
    <3>2. Later = AskedAt(pic, Place, "copy", count, skip - 1)
      BY <2>11, <2>14
    <3>3. skip - 1 \in Nat
      BY <1>2, <2>11
    <3> QED
      BY <1>2, <2>4, <2>9, <2>11, <3>1, <3>2, <3>3
  <2>12. CASE IsCompressed(h) /\ count = 0 /\ skip = 0
    <3>1. call' = Ask(c, 1, "packet") /\ UNCHANGED <<cur, skip, count>>
      BY <2>3, <2>12
    <3>2. Later = AskedAt(pic, Place, "packet", count, skip)
      BY <2>12, <2>14
    <3> QED
      BY <1>2, <2>4, <2>9, <2>12, <3>1, <3>2
  <2> QED
    BY <1>2, <2>8, <2>10, <2>11, <2>12
<1> QED
  BY <1>4, <1>5

\* More bytes are read ahead: the place is the same.
LEMMA RefillRight == ASSUME Going, Refill PROVE Right'
<1>1. /\ call.at = "read" /\ pos' = 0
      /\ UNCHANGED <<pic, state, cache, point, cur, skip, count, call, out>>
  BY DEF Refill, Short, packet, history
<1>2. PICK n \in 1..Fits : buf' = SubSeq(buf, pos + 1, Len(buf)) \o Bytes(pic, rd, n) /\ rd' = rd + n
  BY DEF Refill
<1>3. /\ pic \in Pictures /\ rd \in Nat /\ Len(buf) \in Nat /\ pos \in 0..Len(buf)
      /\ Size(pic) \in Nat /\ FlowInv
  BY GoingFacts
<1>4. n \in Nat /\ n > 0 /\ rd + n <= Size(pic) /\ rd >= HeaderSize
  <2>1. ReadInv
    BY DEF Going
  <2>2. Fits \in Int /\ n \in Int /\ n <= Left /\ n >= 1
    BY <2>1, LeftBounds
  <2>3. Left \in Nat /\ (Left > 0 => rd + Left = Size(pic))
    BY <2>1, LeftBounds
  <2>4. rd >= HeaderSize
    BY DEF Going, ReadInv, KeptInv
  <2> QED
    BY <1>3, <2>2, <2>3, <2>4
<1>5. Len(buf') = (Len(buf) - pos) + n
  <2> DEFINE a == SubSeq(buf, pos + 1, Len(buf))
  <2> DEFINE b == Bytes(pic, rd, n)
  <2>1. a \in Seq(Byte) /\ Len(a) = Len(buf) - pos
    BY BufDropped DEF Going
  <2>2. b \in Seq(Byte) /\ Len(b) = n
    <3>1. rd \in Int /\ n \in Nat /\ (n > 0 => rd >= HeaderSize /\ rd + n <= Size(pic))
      BY <1>3, <1>4
    <3> QED
      BY <1>3, <3>1, FileBytes
  <2> HIDE DEF a, b
  <2>3. Len(a \o b) = Len(a) + Len(b)
    BY <2>1, <2>2, Joined
  <2> QED
    BY <1>2, <2>1, <2>2, <2>3 DEF a, b
<1>6. Place' = Place
  <2>1. Place = rd - (Len(buf) - pos)
    BY <1>1 DEF Place, Home
  <2>2. Place' = rd' - (Len(buf') - pos')
    BY <1>1 DEF Place, Home
  <2> QED
    BY <1>1, <1>2, <1>3, <1>4, <1>5, <2>1, <2>2
<1>7. Coming' = Coming /\ Asked' = Asked
  BY <1>1, <1>6 DEF Coming, Asked
<1>8. FlowInv'
  BY <1>1, <1>3, <1>6, <1>7 DEF FlowInv, UseInv
<1> QED
  BY <1>1, <1>7, <1>8, StaysRight

\* The file ends before a value or a packet: no value was to come.
LEMMA RefillEmptyRight == ASSUME Going, RefillEmpty PROVE Right'
<1> DEFINE h == pic.head
<1>1. /\ call.at = "read" /\ Len(buf) - pos < call.want /\ Left = 0
      /\ state' = "ended" /\ UNCHANGED <<pic, out>>
  BY DEF RefillEmpty, Short, file, history
<1>2. /\ pic \in Pictures /\ Verdict(h) = "open" /\ FlowInv
      /\ Place \in Nat /\ Place >= HeaderSize /\ PixelSize(h) \in 1..4
      /\ cur \in Colour /\ count \in Nat /\ skip \in Nat /\ Len(out) \in Nat
      /\ Values(pic) \in Seq(Valued(pic))
  BY GoingFacts
<1>3. Ends(Values(pic), Len(out), Asked) /\ UseInv
  BY <1>1, <1>2 DEF FlowInv
<1>4. Behind(pic, Place) < call.want
  <2>1. call.want \in 1..4
    BY <1>1 DEF Going, ReadInv, RunInv
  <2> QED
    BY <1>1, <2>1, Window
<1>5. Asked = <<>>
  <2> DEFINE i == Place
  <2>1. /\ pic \in Pictures /\ Verdict(pic.head) = "open" /\ i \in Nat /\ i >= HeaderSize
        /\ cur \in Colour /\ count \in Nat /\ skip \in Nat
    BY <1>2
  <2>2. Asked = AskedAt(pic, i, call.use, count, skip) /\ Behind(pic, i) < call.want
    BY <1>4 DEF Asked
  <2> HIDE DEF i
  <2>3. CASE call.use = "pixel"
    <3>1. ~IsCompressed(pic.head) /\ call.want = PixelSize(pic.head)
      BY <1>3, <2>3 DEF UseInv
    <3>2. Behind(pic, i) < PixelSize(pic.head) => AskedAt(pic, i, "pixel", count, skip) = <<>>
      BY ONLY <2>1, <3>1, PixelTakes
    <3> QED
      BY <2>2, <2>3, <3>1, <3>2
  <2>4. CASE call.use # "pixel"
    <3>1. /\ IsCompressed(pic.head) /\ call.use \in {"copy", "run", "packet"}
          /\ call.want = IF call.use = "packet" THEN 1 ELSE PixelSize(pic.head)
      BY <1>3, <2>4 DEF UseInv
    <3>2. call.use = "run" => count > 0
      BY <1>1, <1>2 DEF Going, ReadInv, RunInv
    <3>3. /\ Behind(pic, i) < PixelSize(pic.head) => AskedAt(pic, i, "copy", count, skip) = <<>>
          /\ count > 0 /\ Behind(pic, i) < PixelSize(pic.head) => AskedAt(pic, i, "run", count, skip) = <<>>
          /\ Behind(pic, i) < 1 => AskedAt(pic, i, "packet", count, skip) = <<>>
      BY ONLY <2>1, <3>1, PacketTakes
    <3> QED
      BY <2>2, <3>1, <3>2, <3>3
  <2> QED
    BY <2>3, <2>4
<1>6. Len(Values(pic)) = Len(out)
  BY <1>2, <1>3, <1>5 DEF Ends
<1> QED
  BY <1>1, <1>6, EndsRight

\* A value is taken from the buffer, or the head of a packet.
LEMMA TakeRight == ASSUME Going, Take PROVE Right'
<1> DEFINE h == pic.head
<1> DEFINE b == PixelSize(h)
<1> DEFINE v == Values(pic)
<1> DEFINE x == ValueAt(pic, Place)
<1>1. /\ call.at = "read" /\ Len(buf) - pos >= call.want /\ pos' = pos + call.want
      /\ UNCHANGED <<pic, rd, state, buf, cache, point, out, errors, cut>>
      /\ call.want \in 1..4 /\ Fields \subseteq DOMAIN call
  <2>1. /\ call.at = "read" /\ ~(Len(buf) - pos < call.want) /\ pos' = pos + call.want
        /\ UNCHANGED <<pic, rd, state, buf, cache, point, out, errors, cut>>
    BY DEF Take, Short, file, history
  <2>2. call.want \in 1..4 /\ Len(buf) \in Nat /\ pos \in 0..Len(buf) /\ Fields \subseteq DOMAIN call
    BY <2>1, GoingFacts DEF Going, ReadInv, RunInv
  <2> QED
    BY <2>1, <2>2
<1>2. /\ pic \in Pictures /\ Verdict(h) = "open" /\ FlowInv
      /\ Place \in Nat /\ Place >= HeaderSize /\ Place >= Start(h) /\ b \in 1..4
      /\ Start(h) \in Nat /\ Size(pic) \in Nat
      /\ cur \in Colour /\ count \in Nat /\ skip \in Nat /\ Len(out) \in Nat
      /\ Len(buf) \in Nat /\ pos \in 0..Len(buf)
  BY GoingFacts
<1>3. Ends(v, Len(out), Asked) /\ UseInv
  BY <1>1, <1>2 DEF FlowInv
<1>4. /\ Value = Bytes(pic, Place, call.want)
      /\ Place + call.want <= Size(pic) /\ Behind(pic, Place) >= call.want
  BY <1>1, Window DEF Value
<1>5. Asked = AskedAt(pic, Place, call.use, count, skip)
  BY DEF Asked
<1>6. Start(h) < Size(pic)
  BY <1>1, <1>2, <1>4
<1>7. call'.at \in {"read", "map"} => Place' = Place + call.want
  <2>1. Place = rd - (Len(buf) - pos)
    BY <1>1 DEF Place, Home
  <2>2. call'.at \in {"read", "map"} => Place' = rd - (Len(buf) - pos')
    BY <1>1 DEF Place, Home
  <2> DEFINE n == call.want
  <2>3. rd \in Nat /\ Len(buf) \in Nat /\ pos \in Int /\ n \in Int
    <3>1. rd \in Nat
      BY GoingFacts
    <3> QED
      BY <1>1, <1>2, <3>1
  <2>4. pos' = pos + n
    BY <1>1
  <2> HIDE DEF n
  <2>5. rd - (Len(buf) - (pos + n)) = (rd - (Len(buf) - pos)) + n
    BY <2>3
  <2>6. rd - (Len(buf) - pos') = Place + n
    BY <2>1, <2>4, <2>5
  <2> QED
    BY <2>2, <2>6 DEF n
<1>8. /\ Place + call.want \in Nat /\ Place + call.want >= HeaderSize
      /\ Place + call.want >= Start(h)
  <2>1. ASSUME NEW q \in Nat, NEW n \in 1..4, NEW s \in Nat, q >= HeaderSize, q >= s
        PROVE  q + n \in Nat /\ q + n >= HeaderSize /\ q + n >= s
    BY <2>1 DEF HeaderSize
  <2>2. /\ Place \in Nat /\ Start(h) \in Nat /\ call.want \in 1..4
        /\ Place >= HeaderSize /\ Place >= Start(h)
    BY <1>1, <1>2
  <2> QED
    BY <2>1, <2>2, Zenon
<1>9. /\ \A n, u : /\ Ask(call, n, u).at = "read" /\ Ask(call, n, u).want = n
                   /\ Ask(call, n, u).use = u /\ Ask(call, n, u).point = call.point
      /\ \A y, t : /\ Map(call, y, t).at = "map" /\ Map(call, y, t).val = y
                   /\ Map(call, y, t).maps = t /\ Map(call, y, t).point = call.point
  BY <1>1, CallFields
<1>10. call'.at \in {"read", "map"} /\ call'.point = call.point => Coming' = Coming
  BY <1>1 DEF Coming
<1>11. ASSUME call.want = b PROVE Word(Value) = x /\ x \in Colour
  <2>1. Word(Value) = x
    BY <1>4, <1>11 DEF ValueAt
  <2>2. x \in Valued(pic)
    BY <1>2, <1>4, <1>11, ValueTyped
  <2> QED
    BY <2>1, <2>2 DEF Valued
<1>12. ASSUME NEW t \in 1..2, call' = Map(call, x, t), t = 2 => IsCompressed(h), call.want = b,
              NEW y \in Colour, cur' = y, NEW c \in Nat, count' = c, NEW s \in Nat, skip' = s,
              Asked = <<x>> \o LaterAt(pic, Place + b, y, c, s)
       PROVE  Right'
  <2>1. call'.at = "map" /\ call'.val = x /\ call'.maps = t /\ call'.point = call.point
    BY <1>9, <1>12
  <2>2. Later' = LaterAt(pic, Place + b, y, c, s)
    BY <1>1, <1>7, <1>12, <2>1 DEF Later
  <2>3. LaterAt(pic, Place + b, y, c, s) \in Seq(Colour)
    <3> DEFINE i == Place + b
    <3>1. i \in Nat /\ i >= HeaderSize
      BY <1>8, <1>12
    <3> HIDE DEF i
    <3>2. LaterAt(pic, i, y, c, s) \in Seq(Colour)
      BY <1>2, <3>1, LaterTyped
    <3> QED
      BY <3>2 DEF i
  <2>4. Ends(v, Len(out), <<call'.val>> \o Later')
    BY <1>3, <1>12, <2>1, <2>2
  <2>5. /\ Place' \in Nat /\ Place' >= Start(h) /\ Coming' = Coming
        /\ call'.maps \in 1..2 /\ (call'.maps = 2 => IsCompressed(h)) /\ call'.val \in Colour
        /\ Later' \in Seq(Colour)
    BY <1>7, <1>8, <1>10, <1>11, <1>12, <2>1, <2>2, <2>3
  <2> HIDE DEF x
  <2> QED
    BY <1>1, <1>6, <2>1, <2>4, <2>5, TakesRight
<1>13. ASSUME call.use = "pixel", call' = Map(call, Word(Value), 1), UNCHANGED <<cur, skip, count>>
       PROVE  Right'
  <2>1. ~IsCompressed(h) /\ call.want = b
    BY <1>3, <1>13 DEF UseInv
  <2>2. Behind(pic, Place) >= b =>
          AskedAt(pic, Place, "pixel", count, skip) = <<x>> \o LaterAt(pic, Place + b, cur, count, skip)
    <3> DEFINE i == Place
    <3>1. pic \in Pictures /\ Verdict(pic.head) = "open" /\ ~IsCompressed(pic.head) /\ i \in Nat /\ i >= HeaderSize
      BY <1>2, <2>1
    <3> HIDE DEF i
    <3>2. Behind(pic, i) >= PixelSize(pic.head) =>
            AskedAt(pic, i, "pixel", count, skip)
              = <<ValueAt(pic, i)>> \o LaterAt(pic, i + PixelSize(pic.head), cur, count, skip)
      BY ONLY <3>1, PixelTakes
    <3> QED
      BY <3>2 DEF i
  <2>3. Asked = <<x>> \o LaterAt(pic, Place + b, cur, count, skip)
    BY <1>4, <1>5, <1>13, <2>1, <2>2
  <2>4. call' = Map(call, x, 1)
    BY <1>11, <1>13, <2>1
  <2>5. 1 \in 1..2 /\ ~(1 = 2)
    OBVIOUS
  <2> HIDE DEF x, b
  <2> QED
    BY <1>2, <1>12, <1>13, <2>1, <2>3, <2>4, <2>5
<1>14. ASSUME call.use # "pixel"
       PROVE  LET head == Bytes(pic, Place, 1)[1]
              IN /\ IsCompressed(h) /\ call.use \in {"copy", "run", "packet"}
                 /\ Behind(pic, Place) >= b =>
                      /\ AskedAt(pic, Place, "copy", count, skip) = <<x>> \o LaterAt(pic, Place + b, cur, 0, skip)
                      /\ count > 0 => AskedAt(pic, Place, "run", count, skip) = <<x>> \o LaterAt(pic, Place + b, x, count - 1, 0)
                 /\ Behind(pic, Place) >= 1 =>
                      AskedAt(pic, Place, "packet", count, skip) =
                        IF head >= 128 THEN AskedAt(pic, Place + 1, "run", head - 127, skip)
                        ELSE AskedAt(pic, Place + 1, "copy", count, head)
  <2> DEFINE i == Place
  <2>1. /\ pic \in Pictures /\ Verdict(pic.head) = "open" /\ i \in Nat /\ i >= HeaderSize
        /\ cur \in Colour /\ count \in Nat /\ skip \in Nat
    BY <1>2
  <2>2. IsCompressed(pic.head) /\ call.use \in {"copy", "run", "packet"}
    BY <1>3, <1>14 DEF UseInv
  <2> HIDE DEF i
  <2>3. /\ Behind(pic, i) >= PixelSize(pic.head) =>
             AskedAt(pic, i, "copy", count, skip)
               = <<ValueAt(pic, i)>> \o LaterAt(pic, i + PixelSize(pic.head), cur, 0, skip)
        /\ count > 0 /\ Behind(pic, i) >= PixelSize(pic.head) =>
             AskedAt(pic, i, "run", count, skip)
               = <<ValueAt(pic, i)>> \o LaterAt(pic, i + PixelSize(pic.head), ValueAt(pic, i), count - 1, 0)
        /\ Behind(pic, i) >= 1 =>
             AskedAt(pic, i, "packet", count, skip) =
               IF Bytes(pic, i, 1)[1] >= 128
               THEN AskedAt(pic, i + 1, "run", Bytes(pic, i, 1)[1] - 127, skip)
               ELSE AskedAt(pic, i + 1, "copy", count, Bytes(pic, i, 1)[1])
    BY ONLY <2>1, <2>2, PacketTakes
  <2> QED
    BY <2>2, <2>3 DEF i
<1>15. ASSUME call.use = "copy", call' = Map(call, Word(Value), 2), UNCHANGED <<cur, skip, count>>
       PROVE  Right'
  <2>1. call.want = b /\ count = 0
    BY <1>3, <1>15 DEF UseInv
  <2>2. IsCompressed(h)
    BY <1>14, <1>15
  <2>3. Asked = <<x>> \o LaterAt(pic, Place + b, cur, count, skip)
    BY <1>4, <1>5, <1>14, <1>15, <2>1
  <2>4. call' = Map(call, x, 2) /\ 2 \in 1..2
    BY <1>11, <1>15, <2>1
  <2> HIDE DEF x, b
  <2> QED
    BY <1>2, <1>12, <1>15, <2>1, <2>2, <2>3, <2>4
<1>16. ASSUME call.use = "run", cur' = Word(Value), count' = count - 1, call' = Map(call, cur', 1),
              skip' = skip
       PROVE  Right'
  <2>1. call.want = b /\ skip = 0
    BY <1>3, <1>16 DEF UseInv
  <2>2. count > 0 /\ count - 1 \in Nat
    <3>1. count >= 1
      BY <1>1, <1>16 DEF Going, ReadInv, RunInv
    <3> QED
      BY <1>2, <3>1
  <2>3. Asked = <<x>> \o LaterAt(pic, Place + b, x, count - 1, skip)
    BY <1>4, <1>5, <1>14, <1>16, <2>1, <2>2
  <2>4. call' = Map(call, x, 1) /\ cur' = x /\ x \in Colour
    BY <1>11, <1>16, <2>1
  <2>5. 1 \in 1..2 /\ ~(1 = 2)
    OBVIOUS
  <2> HIDE DEF x, b
  <2> QED
    BY <1>2, <1>12, <1>16, <2>1, <2>2, <2>3, <2>4, <2>5
<1>17. ASSUME NEW u \in {"run", "copy"}, call' = Ask(call, b, u), call.want = 1, IsCompressed(h),
              cur' = cur, NEW c, count' = c, NEW s, skip' = s,
              u = "copy" => c = 0, u = "run" => s = 0,
              Asked = AskedAt(pic, Place + 1, u, c, s)
       PROVE  Right'
  <2>1. call'.at = "read" /\ call'.want = b /\ call'.use = u /\ call'.point = call.point
    BY <1>9, <1>17
  <2>2. Place' = Place + 1
    BY <1>7, <1>17, <2>1
  <2>3. Asked' = Asked
    BY <1>1, <1>17, <2>1, <2>2 DEF Asked
  <2>4. UseInv'
    BY <1>1, <1>17, <2>1 DEF UseInv
  <2>5. FlowInv'
    <3>1. Place' >= Start(h)
      BY <1>8, <1>17, <2>2
    <3> QED
      BY <1>1, <1>3, <1>6, <2>1, <2>3, <2>4, <3>1 DEF FlowInv
  <2> QED
    BY <1>1, <1>10, <2>1, <2>5, StaysRight
<1>18. call.use = "packet" => /\ call.want = 1 /\ count = 0 /\ skip = 0
                              /\ Value[1] = Bytes(pic, Place, 1)[1]
  BY <1>3, <1>4 DEF UseInv
<1>19. ASSUME call.use = "packet", Value[1] >= 128,
              count' = Value[1] - 127, call' = NextValue(call, "run"), UNCHANGED <<cur, skip>>
       PROVE  Right'
  <2>1. Asked = AskedAt(pic, Place + 1, "run", count', skip)
    BY <1>4, <1>5, <1>14, <1>18, <1>19
  <2>2. call' = Ask(call, b, "run")
    BY <1>19 DEF NextValue
  <2> HIDE DEF b
  <2> QED
    BY <1>14, <1>17, <1>18, <1>19, <2>1, <2>2
<1>20. ASSUME call.use = "packet", Value[1] < 128,
              skip' = Value[1], call' = NextValue(call, "copy"), UNCHANGED <<cur, count>>
       PROVE  Right'
  <2>1. Asked = AskedAt(pic, Place + 1, "copy", count, skip')
    <3>1. Value[1] \in Byte
      <4>1. 1 \in 1..4
        OBVIOUS
      <4>2. Bytes(pic, Place, 1) \in Seq(Byte) /\ Len(Bytes(pic, Place, 1)) = 1
        <5>1. Place \in Int /\ 1 \in Nat /\ (1 > 0 => Place >= HeaderSize /\ Place + 1 <= Size(pic))
          BY <1>2, <1>4, <1>18, <1>20
        <5> QED
          BY <1>2, <5>1, FileBytes
      <4> QED
        BY <1>18, <1>20, <4>2
    <3>2. ~(Value[1] >= 128)
      BY <1>20, <3>1 DEF Byte
    <3> QED
      BY <1>4, <1>5, <1>14, <1>18, <1>20, <3>2
  <2>2. call' = Ask(call, b, "copy")
    BY <1>20 DEF NextValue
  <2> HIDE DEF b
  <2> QED
    BY <1>14, <1>17, <1>18, <1>20, <2>1, <2>2
<1> QED
  BY <1>13, <1>15, <1>16, <1>19, <1>20 DEF Take, packet

\* A colour that the map or the value itself gives is the one of the value: a copied
\* one is looked up once more, another is a pixel.
LEMMA MappedRight ==
  ASSUME Going, call.at \in {"map", "back"}, NEW c, Mapped(c),
         UNCHANGED <<pic, state, point, cur, skip, count>>, Place' = Place, EntryInv',
         NEW w, w = Values(pic)[Len(out) + 1],
         c = IF HasMap(pic.head) THEN Entry(pic, w[1]) ELSE w,
         call.maps \in 1..2,
         call.maps > 1 => /\ IsCompressed(pic.head)
                          /\ HasMap(pic.head) => \A e \in cache' : e.index = Low16(w)
  PROVE  Right'
<1> DEFINE h == pic.head
<1> DEFINE v == Values(pic)
<1> DEFINE k == Len(out)
<1>1. /\ pic \in Pictures /\ FlowInv /\ GridInv /\ DrawnInv /\ k \in Nat /\ v \in Seq(Valued(pic))
      /\ Place >= Start(h) /\ Fields \subseteq DOMAIN call
      /\ h.width \in Nat /\ h.height \in Nat /\ state = "open" /\ Plain(pic)
  BY GoingFacts DEF Going
<1>2. Start(h) < Size(pic) /\ k < Len(v) /\ Ends(v, k + 1, Later)
  BY <1>1 DEF FlowInv
<1>3. w \in Valued(pic) /\ w \in Range(v)
  <2>1. k + 1 \in DOMAIN v /\ w = v[k + 1]
    BY <1>1, <1>2
  <2> HIDE DEF v, k
  <2> QED
    BY <1>1, <2>1 DEF Range
<1>4. /\ Fix(h, Expand(h, c)) = Color(pic, w)
      /\ IsCompressed(h) => Expand(h, c) = c
      /\ HasMap(h) /\ IsCompressed(h) => h.kind = 9
  <2>1. CASE ~HasMap(h)
    <3>1. c = w
      BY <2>1
    <3> QED
      BY <1>1, <1>3, <2>1, <3>1, PlainColors
  <2>2. CASE HasMap(h)
    <3>1. c = Entry(pic, w[1])
      BY <2>2
    <3>2. /\ h.kind \in {1, 9} /\ Entry(pic, w[1]) \in Colour
          /\ \A d \in Colour : Expand(h, d) = d
          /\ Fix(h, Entry(pic, w[1])) = Color(pic, w)
      BY <1>1, <1>2, <1>3, <2>2, MapColors
    <3> QED
      BY <3>1, <3>2 DEF IsCompressed
  <2> QED
    BY <2>1, <2>2
<1>5. Later' = Later
  BY DEF Later
<1>6. call.at # "idle" /\ Coming = call.point
  BY DEF Coming
<1>7. CASE call.maps > 1
  <2>1. call' = Map(call, c, call.maps - 1) /\ out' = out
    BY <1>4, <1>7 DEF Mapped
  <2>2. call.maps = 2 /\ call.maps - 1 = 1
    BY <1>7
  <2>3. call'.at = "map" /\ call'.val = c /\ call'.maps = 1 /\ call'.point = call.point
    BY <1>1, <2>1, <2>2, CallFields
  <2>4. Coming' = Coming
    BY <1>6, <2>3 DEF Coming
  <2>5. LookUp(w)'
    <3>1. ~HasMap(h) => call'.val = w
      BY <2>3
    <3>2. HasMap(h) => /\ h.kind = 9 /\ call'.val = Entry(pic, w[1])
                       /\ \A e \in cache' : e.index = Low16(w)
      BY <1>4, <1>7, <2>3
    <3>3. call'.maps \in 1..2 /\ call'.maps # 2
      BY <2>3
    <3> QED
      BY <2>3, <3>1, <3>2, <3>3 DEF LookUp
  <2>6. DrawnInv'
    BY <1>1, <2>1 DEF DrawnInv
  <2>7. GridInv'
    BY <1>1, <2>1, <2>4 DEF GridInv
  <2>8. FlowInv'
    BY <1>1, <1>2, <1>5, <2>1, <2>3, <2>5 DEF FlowInv
  <2> QED
    BY <1>1, <2>6, <2>7, <2>8 DEF Right
<1>8. CASE ~(call.maps > 1)
  <2> DEFINE x == [at |-> call.point, color |-> Color(pic, w)]
  <2>1. call' = Idle /\ out' = Append(out, x)
    BY <1>4, <1>8 DEF Mapped
  <2>2. call'.at = "idle"
    BY <2>1 DEF Idle
  <2>3. /\ Len(out') = k + 1 /\ out'[k + 1] = x
        /\ \A j \in 1..k : out'[j] = out[j]
    <3>1. PICK S : out \in Seq(S)
      BY DEF Going, ReadInv, Inv, OutInv
    <3> HIDE DEF x
    <3> QED
      BY <2>1, <3>1
  <2>4. /\ k < h.width * h.height /\ PointAt(h, k + 1) = call.point
        /\ InRows(h, k + 1, NextPoint(h, call.point))
    <3>1. /\ call.point \in Points /\ call.point.x < h.width
          /\ call.point.y \in 0..(h.height - 1)
      BY <1>6 DEF Going, ReadInv, Inv, CallInv
    <3>2. h.height > 0 /\ HasPoint(h, call.point)
      BY <1>1, <3>1 DEF HasPoint
    <3>3. InRows(h, k, call.point)
      BY <1>1, <1>6 DEF GridInv
    <3> HIDE DEF h, k
    <3> DEFINE p == call.point
    <3>4. p \in Points /\ p.x < h.width /\ InRows(h, k, p) /\ HasPoint(h, p)
      BY <3>1, <3>2, <3>3
    <3> HIDE DEF p
    <3>5. /\ k < h.width * h.height /\ PointAt(h, k + 1) = p
          /\ InRows(h, k + 1, NextPoint(h, p))
      BY <1>1, <3>2, <3>4, RowsGoOn
    <3> QED
      BY <3>5 DEF p
  <2>5. DrawnInv'
    <3>1. k + 1 <= h.width * h.height
      <4>1. h.width * h.height \in Nat
        BY <1>1
      <4> QED
        BY <1>1, <2>4, <4>1
    <3>2. k + 1 <= Len(v)
      BY <1>1, <1>2
    <3>3. \A j \in 1..(k + 1) : out'[j] = [at |-> PointAt(h, j), color |-> Color(pic, v[j])]
      <4> SUFFICES ASSUME NEW j \in 1..(k + 1)
                   PROVE  out'[j] = [at |-> PointAt(h, j), color |-> Color(pic, v[j])]
        OBVIOUS
      <4>1. CASE j \in 1..k
        BY <1>1, <2>3, <4>1 DEF DrawnInv
      <4>2. CASE j = k + 1
        BY <2>3, <2>4, <4>2
      <4> QED
        BY <1>1, <4>1, <4>2
    <3> QED
      BY <2>3, <3>1, <3>2, <3>3 DEF DrawnInv
  <2>6. GridInv'
    <3>1. Coming' = NextPoint(h, call.point)
      BY <1>6, <2>2 DEF Coming, Going, ReadInv, Inv, CallInv
    <3> QED
      BY <2>3, <2>4, <3>1 DEF GridInv
  <2>7. FlowInv'
    BY <1>1, <1>2, <1>5, <2>2, <2>3 DEF FlowInv
  <2> QED
    BY <1>1, <2>5, <2>6, <2>7 DEF Right
<1> QED
  BY <1>7, <1>8

\* What is known of a value that is looked up.
LEMMA LookUpFacts ==
  ASSUME Going, call.at \in {"map", "entry", "back"}
  PROVE  LET h == pic.head
             w == Values(pic)[Len(out) + 1]
         IN /\ Start(h) < Size(pic) /\ Len(out) < Len(Values(pic)) /\ Len(out) \in Nat
            /\ w \in Valued(pic) /\ w \in Range(Values(pic)) /\ LookUp(w)
            /\ ~HasMap(h) => call.val = w
            /\ HasMap(h) =>
                 /\ EntrySize(h) \in {3, 4} /\ ~Beyond(h, w) /\ Low16(w) = w[1] /\ w[1] \in Byte
                 /\ MapStart(h) + w[1] * EntrySize(h) \in Nat
                 /\ MapStart(h) + w[1] * EntrySize(h) >= HeaderSize
                 /\ MapStart(h) + w[1] * EntrySize(h) + EntrySize(h) <= Size(pic)
                 /\ \/ call.val = w
                    \/ /\ call.val = Entry(pic, w[1]) /\ call.maps = 1 /\ call.at = "map"
                       /\ Beyond(h, call.val) /\ \A e \in cache : e.index = Low16(w)
            /\ call.maps \in 1..2 /\ (call.maps = 2 => IsCompressed(h))
<1> DEFINE h == pic.head
<1> DEFINE v == Values(pic)
<1> DEFINE k == Len(out)
<1> DEFINE w == v[k + 1]
<1>1. pic \in Pictures /\ FlowInv /\ k \in Nat /\ v \in Seq(Valued(pic)) /\ Plain(pic)
  BY GoingFacts DEF Going
<1>2. Start(h) < Size(pic) /\ k < Len(v) /\ LookUp(w)
  BY <1>1 DEF FlowInv
<1>3. w \in Valued(pic) /\ w \in Range(v)
  <2>1. k + 1 \in DOMAIN v
    BY <1>1, <1>2
  <2> HIDE DEF v, k
  <2> QED
    BY <1>1, <2>1 DEF Range
<1>4. call.maps \in 1..2 /\ (call.maps = 2 => IsCompressed(h))
  <2>1. \/ call.maps \in 1..2 /\ (call.maps = 2 => IsCompressed(h))
        \/ call.maps = 1
    BY <1>2 DEF LookUp
  <2>2. 1 \in 1..2 /\ 1 # 2
    OBVIOUS
  <2> QED
    BY <2>1, <2>2
<1>5. ~HasMap(h) => call.val = w
  BY <1>1, <1>2 DEF LookUp, Plain
<1>6. ASSUME HasMap(h)
      PROVE  /\ EntrySize(h) \in {3, 4} /\ ~Beyond(h, w) /\ Low16(w) = w[1] /\ w[1] \in Byte
             /\ MapStart(h) + w[1] * EntrySize(h) \in Nat
             /\ MapStart(h) + w[1] * EntrySize(h) >= HeaderSize
             /\ MapStart(h) + w[1] * EntrySize(h) + EntrySize(h) <= Size(pic)
             /\ h.kind = 9 => Beyond(h, Entry(pic, w[1]))
  <2> HIDE DEF w
  <2> QED
    BY <1>1, <1>2, <1>3, <1>6, MapColors
<1>7. HasMap(h) => \/ call.val = w
                   \/ /\ call.val = Entry(pic, w[1]) /\ call.maps = 1 /\ call.at = "map"
                      /\ Beyond(h, call.val) /\ \A e \in cache : e.index = Low16(w)
  BY <1>2, <1>6 DEF LookUp
<1> HIDE DEF w
<1>8. /\ Start(h) < Size(pic) /\ k < Len(v) /\ k \in Nat
      /\ w \in Valued(pic) /\ w \in Range(v) /\ LookUp(w)
  BY <1>1, <1>2, <1>3
<1> QED
  BY <1>4, <1>5, <1>6, <1>7, <1>8 DEF w

\* After a look-up, the call is over or looks once more.
LEMMA MappedGoes ==
  ASSUME Fields \subseteq DOMAIN call, NEW c, Mapped(c)
  PROVE  call'.at \in {"idle", "map"}
<1>1. CASE call.maps > 1
  BY <1>1, CallFields DEF Mapped
<1>2. CASE ~(call.maps > 1)
  BY <1>2 DEF Mapped, Idle
<1> QED
  BY <1>1, <1>2

\* A colour that is known: the value itself, or the entry looked up last.
LEMMA MapKnownRight == ASSUME Going, MapKnown PROVE Right'
<1> DEFINE h == pic.head
<1> DEFINE w == Values(pic)[Len(out) + 1]
<1> DEFINE hit == {e.last : e \in {e \in Cached(call.val) : HasMap(h)}}
<1> DEFINE c == IF hit = {} THEN call.val ELSE CHOOSE d \in hit : TRUE
<1>1. /\ call.at = "map" /\ Known(call.val)
      /\ UNCHANGED <<pic, rd, state, buf, pos, cache, point, cur, skip, count>>
      /\ Mapped(c)
  BY DEF MapKnown, file, ahead, packet
<1>2. EntryInv /\ Fields \subseteq DOMAIN call
  BY GoingFacts
<1>3. /\ ~HasMap(h) => call.val = w
      /\ HasMap(h) =>
           /\ ~Beyond(h, w) /\ Low16(w) = w[1]
           /\ \/ call.val = w
              \/ /\ call.val = Entry(pic, w[1]) /\ call.maps = 1
                 /\ Beyond(h, call.val) /\ \A e \in cache : e.index = Low16(w)
      /\ call.maps \in 1..2 /\ (call.maps = 2 => IsCompressed(h))
  BY <1>1, LookUpFacts
<1> HIDE DEF w
<1>5. ASSUME HasMap(h)
      PROVE  /\ c = Entry(pic, w[1])
             /\ call.maps > 1 => /\ IsCompressed(h)
                                 /\ \A e \in cache : e.index = Low16(w)
  <2>1. \A e \in cache : e.last = Entry(pic, e.index) /\ \A f \in cache : e = f
    BY <1>2, <1>5 DEF EntryInv
  <2>2. CASE call.val = w
    <3>1. PICK e \in cache : e.index = Low16(w)
      BY <1>1, <1>3, <1>5, <2>2 DEF Known, Cached
    <3>2. hit = {Entry(pic, w[1])}
      BY <1>3, <1>5, <2>1, <2>2, <3>1 DEF Cached
    <3>3. c = Entry(pic, w[1])
      <4> HIDE DEF hit
      <4> QED
        BY <3>2
    <3>4. \A f \in cache : f.index = Low16(w)
      BY <2>1, <3>1
    <3>5. call.maps > 1 => call.maps = 2
      BY <1>3
    <3> QED
      BY <1>3, <3>3, <3>4, <3>5
  <2>3. CASE /\ call.val = Entry(pic, w[1]) /\ call.maps = 1
             /\ \A e \in cache : e.index = Low16(w)
    <3>1. hit \subseteq {Entry(pic, w[1])}
      BY <1>3, <1>5, <2>1, <2>3 DEF Cached
    <3>2. c = Entry(pic, w[1])
      <4> HIDE DEF hit
      <4>1. hit # {} => (CHOOSE d \in hit : TRUE) \in hit
        OBVIOUS
      <4> QED
        BY <2>3, <3>1, <4>1
    <3>3. ~(call.maps > 1)
      BY <2>3
    <3> QED
      BY <3>2, <3>3
  <2> QED
    BY <1>3, <1>5, <2>2, <2>3
<1>6. c = IF HasMap(h) THEN Entry(pic, w[1]) ELSE w
  <2>1. CASE ~HasMap(h)
    <3>1. hit = {}
      BY <2>1
    <3> QED
      BY <1>3, <2>1, <3>1
  <2>2. CASE HasMap(h)
    <3> HIDE DEF c
    <3> QED
      BY <1>5, <2>2
  <2> QED
    BY <2>1, <2>2
<1>7. call.maps > 1 => /\ IsCompressed(h)
                       /\ HasMap(h) => \A e \in cache' : e.index = Low16(w)
  <2>1. call.maps > 1 => call.maps = 2
    BY <1>3
  <2> QED
    BY <1>1, <1>3, <1>5, <2>1
<1>8. EntryInv'
  BY <1>1, <1>2 DEF EntryInv
<1> HIDE DEF c
<1>9. Place' = Place
  <2>1. call'.at \in {"idle", "map"}
    BY <1>1, <1>2, MappedGoes
  <2> QED
    BY <1>1, <2>1 DEF Place, Home
<1> QED
  BY <1>1, <1>3, <1>6, <1>7, <1>8, <1>9, MappedRight DEF w

\* The reader goes to the entry of the value, remembering its place.
LEMMA MapSeekRight == ASSUME Going, MapSeek PROVE Right'
<1> DEFINE h == pic.head
<1> DEFINE w == Values(pic)[Len(out) + 1]
<1>1. /\ call.at = "map" /\ ~Known(call.val)
      /\ rd' = MapStart(h) + Low16(call.val) * EntrySize(h)
      /\ call' = [call EXCEPT !.at = "entry", !.home = rd]
      /\ UNCHANGED <<pic, state, buf, pos, cache, point, cur, skip, count, out>>
  BY DEF MapSeek, ahead, packet, history
<1>2. FlowInv /\ Fields \subseteq DOMAIN call
  BY GoingFacts
<1>3. /\ call'.at = "entry" /\ call'.home = rd /\ call'.val = call.val
      /\ call'.maps = call.maps /\ call'.point = call.point
  BY <1>1, <1>2 DEF Fields
<1>4. LookUp(w) /\ HasMap(h) /\ call.val = w
  BY <1>1, LookUpFacts DEF Known
<1>5. /\ call.maps \in 1..2 /\ (call.maps = 2 => IsCompressed(h))
  BY <1>1, LookUpFacts
<1> HIDE DEF w
<1>6. LookUp(w)'
  <2>1. w' = w
    BY <1>1 DEF w
  <2>2. /\ call'.val = w /\ call'.maps \in 1..2 /\ (call'.maps = 2 => IsCompressed(h))
        /\ HasMap(h) /\ rd' = MapStart(h) + Low16(w) * EntrySize(h) /\ call'.at = "entry"
    BY <1>1, <1>3, <1>4, <1>5
  <2> QED
    BY <1>1, <2>1, <2>2 DEF LookUp
<1>7. Place' = Place /\ Coming' = Coming
  <2>1. Home' = Home
    BY <1>1, <1>3 DEF Home
  <2> QED
    BY <1>1, <1>3, <2>1 DEF Place, Coming
<1>8. Later' = Later
  BY <1>1, <1>7 DEF Later
<1>9. FlowInv'
  BY <1>1, <1>2, <1>3, <1>6, <1>7, <1>8 DEF FlowInv, w
<1> QED
  BY <1>1, <1>7, <1>9, StaysRight

\* The entry is read, all of it unless it came in part.
LEMMA MapReadRight == ASSUME Going, MapRead, ~cut' PROVE Right'
<1> DEFINE h == pic.head
<1> DEFINE w == Values(pic)[Len(out) + 1]
<1> DEFINE b == EntrySize(h)
<1> DEFINE all == Min({4, Left})
<1>1. /\ call.at = "entry"
      /\ UNCHANGED <<pic, state, buf, pos, cache, point, cur, skip, count, out>>
  BY DEF MapRead, ahead, packet
<1>2. PICK n \in Min({1, all})..all :
        /\ call' = [call EXCEPT !.at = "back", !.got = Bytes(pic, rd, n)]
        /\ rd' = rd + n /\ cut' = (cut \/ n < Min({all, b}))
  BY DEF MapRead
<1>3. /\ pic \in Pictures /\ FlowInv /\ Fields \subseteq DOMAIN call
      /\ rd \in Nat /\ Size(pic) \in Nat
  BY GoingFacts
<1>4. /\ LookUp(w) /\ HasMap(h) /\ call.val = w /\ Low16(w) = w[1]
      /\ b \in {3, 4}
      /\ MapStart(h) + w[1] * b >= HeaderSize
      /\ MapStart(h) + w[1] * b + b <= Size(pic)
      /\ call.maps \in 1..2 /\ (call.maps = 2 => IsCompressed(h))
  <2>1. LookUp(w)
    BY <1>1, LookUpFacts
  <2>2. HasMap(h)
    BY <1>1, <2>1 DEF LookUp
  <2> QED
    BY <1>1, <2>1, <2>2, LookUpFacts
<1>5. rd = MapStart(h) + w[1] * b
  BY <1>1, <1>4 DEF LookUp
<1> HIDE DEF w, b, all
<1>6. rd >= HeaderSize /\ rd + b <= Size(pic)
  BY <1>4, <1>5
<1>7. n \in Nat /\ b <= n /\ rd + n <= Size(pic)
  <2>1. \A x, y \in Int : Min({x, y}) = IF x <= y THEN x ELSE y
    BY DEF Min
  <2>2. Left \in Nat /\ (Left > 0 => rd + Left = Size(pic))
    BY LeftBounds DEF Going
  <2>3. Left = Size(pic) - rd
    <3>1. Left = Behind(pic, rd)
      BY DEF Left, Behind
    <3>2. Behind(pic, rd) = IF rd < Size(pic) THEN Size(pic) - rd ELSE 0
      BY <1>3, BehindIs
    <3> QED
      BY <1>3, <1>4, <1>6, <3>1, <3>2
  <2>4. b \in Nat /\ Left >= b
    BY <1>3, <1>4, <1>6, <2>3
  <2>5. all \in Nat /\ b <= all /\ all <= Left
    <3>1. all = IF 4 <= Left THEN 4 ELSE Left
      BY <2>1, <2>2 DEF all
    <3> QED
      BY <1>4, <2>2, <2>4, <3>1
  <2>6. Min({all, b}) = b /\ Min({1, all}) = 1
    <3>1. Min({all, b}) = (IF all <= b THEN all ELSE b) /\ Min({1, all}) = (IF 1 <= all THEN 1 ELSE all)
      BY <2>1, <2>4, <2>5
    <3> QED
      BY <1>4, <2>4, <2>5, <3>1
  <2>7. ~(n < b)
    BY <1>2, <2>6
  <2>8. n \in 1..all
    BY <2>6
  <2> QED
    BY <1>3, <2>2, <2>3, <2>4, <2>5, <2>7, <2>8
<1> DEFINE got == Bytes(pic, rd, n)
<1>8. got \in Seq(Byte) /\ Len(got) = n
  <2>1. rd \in Int /\ n \in Nat /\ (n > 0 => rd >= HeaderSize /\ rd + n <= Size(pic))
    BY <1>3, <1>6, <1>7
  <2> QED
    BY <1>3, <2>1, FileBytes
<1>9. SubSeq(got, 1, b) = Bytes(pic, rd, b)
  <2>1. /\ rd \in Int /\ n \in Nat /\ 0 \in Nat /\ b \in Nat /\ 0 + b <= n
        /\ (n > 0 => rd >= HeaderSize /\ rd + n <= Size(pic))
    BY <1>3, <1>4, <1>6, <1>7
  <2>2. SubSeq(Bytes(pic, rd, n), 0 + 1, 0 + b) = Bytes(pic, rd + 0, b)
    BY ONLY <1>3, <2>1, BytesWithin
  <2>3. 0 + 1 = 1 /\ 0 + b = b /\ rd + 0 = rd
    BY <2>1
  <2> QED
    BY <2>2, <2>3
<1>10. Word(SubSeq(got, 1, b)) = Entry(pic, w[1])
  BY <1>5, <1>9 DEF Entry, b
<1> HIDE DEF got
<1>11. /\ call'.at = "back" /\ call'.got = got /\ call'.home = call.home
       /\ call'.val = call.val /\ call'.maps = call.maps /\ call'.point = call.point
  BY <1>2, <1>3 DEF Fields, got
<1>12. LookUp(w)'
  <2>1. w' = w
    BY <1>1 DEF w
  <2>2. /\ call'.val = w /\ call'.maps \in 1..2 /\ (call'.maps = 2 => IsCompressed(h))
        /\ HasMap(h) /\ call'.at = "back" /\ Len(call'.got) >= b
        /\ Word(SubSeq(call'.got, 1, b)) = Entry(pic, w[1])
    BY <1>4, <1>7, <1>8, <1>10, <1>11
  <2> QED
    BY <1>1, <2>1, <2>2 DEF LookUp, b
<1>13. Place' = Place /\ Coming' = Coming
  <2>1. Home' = Home
    BY <1>1, <1>11 DEF Home
  <2> QED
    BY <1>1, <1>11, <2>1 DEF Place, Coming
<1>14. Later' = Later
  BY <1>1, <1>13 DEF Later
<1>15. FlowInv'
  BY <1>1, <1>3, <1>11, <1>12, <1>13, <1>14 DEF FlowInv, w
<1> QED
  BY <1>1, <1>13, <1>15, StaysRight

\* The reader is back at its place, and the entry is kept.
LEMMA MapBackRight == ASSUME Going, MapBack PROVE Right'
<1> DEFINE h == pic.head
<1> DEFINE w == Values(pic)[Len(out) + 1]
<1> DEFINE b == EntrySize(h)
<1> DEFINE c == Word(SubSeq(call.got, 1, b))
<1>1. /\ call.at = "back" /\ rd' = call.home
      /\ UNCHANGED <<pic, state, buf, pos, point, cur, skip, count>>
  BY DEF MapBack, ahead, packet
<1>2. FlowInv /\ Fields \subseteq DOMAIN call
  BY GoingFacts
<1>3. LookUp(w) /\ HasMap(h)
  <2>1. LookUp(w)
    BY <1>1, LookUpFacts
  <2> QED
    BY <1>1, <2>1 DEF LookUp
<1>4. /\ call.val = w /\ Low16(w) = w[1] /\ b \in 1..4
      /\ call.maps \in 1..2 /\ (call.maps = 2 => IsCompressed(h))
  BY <1>1, <1>3, LookUpFacts
<1>5. c = Entry(pic, w[1]) /\ Len(call.got) >= b
  BY <1>1, <1>3 DEF LookUp
<1>6. cache' = {[index |-> Low16(w), last |-> c]} /\ Mapped(c)
  BY <1>4, <1>5 DEF MapBack
<1> HIDE DEF w, c
<1>7. EntryInv'
  BY <1>1, <1>4, <1>5, <1>6 DEF EntryInv
<1>8. call.maps > 1 => /\ IsCompressed(h)
                       /\ HasMap(h) => \A e \in cache' : e.index = Low16(w)
  <2>1. call.maps > 1 => call.maps = 2
    BY <1>4
  <2> QED
    BY <1>4, <1>6, <2>1
<1>9. Place' = Place
  <2>1. call'.at \in {"idle", "map"}
    BY <1>2, <1>6, MappedGoes
  <2>2. Home' = rd' /\ Home = call.home
    BY <1>1, <2>1 DEF Home
  <2> QED
    BY <1>1, <2>2 DEF Place
<1> QED
  BY <1>1, <1>3, <1>4, <1>5, <1>6, <1>7, <1>8, <1>9, MappedRight DEF w

\* At the start of the pixels nothing is handed out and all values are to come.
LEMMA OpenRight == ASSUME ReadInv, DecodeInv, Open, state' = "open" PROVE Right'
<1> DEFINE h == pic.head
<1> DEFINE v == Values(pic)
<1> DEFINE i == Start(h)
<1>1. /\ state = "new" /\ Verdict(h) = "open" /\ rd' = i /\ point' = FirstPoint(h)
      /\ UNCHANGED <<pic, buf, pos, cache, cur, skip, count, call, out>>
  BY DEF Open, ahead, packet, history
<1>2. /\ pic \in Pictures /\ out = <<>> /\ call.at = "idle" /\ buf = <<>> /\ pos = 0
      /\ count = 0 /\ skip = 0 /\ cache = {} /\ cur \in Colour
  <2>1. buf = <<>> /\ pos \in 0..Len(buf)
    BY <1>1 DEF ReadInv, TypeOK, KeptInv
  <2>2. pos = 0
    BY <2>1
  <2> QED
    BY <1>1, <2>1, <2>2 DEF ReadInv, TypeOK, KeptInv, Inv, OutInv, DecodeInv
<1>3. h.width \in Nat /\ h.height \in Nat /\ i \in Nat /\ i >= HeaderSize /\ v \in Seq(Valued(pic))
  <2>1. i \in Nat /\ i >= HeaderSize
    BY <1>2, Places
  <2> QED
    BY <1>1, <1>2, <2>1, ValuesTyped, PicturesAssumption
<1> HIDE DEF v, i
<1>4. Place' = i /\ Coming' = FirstPoint(h)
  <2>1. Place' = rd' - (Len(buf) - pos)
    BY <1>1, <1>2 DEF Place, Home
  <2>2. Len(buf) - pos = 0
    BY <1>2
  <2> QED
    BY <1>1, <1>2, <1>3, <2>1, <2>2 DEF Coming
<1>5. Later' = v
  <2>1. Later' = LaterAt(pic, i, cur, count, skip)
    BY <1>1, <1>4 DEF Later
  <2>2. CASE IsCompressed(h)
    <3>1. LaterAt(pic, i, cur, 0, 0) = AskedAt(pic, i, "packet", 0, 0)
      <4>1. /\ pic \in Pictures /\ Verdict(pic.head) = "open" /\ IsCompressed(pic.head)
            /\ i \in Nat /\ i >= HeaderSize /\ cur \in Colour /\ 0 \in Nat
        BY <1>1, <1>2, <1>3, <2>2
      <4>2. \A n \in Nat : n = 0 => LaterAt(pic, i, cur, n, n) = AskedAt(pic, i, "packet", n, n)
        BY ONLY <4>1, PacketNext
      <4> QED
        BY <4>2
    <3>2. v = AskedAt(pic, i, "packet", 0, 0)
      BY <2>2 DEF v, i, Values, AskedAt
    <3> QED
      BY <1>2, <2>1, <3>1, <3>2
  <2>3. CASE ~IsCompressed(h)
    BY <2>1, <2>3 DEF v, i, Values, LaterAt
  <2> QED
    BY <2>2, <2>3
<1>6. Ends(v, 0, v)
  BY <1>3 DEF Ends
<1>7. Len(out) = 0 /\ Len(out') = 0
  BY <1>1, <1>2
<1>8. FlowInv'
  <2>1. i >= Start(h)
    BY <1>3 DEF i
  <2> QED
    BY <1>1, <1>2, <1>4, <1>5, <1>6, <1>7, <2>1 DEF FlowInv, v
<1>9. GridInv'
  <2>1. InRows(h, 0, FirstPoint(h))
    <3> HIDE DEF h
    <3>1. ASSUME h.height > 0
          PROVE  \E r \in 0..h.height :
                   /\ 0 = r * h.width + FirstPoint(h).x
                   /\ FirstPoint(h).y = IF IsFlipped(h) THEN h.height - 1 - r ELSE r
      <4>1. 0 \in 0..h.height /\ 0 = 0 * h.width + 0 /\ h.height - 1 = h.height - 1 - 0
        BY <1>3, <3>1
      <4>2. FirstPoint(h).x = 0 /\ FirstPoint(h).y = IF IsFlipped(h) THEN h.height - 1 ELSE 0
        BY <3>1 DEF FirstPoint
      <4> QED
        BY <4>1, <4>2
    <3> QED
      BY <3>1 DEF InRows
  <2> QED
    BY <1>1, <1>4, <1>7, <2>1 DEF GridInv
<1>10. DrawnInv'
  <2>1. 0 <= h.width * h.height /\ 0 <= Len(v)
    BY <1>3
  <2> QED
    BY <1>1, <1>7, <2>1 DEF DrawnInv, v
<1>11. EntryInv'
  BY <1>1, <1>2 DEF EntryInv
<1> QED
  BY <1>8, <1>9, <1>10, <1>11 DEF Right

\* Before anything is read.
LEMMA InitDecode == Init => DecodeInv
<1> SUFFICES ASSUME Init PROVE DecodeInv
  OBVIOUS
<1> QED
  BY DEF Init, DecodeInv, Right

\* A step of a picture that is read leaves it right, or something has failed.
LEMMA DecodeStep == ReadInv /\ DecodeInv /\ [Next]_vars => DecodeInv'
<1> SUFFICES ASSUME ReadInv, DecodeInv, [Next]_vars PROVE DecodeInv'
  OBVIOUS
<1> USE DEF file, ahead, packet, history
<1>1. CASE UNCHANGED vars
  BY <1>1 DEF vars, DecodeInv, Right, Undisturbed, DrawnInv, FlowInv, GridInv, EntryInv,
              Place, Home, Later, Asked, UseInv, LookUp, Coming
<1>2. CASE Open
  <2>1. /\ state' = Verdict(pic.head) /\ UNCHANGED <<pic, errors, cut>>
    BY <1>2 DEF Open
  <2>2. state' \notin {"new", "ended"}
    BY <2>1 DEF Verdict
  <2>3. state' = "open" => Right'
    BY <1>2, OpenRight
  <2>4. Right'
    BY <2>2, <2>3 DEF Right
  <2> QED
    BY <2>2, <2>4 DEF DecodeInv
<1>3. CASE OpenFails
  BY <1>3 DEF OpenFails, DecodeInv, Right
<1>4. CASE RefillFails \/ MapFails
  <2>1. state = "open" /\ state' = "open" /\ errors' = errors + 1
    BY <1>4 DEF RefillFails, MapFails, Short, ReadInv, RunInv
  <2>2. errors \in Nat
    BY ErrorsAssumption DEF ReadInv, TypeOK
  <2>3. ~Undisturbed'
    BY <2>1, <2>2 DEF Undisturbed
  <2> QED
    BY <2>1, <2>3 DEF DecodeInv
<1>5. CASE Step
  <2>1. /\ state = "open" /\ state' \in {"open", "ended"} /\ pic' = pic
        /\ errors' = errors /\ (cut' = cut \/ MapRead)
    BY <1>5 DEF Step, NextOf, Refill, RefillEmpty, Take, MapKnown, MapSeek, MapRead, MapBack,
                Short, ReadInv, RunInv
  <2>2. cut => cut'
    BY <2>1 DEF MapRead
  <2>3. Verdict(pic.head) = "open"
    BY <2>1 DEF ReadInv, KeptInv
  <2>4. ASSUME Plain(pic)', Undisturbed' PROVE Right'
    <3>1. Going /\ ~cut'
      BY <2>1, <2>2, <2>4 DEF Going, Undisturbed
    <3>2. \/ NextOf \/ Refill \/ RefillEmpty \/ Take
          \/ MapKnown \/ MapSeek \/ MapRead \/ MapBack
      BY <1>5 DEF Step
    <3> QED
      BY <3>1, <3>2, NextOfRight, RefillRight, RefillEmptyRight, TakeRight,
         MapKnownRight, MapSeekRight, MapReadRight, MapBackRight
  <2> QED
    BY <2>1, <2>3, <2>4 DEF DecodeInv
<1> QED
  BY <1>1, <1>2, <1>3, <1>4, <1>5 DEF Next, Fault

\* However the reader cuts the bytes of a plain picture, and wherever its rows, its
\* packets, its colour map and the buffer end, the pixels handed out are the first
\* ones of the file in its order, each at its point and in its colour, and at the
\* end they are all of them (Raw::next, Compressed::next and what they call).
THEOREM PictureDecoded == Spec => []DecodesPicture
<1>1. ReadInv /\ DecodeInv => DecodesPicture
  <2> SUFFICES ASSUME ReadInv, DecodeInv, Plain(pic), Undisturbed, state \in {"open", "ended"}
               PROVE  LET all == Pixels(pic)
                      IN /\ Len(out) <= Len(all) /\ out = SubSeq(all, 1, Len(out))
                         /\ state = "ended" => Len(out) = Len(all)
    BY DEF DecodesPicture
  <2> DEFINE all == Pixels(pic)
  <2> DEFINE k == Len(out)
  <2>1. pic \in Pictures /\ Verdict(pic.head) = "open" /\ DrawnInv
    BY DEF ReadInv, TypeOK, KeptInv, DecodeInv, Right
  <2>2. PICK S : out \in Seq(S)
    BY DEF ReadInv, Inv, OutInv
  <2>3. PICK T : all \in Seq(T)
    BY <2>1, PixelsLength
  <2>4. k \in Nat /\ Len(all) \in Nat /\ k <= Len(all)
    <3> DEFINE n == pic.head.width * pic.head.height
    <3> DEFINE l == Len(Values(pic))
    <3>1. n \in Nat /\ l \in Nat /\ Len(all) = IF n <= l THEN n ELSE l
      BY <2>1, PixelsLength
    <3>2. k <= n /\ k <= l
      BY <2>1 DEF DrawnInv
    <3> HIDE DEF n, l, all
    <3> QED
      BY <2>2, <2>3, <3>1, <3>2
  <2>5. \A j \in 1..k : out[j] = all[j]
    <3> SUFFICES ASSUME NEW j \in 1..k PROVE out[j] = all[j]
      OBVIOUS
    <3>1. j \in 1..Len(all)
      BY <2>4
    <3> QED
      BY <2>1, <3>1, PixelsLength DEF DrawnInv
  <2> HIDE DEF all
  <2>6. out = SubSeq(all, 1, k)
    <3> DEFINE t == SubSeq(all, 1, k)
    <3>1. t \in Seq(T) /\ Len(t) = k /\ \A j \in 1..k : t[j] = all[j]
      BY <2>3, <2>4
    <3> HIDE DEF t
    <3>2. out \in Seq(S \union T) /\ t \in Seq(S \union T)
      BY <2>2, <3>1
    <3>3. out = t
      BY <2>5, <3>1, <3>2, SameElements
    <3> QED
      BY <3>3 DEF t
  <2>7. state = "ended" => k = Len(all)
    BY DEF DecodeInv, Right, all
  <2> QED
    BY <2>4, <2>6, <2>7 DEF all
<1>2. Init => ReadInv /\ DecodeInv
  BY InitInv, InitReads, InitDecode DEF ReadInv
<1> QED
  BY <1>1, <1>2, ReadStep, DecodeStep, PTL DEF Spec
=============================================================================
