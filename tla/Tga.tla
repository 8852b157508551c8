---------------------------------- MODULE Tga ----------------------------------
(***************************************************************************)
(* Reading a TGA picture (src/src/frame/tga.rs): TgaParser::new reads the   *)
(* header and goes to the pixels, Iterator::next of Raw and Compressed      *)
(* hands them out one by one.  The parser keeps bytes it has read ahead; a  *)
(* colour map is looked up by seeking away from the pixels and back.  The   *)
(* reader is the program's: it may deliver fewer bytes than asked for, and  *)
(* every access may fail.  A colour is the sequence of its four bytes, blue *)
(* first and alpha last.                                                    *)
(***************************************************************************)
EXTENDS Integers, Sequences, FiniteSets, FiniteSetsExt, Functions

CONSTANTS
  Pictures,   \* [head, rest]: the fields of the header and the bytes after it
  BufSize,    \* bytes of TgaParser.buf, 255 in the code
  MaxErrors   \* bound: failing accesses

ASSUME BufferAssumption == BufSize \in Nat /\ BufSize >= 4
ASSUME ErrorsAssumption == MaxErrors \in Nat
\* A picture without columns would have points outside of it.
ASSUME PicturesAssumption ==
  \A p \in Pictures : /\ p.head.width \in Nat /\ p.head.height \in Nat
                      /\ p.head.height > 0 => p.head.width > 0

VARIABLES
  pic,     \* the file the reader reads
  state,   \* "new", "open", "ended" (None) or the error of TgaParser::new
  rd,      \* position of the reader
  buf,     \* TgaParser.buf up to avail
  pos,     \* TgaParser.pos
  cache,   \* ColorMap's last and index, {} or {[index, last]}
  point,   \* pos of the iterator
  cur,     \* Compressed.cur
  skip,    \* Compressed.skip
  count,   \* Compressed.count
  call,    \* the running next(), see Calls
  out,     \* history: the pixels handed out
  errors,  \* history: failed accesses
  cut      \* history: an entry of the colour map came in part

file == <<pic, rd>>
ahead == <<buf, pos>>
packet == <<cur, skip, count>>
history == <<out, errors, cut>>
vars == <<file, state, ahead, cache, point, packet, call, history>>

-----------------------------------------------------------------------------
(* The header.                                                             *)

HeaderSize == 18
\* A file is a sequence of bytes.  Those of the header are known by the fields
\* alone, so its colour map is not looked for inside of it.
ASSUME FilesAssumption ==
  \A p \in Pictures :
    /\ p.rest \in Seq(0..255)
    /\ {p.head.bits, p.head.id, p.head.first, p.head.len, p.head.entry} \subseteq Nat
    /\ p.head.first = 0 \/ p.head.first >= HeaderSize
Size(p) == HeaderSize + Len(p.rest)
\* n bytes of the file from position i.
Bytes(p, i, n) == SubSeq(p.rest, i + 1 - HeaderSize, i + n - HeaderSize)
\* read_u8, read_u16, u24 and read_u32: the bytes with zeros above them.
Word(b) == [k \in 1..4 |-> IF k <= Len(b) THEN b[k] ELSE 0]
Low16(c) == c[1] + 256 * c[2]

\* Header::new and ColorMap::new: the checks in their order.
Verdict(h) ==
  IF h.bits \notin {8, 16, 24, 32} THEN "InvalidImage"
  ELSE IF h.kind = 0 THEN "NotTGA"
  ELSE IF h.kind \notin {1, 2, 3, 8, 9, 10, 11} THEN "InvalidType"
  ELSE IF h.map \notin {0, 1} THEN "InvalidColorMap"
  ELSE "open"

HasMap(h) == h.map = 1 /\ h.len > 0
MapStart(h) == IF h.first = 0 THEN HeaderSize + h.id ELSE h.first
EntrySize(h) == h.entry \div 8
PixelSize(h) == h.bits \div 8
\* Header::image_start, or where the reader is after the header and its text.
Start(h) == IF HasMap(h) THEN MapStart(h) + ((h.len * EntrySize(h)) % 65536)
            ELSE HeaderSize + h.id

\* attrs: a compressed picture has no kind of colour, its low bits being others.
Shade(h) == IF h.kind >= 8 THEN "none" ELSE <<"mapped", "true", "gray">>[h.kind]
IsCompressed(h) == h.kind >= 8
IsFlipped(h) == h.origin < 2

(* Points.                                                                 *)

FirstPoint(h) == [x |-> 0, y |-> IF IsFlipped(h) /\ h.height > 0 THEN h.height - 1 ELSE 0]
HasPoint(h, p) == p.y >= 0 /\ p.y < h.height
\* Mutant: the row ends one point late.
NextPointLate(h, p) ==
  IF p.x < h.width THEN [p EXCEPT !.x = p.x + 1]
  ELSE [x |-> 0, y |-> IF IsFlipped(h) THEN p.y - 1 ELSE p.y + 1]

\* Point::next
NextPoint(h, p) ==
  IF p.x + 1 < h.width THEN [p EXCEPT !.x = p.x + 1]
  ELSE [x |-> 0, y |-> IF IsFlipped(h) THEN p.y - 1 ELSE p.y + 1]

(* Colours.                                                                *)

\* TgaParser::map after the look-up.
Expand(h, c) ==
  IF Shade(h) = "none" THEN c
  ELSE IF h.bits = 8 /\ Shade(h) = "gray" THEN <<c[1], c[1], c[1], 255>>
  ELSE IF h.bits = 16 THEN
    <<IF c[2] >= 128 THEN 255 ELSE c[1] % 32,
      (Low16(c) \div 32) % 32, (Low16(c) \div 1024) % 32, 0>>
  ELSE IF h.bits = 24 THEN [c EXCEPT ![4] = 255]
  ELSE c

\* TgaParser::fix
Fix(h, c) == IF c[4] = 0 /\ h.alpha = 0 THEN [c EXCEPT ![4] = 255] ELSE c

-----------------------------------------------------------------------------
(* A call of next: at is where it is; it wants a number of bytes for a use; *)
(* val is a value to be mapped, as often as maps says; home is the position *)
(* the reader returns to and got the entry it has read.                     *)
Idle == [at |-> "idle", want |-> 0, use |-> "none", val |-> Word(<<>>), maps |-> 0,
         home |-> 0, got |-> <<>>, point |-> [x |-> 0, y |-> 0]]

Init ==
  /\ pic \in Pictures
  /\ state = "new" /\ rd = 0
  /\ buf = <<>> /\ pos = 0 /\ cache = {}
  /\ point = [x |-> 0, y |-> 0]
  /\ cur = Word(<<>>) /\ skip = 0 /\ count = 0
  /\ call = Idle
  /\ out = <<>> /\ errors = 0 /\ cut = FALSE

\* TgaParser::new and into_iter
Open ==
  /\ state = "new"
  /\ state' = Verdict(pic.head)
  /\ rd' = IF state' = "open" THEN Start(pic.head) ELSE rd
  /\ point' = IF state' = "open" THEN FirstPoint(pic.head) ELSE point
  /\ UNCHANGED <<pic, ahead, cache, packet, call, history>>

\* read_exact or a seek of TgaParser::new fails.
OpenFails ==
  /\ state = "new" /\ errors < MaxErrors
  /\ state' = "Io" /\ errors' = errors + 1
  /\ UNCHANGED <<file, ahead, cache, point, packet, call, out, cut>>

\* The bytes read() asks refill for, and a value that map() is called with.
Ask(c, n, use) == [c EXCEPT !.at = "read", !.want = n, !.use = use]
Map(c, v, times) == [c EXCEPT !.at = "map", !.val = v, !.maps = times]
NextValue(c, use) == Ask(c, PixelSize(pic.head), use)

\* The end of the pixels, or what decompress() does first.
NextOf ==
  /\ state = "open" /\ call.at = "idle"
  /\ IF ~HasPoint(pic.head, point)
     THEN state' = "ended" /\ UNCHANGED <<point, packet, call>>
     ELSE /\ point' = NextPoint(pic.head, point)
          /\ LET c == [Idle EXCEPT !.point = point]
             IN \/ /\ ~IsCompressed(pic.head)
                   /\ call' = NextValue(c, "pixel") /\ UNCHANGED packet
                \/ /\ IsCompressed(pic.head) /\ count > 0
                   /\ count' = count - 1 /\ call' = Map(c, cur, 1)
                   /\ UNCHANGED <<cur, skip>>
                \/ /\ IsCompressed(pic.head) /\ count = 0 /\ skip > 0
                   /\ skip' = skip - 1 /\ call' = NextValue(c, "copy")
                   /\ UNCHANGED <<cur, count>>
                \/ /\ IsCompressed(pic.head) /\ count = 0 /\ skip = 0
                   /\ call' = Ask(c, 1, "packet") /\ UNCHANGED packet
          /\ UNCHANGED state
  /\ UNCHANGED <<file, ahead, cache, history>>

\* refill: what is left moves to the front, and the reader adds n bytes.
Short == call.at = "read" /\ Len(buf) - pos < call.want
Left == Max({0, Size(pic) - rd})
Fits == Min({BufSize - (Len(buf) - pos), Left})
Refill ==
  /\ Short
  /\ \E n \in 1..Fits :
       /\ buf' = SubSeq(buf, pos + 1, Len(buf)) \o Bytes(pic, rd, n)
       /\ rd' = rd + n
  /\ pos' = 0
  /\ UNCHANGED <<pic, state, cache, point, packet, call, history>>

\* Mutant: a read of nothing does not leave the loop of refill.
RefillEmptyAgain ==
  /\ Short /\ Left = 0
  /\ buf' = SubSeq(buf, pos + 1, Len(buf)) /\ pos' = 0
  /\ UNCHANGED <<file, state, cache, point, packet, call, history>>

\* The file ends before the value: Empty, which next() turns into None.
RefillEmpty ==
  /\ Short /\ Left = 0
  /\ buf' = SubSeq(buf, pos + 1, Len(buf)) /\ pos' = 0
  /\ state' = "ended" /\ call' = Idle
  /\ UNCHANGED <<file, cache, point, packet, history>>

\* The reader fails, with or without having gone on.
RefillFails ==
  /\ Short /\ errors < MaxErrors
  /\ buf' = SubSeq(buf, pos + 1, Len(buf)) /\ pos' = 0
  /\ \E n \in 0..Fits : rd' = rd + n
  /\ call' = Idle /\ errors' = errors + 1
  /\ UNCHANGED <<pic, state, cache, point, packet, out, cut>>

\* read() has its bytes: a value to map, or the head or the value of a packet.
Value == SubSeq(buf, pos + 1, pos + call.want)
Take ==
  /\ call.at = "read" /\ ~Short
  /\ pos' = pos + call.want
  /\ \/ /\ call.use = "pixel" /\ call' = Map(call, Word(Value), 1)
        /\ UNCHANGED packet
     \/ /\ call.use = "copy" /\ call' = Map(call, Word(Value), 2)
        /\ UNCHANGED packet
     \/ /\ call.use = "packet" /\ Value[1] >= 128
        /\ count' = Value[1] - 127 /\ call' = NextValue(call, "run")
        /\ UNCHANGED <<cur, skip>>
     \/ /\ call.use = "packet" /\ Value[1] < 128
        /\ skip' = Value[1] /\ call' = NextValue(call, "copy")
        /\ UNCHANGED <<cur, count>>
     \/ /\ call.use = "run"
        /\ cur' = Word(Value) /\ count' = count - 1 /\ call' = Map(call, cur', 1)
        /\ UNCHANGED skip
  /\ UNCHANGED <<file, state, buf, cache, point, history>>

\* map() is done with colour c: once more for a copied value, or the pixel.
Mapped(c) ==
  LET e == Expand(pic.head, c)
  IN IF call.maps > 1
     THEN call' = Map(call, e, call.maps - 1) /\ UNCHANGED out
     ELSE /\ call' = Idle
          /\ out' = Append(out, [at |-> call.point, color |-> Fix(pic.head, e)])

\* Mutant: the colour looked up last is used for every index.
CachedAny(v) == cache

\* ColorMap::index without a look at the file, and where it looks otherwise.
Cached(v) == {e \in cache : e.index = Low16(v)}
Beyond(h, v) ==
  \/ Low16(v) >= h.len
  \/ (v[3] # 0 \/ v[4] # 0) /\ EntrySize(h) > 0
  \/ Low16(v) * EntrySize(h) > 65535
Known(v) == ~HasMap(pic.head) \/ Cached(v) # {} \/ Beyond(pic.head, v)

MapKnown ==
  /\ call.at = "map" /\ Known(call.val)
  /\ LET hit == {e.last : e \in {e \in Cached(call.val) : HasMap(pic.head)}}
     IN Mapped(IF hit = {} THEN call.val ELSE CHOOSE c \in hit : TRUE)
  /\ UNCHANGED <<file, state, ahead, cache, point, packet, errors, cut>>

MapSeek ==
  /\ call.at = "map" /\ ~Known(call.val)
  /\ rd' = MapStart(pic.head) + Low16(call.val) * EntrySize(pic.head)
  /\ call' = [call EXCEPT !.at = "entry", !.home = rd]
  /\ UNCHANGED <<pic, state, ahead, cache, point, packet, history>>

\* One read of up to four bytes, whatever the size of an entry is.
MapRead ==
  /\ call.at = "entry"
  /\ LET all == Min({4, Left})
     IN \E n \in Min({1, all})..all :
          /\ call' = [call EXCEPT !.at = "back", !.got = Bytes(pic, rd, n)]
          /\ rd' = rd + n
          /\ cut' = (cut \/ n < Min({all, EntrySize(pic.head)}))
  /\ UNCHANGED <<pic, state, ahead, cache, point, packet, out, errors>>

\* Mutant: the reader is not moved back to the pixels.
MapBackStays ==
  /\ call.at = "back"
  /\ LET b == EntrySize(pic.head)
         c == Word(SubSeq(call.got, 1, b))
     IN IF b \in 1..4 /\ Len(call.got) >= b
        THEN cache' = {[index |-> Low16(call.val), last |-> c]} /\ Mapped(c)
        ELSE UNCHANGED cache /\ Mapped(call.val)
  /\ UNCHANGED <<file, state, ahead, point, packet, errors, cut>>

\* The seek back; with too few bytes the value stands for itself.
MapBack ==
  /\ call.at = "back"
  /\ rd' = call.home
  /\ LET b == EntrySize(pic.head)
         c == Word(SubSeq(call.got, 1, b))
     IN IF b \in 1..4 /\ Len(call.got) >= b
        THEN cache' = {[index |-> Low16(call.val), last |-> c]} /\ Mapped(c)
        ELSE UNCHANGED cache /\ Mapped(call.val)
  /\ UNCHANGED <<pic, state, ahead, point, packet, errors, cut>>

\* A seek or the read of index() fails: the reader stays where it is.
MapFails ==
  /\ \/ call.at = "map" /\ ~Known(call.val)
     \/ call.at \in {"entry", "back"}
  /\ errors < MaxErrors
  /\ call' = Idle /\ errors' = errors + 1
  /\ UNCHANGED <<file, state, ahead, cache, point, packet, out, cut>>

Step ==
  \/ NextOf \/ Refill \/ RefillEmpty \/ Take
  \/ MapKnown \/ MapSeek \/ MapRead \/ MapBack
Fault == OpenFails \/ RefillFails \/ MapFails
Next == Open \/ Step \/ Fault

Spec == Init /\ [][Next]_vars
\* A program that asks for pixels until there are no more.
FairSpec == Spec /\ WF_vars(Open) /\ WF_vars(Step)

-----------------------------------------------------------------------------
(* Properties.                                                             *)

\* What the TGA format says a file holds.  The number of its bytes from position
\* i on, the value there, and n values one behind the other.
Behind(p, i) == Max({0, Size(p) - i})
ValueAt(p, i) == Word(Bytes(p, i, PixelSize(p.head)))
Row(p, i, n) == [k \in 1..n |-> ValueAt(p, i + (k - 1) * PixelSize(p.head))]

\* A packet is one value for n pixels or n values.  Behind it, f gives the values
\* of a number of bytes at the end of the file; a packet may be cut there.
Runs(p, f, i, n) ==
  LET b == PixelSize(p.head)
  IN IF Behind(p, i) < b THEN <<>>
     ELSE [k \in 1..n |-> ValueAt(p, i)] \o f[Behind(p, i + b)]
Copies(p, f, i, n) ==
  LET b == PixelSize(p.head)
      all == Behind(p, i) \div b
  IN IF n > all THEN Row(p, i, all) ELSE Row(p, i, n) \o f[Behind(p, i + n * b)]
Unpacked(p, f, n) ==
  LET i == Size(p) - n
      head == Bytes(p, i, 1)[1]
  IN IF n = 0 THEN <<>>
     ELSE IF head >= 128 THEN Runs(p, f, i + 1, head - 127)
     ELSE Copies(p, f, i + 1, head + 1)
Packed(p) == LET f[n \in 0..Len(p.rest)] == Unpacked(p, f, n) IN f

Values(p) ==
  LET i == Start(p.head)
  IN IF IsCompressed(p.head) THEN Packed(p)[Behind(p, i)]
     ELSE Row(p, i, Behind(p, i) \div PixelSize(p.head))

\* The colour of a value: kinds 1, 2, 3 are mapped, true and gray, and those
\* from 9 on the same compressed.  One of three bytes has no transparency.
Entry(p, k) == Word(Bytes(p, MapStart(p.head) + k * EntrySize(p.head), EntrySize(p.head)))
Color(p, v) ==
  LET h == p.head
      opaque == IF h.kind % 8 = 1 THEN EntrySize(h) = 3 ELSE h.bits = 24
      c == CASE h.kind % 8 = 1 -> Entry(p, v[1])
             [] h.kind % 8 = 3 -> <<v[1], v[1], v[1], 255>>
             [] OTHER -> v
  IN IF opaque THEN [c EXCEPT ![4] = 255] ELSE Fix(h, c)

\* The pixels of a file in its order: rows from the left, the first row being
\* the lowest one of a flipped picture.
PointAt(h, k) ==
  LET row == (k - 1) \div h.width
  IN [x |-> (k - 1) % h.width, y |-> IF IsFlipped(h) THEN h.height - 1 - row ELSE row]
Pixels(p) ==
  LET h == p.head
      v == Values(p)
  IN [k \in 1..Min({h.width * h.height, Len(v)}) |->
        [at |-> PointAt(h, k), color |-> Color(p, v[k])]]

\* The kinds of file the parser reads as the format says; see the README for
\* the others.
Plain(p) ==
  LET h == p.head
      mapped == /\ HasMap(h) /\ h.bits = 8 /\ h.first = 0
                /\ EntrySize(h) = 4 \/ (EntrySize(h) = 3 /\ h.alpha = 0)
                /\ h.len * EntrySize(h) < 65536
                /\ \A v \in Range(Values(p)) : v[1] < h.len
  IN CASE h.kind = 1 -> mapped
       [] h.kind = 9 -> mapped /\ \A k \in 0..(h.len - 1) : Beyond(h, Entry(p, k))
       [] h.kind = 2 -> ~HasMap(h) /\ h.bits > 16
       [] h.kind = 10 -> ~HasMap(h) /\ (h.bits = 32 \/ (h.bits = 24 /\ h.alpha = 0))
       [] h.kind = 3 -> ~HasMap(h) /\ h.bits = 8
       [] OTHER -> FALSE
Undisturbed == errors = 0 /\ ~cut

(* Consistent: the types, and what makes the reading ahead right: the      *)
(* buffer holds the bytes of the file right before the reader, or before   *)
(* the place it will return to from the colour map (refill, index).        *)
TypeOK ==
  /\ pic \in Pictures
  /\ state \in {"new", "open", "ended", "Io", "InvalidImage", "NotTGA", "InvalidType", "InvalidColorMap"}
  /\ rd \in Nat /\ pos \in 0..Len(buf) /\ Len(buf) <= BufSize
  /\ Cardinality(cache) <= 1
  /\ skip \in 0..127 /\ count \in 0..128
  /\ errors \in 0..MaxErrors
ReadsAhead ==
  state = "open" /\ errors = 0 =>
    LET here == IF call.at \in {"entry", "back"} THEN call.home ELSE rd
    IN Len(buf) > 0 =>
         /\ here - Len(buf) >= HeaderSize /\ here <= Size(pic)
         /\ buf = Bytes(pic, here - Len(buf), Len(buf))
Consistent == TypeOK /\ ReadsAhead

(* However the reader cuts the bytes, and wherever rows, packets and the   *)
(* buffer end, the pixels handed out are those of the file, and at the end *)
(* they are all of them (the iterators of Raw and Compressed).             *)
DecodesPicture ==
  Plain(pic) /\ Undisturbed /\ state \in {"open", "ended"} =>
    LET all == Pixels(pic)
    IN /\ Len(out) <= Len(all) /\ out = SubSeq(all, 1, Len(out))
       /\ state = "ended" => Len(out) = Len(all)

(* Whatever fails, a point is handed out once, inside the picture and in   *)
(* the order of its rows (Point::next), so a program draws no pixel twice. *)
Before(h, p, q) ==
  \/ IF IsFlipped(h) THEN q.y < p.y ELSE p.y < q.y
  \/ p.y = q.y /\ p.x < q.x
PointsInOrder ==
  \A k \in DOMAIN out :
    /\ out[k].at.x \in 0..(pic.head.width - 1)
    /\ out[k].at.y \in 0..(pic.head.height - 1)
    /\ k > 1 => Before(pic.head, out[k - 1].at, out[k].at)

(* A program that keeps asking comes to the end, also of a file that stops *)
(* early (refill, decompress).                                             *)
PictureEnds == state = "open" ~> state = "ended"
=============================================================================
