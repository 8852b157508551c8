----------------------------- MODULE Screen_proofs -----------------------------
(***************************************************************************)
(* The buffer holds what was drawn and the panel shows it when an update   *)
(* returns, for every panel of a width of whole bytes, every coordinate,   *)
(* any number of handles and of calls.                                     *)
(***************************************************************************)
EXTENDS Screen, FiniteSetTheorems, TLAPS

\* The coordinates survive the conversion to 16 bits (frame.rs 295).
Fitting == \A i \in Span : i < U16

\* The handles that claim the static buffer.
Claims == making \union owners

\* One of them at most, and the lock says so.
MemoryInv ==
  /\ making \intersect owners = {}
  /\ lock <=> Claims # {}
  /\ \E h : Claims \subseteq {h}

\* What a call has left is the end of its operations.
OpsOf ==
  CASE call = "update" -> Update
    [] call = "update_async" -> UpdateAsync
    [] call = "off" -> Off
    [] call = "refresh" -> Refresh
    [] call = "sleep" -> Sleep
    [] OTHER -> <<>>
Left == Len(todo)
ScriptInv ==
  /\ call \in {"none", "draw", "update", "update_async", "off", "refresh", "sleep"}
  /\ Left <= Len(OpsOf)
  /\ \A i \in 1..Left : todo[i] = OpsOf[Len(OpsOf) - Left + i]

\* A refresh of the panel is waited for, or off is owed.
RefreshInv ==
  /\ panel.job = "drf" => IF InCall THEN Head(todo) = "wait" ELSE owes
  /\ call = "update_async" /\ InCall => owes

\* How far an update got: by the number of operations it has left.
UpdateInv ==
  call = "update" =>
    /\ Left \in {1, 3, 5, 6, 7, 8} => ~Busy
    /\ Left < 8 => panel.set
    /\ Left < 7 => ram = Image(buf)
    /\ Left = 4 => panel.job = "pon" \/ (~Busy /\ panel.on)
    /\ Left = 3 => panel.on
    /\ Left = 2 => panel.job = "drf" \/ (~Busy /\ shown = Image(buf))
    /\ Left < 2 => shown = Image(buf)
    /\ Left = 0 => panel.job = "pof" \/ (~Busy /\ ~panel.on)

OffInv ==
  call = "off" =>
    /\ Left = 1 => ~Busy
    /\ Left = 0 => panel.job = "pof" \/ (~Busy /\ ~panel.on)

PanelInv == ScriptInv /\ RefreshInv /\ UpdateInv /\ OffInv

-----------------------------------------------------------------------------
(* Where a pixel is.                                                       *)

Points == 0..((W * H) \div 2 - 1)

\* A panel has a width and a height.
LEMMA Shape == W \in Nat \ {0} /\ H \in Nat \ {0}
BY ShapeAssumption

\* Half the width, and the bytes of the buffer.
LEMMA HalfWidth ==
  /\ W \div 2 \in Nat \ {0} /\ W = 2 * (W \div 2)
  /\ (W * H) \div 2 = (W \div 2) * H
<1> DEFINE v == W \div 2
<1>0. \A m \in Nat \ {0} : m % 2 = 0 => m \div 2 \in Nat \ {0} /\ m = 2 * (m \div 2)
  OBVIOUS
<1>1. v \in Nat /\ W = 2 * v /\ v # 0 /\ W \in Nat /\ H \in Nat
  <2>0. W % 2 = 0
    BY ShapeAssumption
  <2>1. W \in Nat \ {0} /\ W % 2 = 0 /\ H \in Nat
    BY Shape, <2>0
  <2> HIDE DEF v
  <2>2. W \div 2 \in Nat \ {0} /\ W = 2 * (W \div 2)
    BY <1>0, <2>1
  <2> QED
    BY <2>1, <2>2 DEF v
<1> HIDE DEF v
<1>2. W * H = 2 * (v * H) /\ v * H \in Nat
  BY <1>1
<1>3. \A m \in Nat : (2 * m) \div 2 = m
  OBVIOUS
<1> QED
  BY <1>1, <1>2, <1>3 DEF v

\* Numbers with digits below b are the same when the digits are.
LEMMA Digits ==
  ASSUME NEW b \in Nat, NEW a \in 0..(b - 1), NEW c \in 0..(b - 1), NEW i \in Nat, NEW j \in Nat,
         a + b * i = c + b * j
  PROVE  a = c /\ i = j
<1>1. ASSUME NEW x \in 0..(b - 1), NEW y \in 0..(b - 1), NEW k \in Nat, NEW m \in Nat, k < m
      PROVE  x + b * k < y + b * m
  <2>1. b * (k + 1) <= b * m
    BY <1>1
  <2>2. b * (k + 1) = b * k + b /\ b * k \in Nat /\ b * m \in Nat
    OBVIOUS
  <2> QED
    BY <2>1, <2>2
<1>2. ~(i < j) /\ ~(j < i)
  BY <1>1
<1>3. i = j
  BY <1>2
<1>4. b * i = b * j /\ b * i \in Nat
  BY <1>3
<1> QED
  BY <1>3, <1>4

\* Every place has a byte of the buffer, and no two places have the same half of it.
LEMMA ByteInBuffer == ASSUME NEW p \in Places PROVE Byte(p) \in Points
<1> DEFINE v == W \div 2
           a == p[1] \div 2
           b == p[2]
<1>1. v \in Nat \ {0} /\ W = 2 * v /\ (W * H) \div 2 = v * H
  BY HalfWidth
<1>2. p[1] \in 0..(W - 1) /\ b \in 0..(H - 1) /\ H \in Nat
  BY Shape DEF Places
<1>3. a \in 0..(v - 1)
  BY <1>1, <1>2
<1> HIDE DEF a, b, v
<1>4. v * b <= v * (H - 1) /\ v * (H - 1) = v * H - v /\ v * b \in Nat /\ v * H \in Nat
  BY <1>1, <1>2
<1>5. a + v * b \in 0..(v * H - 1)
  BY <1>1, <1>3, <1>4
<1> QED
  BY <1>1, <1>5 DEF Byte, Points, a, b, v

\* Two pixels in the same half of the same byte are the same pixel.
LEMMA HalvesApart ==
  ASSUME NEW p \in Places, NEW q \in Places, Byte(p) = Byte(q), IsHigh(p) <=> IsHigh(q)
  PROVE  p = q
<1> DEFINE v == W \div 2
<1>1. v \in Nat \ {0} /\ W = 2 * v
  BY HalfWidth
<1>2. /\ p[1] \in 0..(W - 1) /\ p[2] \in 0..(H - 1) /\ p = <<p[1], p[2]>>
      /\ q[1] \in 0..(W - 1) /\ q[2] \in 0..(H - 1) /\ q = <<q[1], q[2]>> /\ H \in Nat
  BY Shape DEF Places
<1>3. p[1] \div 2 \in 0..(v - 1) /\ q[1] \div 2 \in 0..(v - 1)
  BY <1>1, <1>2
<1>4. p[1] \div 2 + v * p[2] = q[1] \div 2 + v * q[2]
  BY DEF Byte
<1> HIDE DEF v
<1>5. p[1] \div 2 = q[1] \div 2 /\ p[2] = q[2]
  BY <1>1, <1>2, <1>3, <1>4, Digits
<1>6. p[1] % 2 = q[1] % 2
  BY <1>2 DEF IsHigh
<1>7. p[1] = q[1]
  BY <1>2, <1>5, <1>6
<1> QED
  BY <1>2, <1>5, <1>7

\* The bounds of the code are those of the picture, and its rotation is the number
\* of quarter turns.
LEMMA RotatedIsTurned ==
  ASSUME rot \in 0..3, NEW x \in Nat, NEW y \in Nat
  PROVE  /\ InBounds(x, y) <=> Inside(x, y)
         /\ Inside(x, y) => Rotated(x, y) = PlaceOf(x, y) /\ Rotated(x, y) \in Places
<1>0. W \in Nat /\ H \in Nat
  BY Shape
<1>1. CASE rot = 0
  BY <1>0, <1>1 DEF InBounds, Inside, Wide, Tall, Rotated, PlaceOf, Places
<1>2. CASE rot = 1
  BY <1>0, <1>2 DEF InBounds, Inside, Wide, Tall, Rotated, PlaceOf, Places, Turn
<1>3. CASE rot = 2
  BY <1>0, <1>3 DEF InBounds, Inside, Wide, Tall, Rotated, PlaceOf, Places, Turn
<1>4. CASE rot = 3
  BY <1>0, <1>4 DEF InBounds, Inside, Wide, Tall, Rotated, PlaceOf, Places, Turn
<1> QED
  BY <1>1, <1>2, <1>3, <1>4

\* The buffer is the image of its places.
LEMMA PutChangesOnePixel ==
  ASSUME TypeOK, NEW x \in Nat, NEW y \in Nat, NEW c \in Halves, Put(x, y, c)
  PROVE  /\ buf' \in [Points -> Halves \X Halves]
         /\ Image(buf') = IF Inside(x, y) THEN [Image(buf) EXCEPT ![PlaceOf(x, y)] = c] ELSE Image(buf)
<1> DEFINE p == Rotated(x, y)
           i == Byte(p)
           w == IF IsHigh(p) THEN <<c, buf[i][2]>> ELSE <<buf[i][1], c>>
<1>1. buf \in [Points -> Halves \X Halves] /\ rot \in 0..3
  BY DEF TypeOK, Points
<1>2. CASE ~Inside(x, y)
  BY <1>1, <1>2, RotatedIsTurned DEF Put
<1>3. CASE Inside(x, y)
  <2>1. InBounds(x, y) /\ p = PlaceOf(x, y) /\ p \in Places
    BY <1>1, <1>3, RotatedIsTurned
  <2>2. i \in Points
    BY <2>1, ByteInBuffer
  <2>3. buf' = [buf EXCEPT ![i] = w]
    BY <1>1, <2>1, <2>2 DEF Put
  <2>4. w \in Halves \X Halves
    BY <1>1, <2>2
  <2>5. buf' \in [Points -> Halves \X Halves]
    BY <1>1, <2>2, <2>3, <2>4
  <2>6. ASSUME NEW q \in Places
        PROVE  Image(buf')[q] = IF q = p THEN c ELSE Image(buf)[q]
    <3>1. Byte(q) \in Points
      BY ByteInBuffer
    <3>2. CASE Byte(q) # i
      BY <1>1, <2>1, <2>2, <2>3, <3>1, <3>2 DEF Image
    <3>3. CASE Byte(q) = i
      <4>1. buf'[i] = w
        BY <1>1, <2>2, <2>3
      <4>2. q = p <=> (IsHigh(q) <=> IsHigh(p))
        BY <2>1, <3>3, HalvesApart
      <4>3. w = IF IsHigh(p) THEN <<c, buf[i][2]>> ELSE <<buf[i][1], c>>
        OBVIOUS
      <4> HIDE DEF w, i, p
      <4> QED
        BY <3>3, <4>1, <4>2, <4>3 DEF Image
    <3> QED
      BY <3>2, <3>3
  <2>7. Image(buf') = [Image(buf) EXCEPT ![p] = c]
    <3> HIDE DEF p
    <3> QED
      BY <2>1, <2>6 DEF Image
  <2> QED
    BY <1>3, <2>1, <2>5, <2>7
<1> QED
  BY <1>2, <1>3

-----------------------------------------------------------------------------
(* The owner of the static buffer.                                         *)

\* The steps that do not touch the memory.
Elsewhere ==
  \/ SetPixel \/ SetImage \/ SetFill \/ SetRotation
  \/ CallUpdate \/ CallClear \/ CallAsync \/ CallOff \/ CallRefresh \/ CallSleep
  \/ Driver \/ PanelDone

\* Drawing and updating leave the claims on the static memory alone.
LEMMA ElsewhereKeepsMemory == ASSUME Elsewhere PROVE UNCHANGED memory
BY DEF Elsewhere, SetPixel, SetImage, SetFill, SetRotation, Draw, CallUpdate, CallClear, CallAsync,
       CallOff, CallRefresh, CallSleep, Invoke, Driver, Wait, Reset, Command, PanelDone

\* At first nobody has claimed the memory.
LEMMA MemoryInit == Init => MemoryInv
BY DEF Init, MemoryInv, Claims

\* A claim finds no other, and whoever gives its claim up was the only one.
LEMMA MemoryStep == MemoryInv /\ [Next]_vars => MemoryInv'
<1> SUFFICES ASSUME MemoryInv, [Next]_vars PROVE MemoryInv'
  OBVIOUS
<1>1. ASSUME NEW h \in Handles, Claim(h) PROVE MemoryInv'
  BY <1>1 DEF Claim, MemoryInv, Claims
<1>2. ASSUME NEW h \in Handles, Made(h) PROVE MemoryInv'
  BY <1>2 DEF Made, MemoryInv, Claims
<1>3. ASSUME NEW h \in Handles, MakeFails(h) PROVE MemoryInv'
  BY <1>3 DEF MakeFails, MemoryInv, Claims
<1>4. ASSUME NEW h \in Handles, DropInky(h) PROVE MemoryInv'
  BY <1>4 DEF DropInky, MemoryInv, Claims
<1>5. CASE Elsewhere \/ UNCHANGED vars
  BY <1>5, ElsewhereKeepsMemory DEF MemoryInv, Claims, memory, vars
<1> QED
  BY <1>1, <1>2, <1>3, <1>4, <1>5 DEF Next, Elsewhere

\* The claims on the static memory are right in every state.
LEMMA MemoryInvariant == Spec => []MemoryInv
BY MemoryInit, MemoryStep, PTL DEF Spec

\* One owner, as the number of handles says it.
LEMMA OneOwnerFromMemory == MemoryInv => OneOwner
<1> SUFFICES ASSUME MemoryInv PROVE Cardinality(Claims) <= 1
  BY DEF MemoryInv, OneOwner, Claims
<1>1. PICK h : Claims \subseteq {h}
  BY DEF MemoryInv
<1>2. IsFiniteSet({h}) /\ Cardinality({h}) = 1
  BY FS_Singleton
<1> QED
  BY <1>1, <1>2, FS_Subset

\* The static buffer has one owner at most and the spinlock says whether it has
\* one, whatever creations fail and whichever handle is dropped (frame.rs 412-441).
THEOREM MemoryOwnedOnce == Spec => []OneOwner
BY MemoryInvariant, OneOwnerFromMemory, PTL

-----------------------------------------------------------------------------
(* Types and the picture.                                                  *)

Ops == Commands \union {"wait", "reset"}
Jobs == {"none", "reset", "pon", "drf", "pof"}
Pictures == [Places -> Halves]
PictureInv == TypeOK /\ (Fitting => BufferIsPicture)

\* The halves of a byte hold what the buffer begins with.
LEMMA HalvesHold == Junk \in Halves /\ White \in Halves /\ 0 \in Halves
BY DEF Halves

\* The buffer always shows a picture.
LEMMA ImageType == ASSUME NEW b \in [Points -> Halves \X Halves] PROVE Image(b) \in Pictures
BY ByteInBuffer DEF Image, Pictures

\* What a byte with a colour in its low half shows.
LEMMA ImageOfStripes ==
  ASSUME NEW c PROVE Image([i \in Points |-> <<0, c>>]) = Stripes(c)
BY ByteInBuffer DEF Image, Stripes, IsHigh

\* What a byte of two equal halves shows.
LEMMA ImageOfFill ==
  ASSUME NEW c PROVE Image([i \in Points |-> <<c, c>>]) = [p \in Places |-> c]
BY ByteInBuffer DEF Image

\* A sequence made of two others.
LEMMA Joined ==
  ASSUME NEW S, NEW s \in Seq(S), NEW t \in Seq(S), NEW u \in Seq(S), Len(u) = Len(s) + Len(t),
         \A i \in 1..Len(s) : u[i] = s[i], \A i \in 1..Len(t) : u[Len(s) + i] = t[i]
  PROVE  s \o t = u
OBVIOUS

\* A script that begins by setting the panel up.
LEMMA AfterSetup ==
  ASSUME NEW t \in Seq(Ops), NEW u \in Seq(Ops), Len(u) = Len(t) + 3,
         u[1] = "reset", u[2] = "wait", u[3] = "config", \A i \in 1..Len(t) : u[i + 3] = t[i]
  PROVE  Setup \o t = u
<1>1. Setup \in Seq(Ops) /\ Len(Setup) = 3 /\ \A i \in 1..3 : u[i] = Setup[i]
  BY DEF Setup, Ops, Commands
<1>2. /\ Len(u) = Len(Setup) + Len(t)
      /\ \A i \in 1..Len(Setup) : u[i] = Setup[i]
      /\ \A i \in 1..Len(t) : u[Len(Setup) + i] = t[i]
  BY <1>1
<1> QED
  BY <1>1, <1>2, Joined

\* The calls on the panel as lists of their operations.
UpdateOps  == <<"reset", "wait", "config", "data", "wait", "pon", "wait", "drf", "wait", "pof">>
AsyncOps   == <<"reset", "wait", "config", "data", "wait", "pon", "wait", "drf">>
RefreshOps == <<"reset", "wait", "config", "pon", "wait", "drf", "wait">>

\* The scripts of the panel, written out.
LEMMA Scripts == Update = UpdateOps /\ UpdateAsync = AsyncOps /\ Refresh = RefreshOps
<1>1. Update = UpdateOps
  <2> DEFINE t == <<"data", "wait", "pon", "wait", "drf", "wait", "pof">>
             u == UpdateOps
  <2>1. /\ t \in Seq(Ops) /\ u \in Seq(Ops) /\ Len(u) = Len(t) + 3
        /\ u[1] = "reset" /\ u[2] = "wait" /\ u[3] = "config"
    BY DEF Ops, Commands, UpdateOps
  <2>2. \A i \in 1..Len(t) : u[i + 3] = t[i]
    BY DEF UpdateOps
  <2>3. Update = Setup \o t
    BY Zenon DEF Update
  <2> HIDE DEF t, u
  <2>4. Setup \o t = u
    BY <2>1, <2>2, AfterSetup
  <2> QED
    BY <2>3, <2>4 DEF u
<1>2. UpdateAsync = AsyncOps
  <2> DEFINE t == <<"data", "wait", "pon", "wait", "drf">>
             u == AsyncOps
  <2>1. /\ t \in Seq(Ops) /\ u \in Seq(Ops) /\ Len(u) = Len(t) + 3
        /\ u[1] = "reset" /\ u[2] = "wait" /\ u[3] = "config"
    BY DEF Ops, Commands, AsyncOps
  <2>2. \A i \in 1..Len(t) : u[i + 3] = t[i]
    BY DEF AsyncOps
  <2>3. UpdateAsync = Setup \o t
    BY Zenon DEF UpdateAsync
  <2> HIDE DEF t, u
  <2>4. Setup \o t = u
    BY <2>1, <2>2, AfterSetup
  <2> QED
    BY <2>3, <2>4 DEF u
<1>3. Refresh = RefreshOps
  <2> DEFINE t == <<"pon", "wait", "drf", "wait">>
             u == RefreshOps
  <2>1. /\ t \in Seq(Ops) /\ u \in Seq(Ops) /\ Len(u) = Len(t) + 3
        /\ u[1] = "reset" /\ u[2] = "wait" /\ u[3] = "config"
    BY DEF Ops, Commands, RefreshOps
  <2>2. \A i \in 1..Len(t) : u[i + 3] = t[i]
    BY DEF RefreshOps
  <2>3. Refresh = Setup \o t
    BY Zenon DEF Refresh
  <2> HIDE DEF t, u
  <2>4. Setup \o t = u
    BY <2>1, <2>2, AfterSetup
  <2> QED
    BY <2>3, <2>4 DEF u
<1> QED
  BY <1>1, <1>2, <1>3

\* The scripts of the panel are lists of operations.
LEMMA ScriptTypes == {Update, UpdateAsync, Off, Refresh, Sleep} \subseteq Seq(Ops)
BY Scripts DEF Ops, Commands, UpdateOps, AsyncOps, RefreshOps, Off, Sleep

\* The first buffer shows the picture nobody has drawn on.
LEMMA PictureInit == Init => PictureInv
<1> SUFFICES ASSUME Init PROVE PictureInv
  OBVIOUS
<1>1. buf \in [Points -> Halves \X Halves]
  BY HalvesHold DEF Init, Points
<1>2. Image(buf) \in Pictures
  BY <1>1, ImageType
<1>3. {ram, shown, picture} \subseteq Pictures /\ BufferIsPicture
  BY <1>2 DEF Init, BufferIsPicture
<1>4. lock \in BOOLEAN /\ owes \in BOOLEAN /\ todo = <<>> /\ rot = 0 /\ making = {} /\ owners = {}
  BY Zenon DEF Init
<1>5. panel \in [on : BOOLEAN, job : {"none", "reset", "pon", "drf", "pof"}, set : BOOLEAN]
  BY DEF Init
<1> QED
  BY <1>1, <1>3, <1>4, <1>5 DEF PictureInv, TypeOK, Points, Pictures

\* The steps on the memory leave the picture alone, but the rotation.
LEMMA HandleKeepsPicture ==
  ASSUME PictureInv, NEW h \in Handles, Claim(h) \/ Made(h) \/ MakeFails(h) \/ DropInky(h)
  PROVE  PictureInv'
<1>1. UNCHANGED <<buf, todo, owes, panel, ram, shown, picture>>
  BY DEF Claim, Made, MakeFails, DropInky, glass
<1>2. making' \subseteq Handles /\ owners' \subseteq Handles /\ rot' \in 0..3
  BY DEF PictureInv, TypeOK, Claim, Made, MakeFails, DropInky
<1>3. lock' \in BOOLEAN
  BY Zenon DEF PictureInv, TypeOK, Claim, Made, MakeFails, DropInky
<1> QED
  BY <1>1, <1>2, <1>3 DEF PictureInv, TypeOK, BufferIsPicture

\* Drawing a pixel.
LEMMA PixelKeepsPicture ==
  ASSUME PictureInv, SetPixel \/ SetImage PROVE PictureInv'
<1>1. /\ UNCHANGED <<lock, making, owners, rot, todo, owes, panel, ram, shown>>
      /\ buf \in [Points -> Halves \X Halves] /\ picture \in Pictures /\ TypeOK
      /\ Fitting => Image(buf) = picture
  BY DEF SetPixel, SetImage, Draw, memory, glass, PictureInv, TypeOK, Points, Pictures, BufferIsPicture
<1>2. PICK x \in Span, y \in Span, c \in Colours :
        /\ \/ \E a, b \in Nat : Put(a, b, c) /\ (Fitting => a = x /\ b = y)
           \/ ~(x \in Nat /\ y \in Nat) /\ buf' = buf
        /\ Drawn(x, y, c)
  <2>1. ASSUME SetPixel
        PROVE  \E x \in Span, y \in Span, c \in Colours :
                 x \in Nat /\ y \in Nat /\ Put(x, y, c) /\ Drawn(x, y, c)
    BY <2>1 DEF SetPixel
  <2>2. \A x \in Span : x \in Int /\ (~(x < 0) => x \in Nat /\ x % U16 \in Nat /\ (Fitting => x % U16 = x))
    BY SpanAssumption DEF Fitting, U16
  <2>3. ASSUME SetImage
        PROVE  \E x \in Span, y \in Span, c \in Colours :
                 /\ IF x < 0 \/ y < 0 THEN buf' = buf ELSE Put(x % U16, y % U16, c)
                 /\ Drawn(x, y, c)
    BY <2>3 DEF SetImage
  <2>4. CASE SetPixel
    BY <2>1, <2>4
  <2>5. CASE SetImage
    <3>1. PICK x \in Span, y \in Span, c \in Colours :
            /\ IF x < 0 \/ y < 0 THEN buf' = buf ELSE Put(x % U16, y % U16, c)
            /\ Drawn(x, y, c)
      BY <2>3, <2>5
    <3>2. CASE x < 0 \/ y < 0
      BY <2>2, <3>1, <3>2
    <3>3. CASE ~(x < 0 \/ y < 0)
      BY <2>2, <3>1, <3>3
    <3> QED
      BY <3>2, <3>3
  <2> QED
    BY <2>4, <2>5
<1>3. c \in Halves /\ x \in Int /\ y \in Int
  BY SpanAssumption DEF Halves
<1>4. picture' \in Pictures
  BY <1>1, <1>2, <1>3 DEF Drawn, Pictures
<1>5. ASSUME NEW a \in Nat, NEW b \in Nat, Put(a, b, c), Fitting => a = x /\ b = y PROVE PictureInv'
  <2>1. /\ buf' \in [Points -> Halves \X Halves]
        /\ Image(buf') = IF Inside(a, b) THEN [Image(buf) EXCEPT ![PlaceOf(a, b)] = c] ELSE Image(buf)
    BY <1>1, <1>3, <1>5, PutChangesOnePixel
  <2>2. Fitting => picture' = Image(buf')
    BY <1>1, <1>2, <1>5, <2>1 DEF Drawn
  <2> QED
    BY <1>1, <1>4, <2>1, <2>2 DEF PictureInv, TypeOK, BufferIsPicture, Points, Pictures
<1>6. CASE ~(x \in Nat /\ y \in Nat) /\ buf' = buf
  <2>1. ~Inside(x, y)
    BY <1>3, <1>6, Shape DEF Inside, Wide, Tall
  <2>2. picture' = picture
    BY <1>2, <2>1 DEF Drawn
  <2> QED
    BY <1>1, <1>6, <2>2 DEF PictureInv, TypeOK, BufferIsPicture, Points, Pictures
<1> QED
  BY <1>2, <1>5, <1>6

\* A fill changes the buffer and the picture alike.
LEMMA FillKeepsPicture == ASSUME PictureInv, SetFill PROVE PictureInv'
<1>1. /\ UNCHANGED <<lock, making, owners, rot, todo, owes, panel, ram, shown>>
      /\ DOMAIN buf = Points /\ TypeOK
  BY DEF SetFill, Draw, memory, glass, PictureInv, TypeOK, Points
<1>2. PICK c \in Fills : buf' = [i \in Points |-> <<0, c>>] /\ picture' = Stripes(c)
  BY <1>1 DEF SetFill
<1>3. Image(buf') = picture'
  BY <1>2, ImageOfStripes
<1>4. buf' \in [Points -> Halves \X Halves] /\ picture' \in Pictures
  BY <1>2, HalvesHold DEF Pictures, Halves, Stripes
<1> QED
  BY <1>1, <1>3, <1>4 DEF PictureInv, TypeOK, BufferIsPicture, Points, Pictures

\* A call on the panel leaves the picture alone, or clears it.
LEMMA InvokeKeepsPicture ==
  ASSUME PictureInv, CallUpdate \/ CallClear \/ CallAsync \/ CallOff \/ CallRefresh \/ CallSleep
  PROVE  PictureInv'
<1>1. /\ UNCHANGED <<lock, making, owners, rot, panel, ram, shown>>
      /\ todo' \in Seq(Ops) /\ TypeOK /\ DOMAIN buf = Points
  BY ScriptTypes DEF CallUpdate, CallClear, CallAsync, CallOff, CallRefresh, CallSleep, Invoke,
                     memory, glass, PictureInv, TypeOK, Points
<1>2. owes' \in BOOLEAN
  BY <1>1 DEF CallUpdate, CallClear, CallAsync, CallOff, CallRefresh, CallSleep, TypeOK
<1>3. CASE UNCHANGED <<buf, picture>>
  BY <1>1, <1>2, <1>3 DEF PictureInv, TypeOK, BufferIsPicture, Ops
<1>4. CASE CallClear
  <2>1. buf' = [i \in Points |-> <<White, White>>] /\ picture' = [p \in Places |-> White]
    BY <1>1, <1>4 DEF CallClear
  <2>2. Image(buf') = picture'
    BY <2>1, ImageOfFill
  <2>3. buf' \in [Points -> Halves \X Halves] /\ picture' \in Pictures
    BY <2>1, HalvesHold DEF Pictures
  <2> QED
    BY <1>1, <1>2, <2>2, <2>3 DEF PictureInv, TypeOK, BufferIsPicture, Points, Pictures, Ops
<1> QED
  BY <1>3, <1>4 DEF CallUpdate, CallAsync, CallOff, CallRefresh, CallSleep

\* The operation a call does next.
LEMMA NextOp ==
  ASSUME TypeOK, InCall
  PROVE  /\ Head(todo) \in Ops /\ Tail(todo) \in Seq(Ops) /\ Left \in Nat \ {0}
         /\ Head(todo) = todo[1] /\ Len(Tail(todo)) = Left - 1
         /\ \A i \in 1..(Left - 1) : Tail(todo)[i] = todo[i + 1]
<1>1. todo \in Seq(Ops) /\ todo # <<>>
  BY DEF TypeOK, InCall, Ops
<1> QED
  BY <1>1 DEF Left

\* A panel that changes stays a panel.
PanelTypes == [on : BOOLEAN, job : Jobs, set : BOOLEAN]

\* The panel after a command.
LEMMA CommandPanel ==
  ASSUME TypeOK, NEW cmd, NEW q,
         q = [panel EXCEPT !.job = JobOf(cmd), !.set = @ \/ cmd = "config"]
  PROVE  /\ q \in PanelTypes /\ q.on = panel.on /\ q.job = JobOf(cmd)
         /\ q.set = (panel.set \/ cmd = "config")
         /\ JobOf(cmd) \in {"none", "pon", "drf", "pof"} /\ (JobOf(cmd) = "drf" => cmd = "drf")
<1>1. panel \in PanelTypes
  BY DEF TypeOK, PanelTypes, Jobs
<1>2. JobOf(cmd) \in {"none", "pon", "drf", "pof"} /\ (JobOf(cmd) = "drf" => cmd = "drf")
  BY DEF JobOf
<1>3. (panel.set \/ cmd = "config") \in BOOLEAN
  OBVIOUS
<1> DEFINE j == JobOf(cmd)
           e == (panel.set \/ cmd = "config")
<1>4. q = [panel EXCEPT !.job = j, !.set = e]
  OBVIOUS
<1>5. j \in Jobs /\ e \in BOOLEAN
  BY <1>2 DEF Jobs
<1> HIDE DEF j, e
<1>6. q \in PanelTypes /\ q.on = panel.on /\ q.job = j /\ q.set = e
  BY <1>1, <1>4, <1>5 DEF PanelTypes
<1> QED
  BY <1>2, <1>6 DEF j, e

\* The panel after the job it was busy with.
LEMMA DonePanel ==
  ASSUME TypeOK, NEW q,
         q = [panel EXCEPT !.job = "none",
                           !.on = IF panel.job = "pon" THEN TRUE ELSE @ /\ panel.job # "pof"]
  PROVE  /\ q \in PanelTypes /\ q.job = "none" /\ q.set = panel.set
         /\ panel.job = "pon" => q.on
         /\ panel.job = "pof" => ~q.on
         /\ panel.job \notin {"pon", "pof"} => q.on = panel.on
<1>1. panel \in PanelTypes
  BY DEF TypeOK, PanelTypes, Jobs
<1> DEFINE e == IF panel.job = "pon" THEN TRUE ELSE panel.on /\ panel.job # "pof"
<1>2. q = [panel EXCEPT !.job = "none", !.on = e]
  OBVIOUS
<1>3. e \in BOOLEAN /\ "none" \in Jobs
  BY <1>1 DEF PanelTypes, Jobs
<1>4. /\ panel.job = "pon" => e
      /\ panel.job = "pof" => ~e
      /\ panel.job \notin {"pon", "pof"} => e = panel.on
  BY <1>1 DEF PanelTypes
<1> HIDE DEF e
<1>5. q \in PanelTypes /\ q.job = "none" /\ q.set = panel.set /\ q.on = e
  BY <1>1, <1>2, <1>3 DEF PanelTypes
<1> QED
  BY <1>4, <1>5

\* The driver and the panel leave buffer and picture alone.
LEMMA PanelKeepsPicture == ASSUME PictureInv, Driver \/ PanelDone PROVE PictureInv'
<1>1. UNCHANGED <<lock, making, owners, buf, rot, owes, picture>> /\ TypeOK
  BY DEF Driver, Wait, Reset, Command, PanelDone, memory, PictureInv
<1>2. todo' \in Seq(Ops)
  BY <1>1, NextOp DEF Driver, Wait, Reset, Command, PanelDone, TypeOK, Ops
<1>3. ram' \in Pictures /\ shown' \in Pictures
  <2>1. Image(buf) \in Pictures /\ ram \in Pictures /\ shown \in Pictures
    BY <1>1, ImageType DEF TypeOK, Pictures, Points
  <2> QED
    BY <2>1 DEF Driver, Wait, Reset, Command, PanelDone, glass
<1>4. panel' \in PanelTypes
  <2>1. CASE Reset
    BY <2>1 DEF Reset, PanelTypes, Jobs
  <2>2. CASE Command
    BY <1>1, <2>2, CommandPanel DEF Command, TypeOK, PanelTypes, Jobs
  <2>3. CASE PanelDone
    BY <1>1, <2>3, DonePanel DEF PanelDone
  <2>4. CASE Wait
    BY <1>1, <2>4 DEF Wait, glass, TypeOK, PanelTypes, Jobs
  <2> QED
    BY <2>1, <2>2, <2>3, <2>4 DEF Driver
<1> QED
  BY <1>1, <1>2, <1>3, <1>4 DEF PictureInv, TypeOK, BufferIsPicture, Pictures, PanelTypes, Jobs, Ops

\* Every step keeps the buffer and the picture alike.
LEMMA PictureStep == PictureInv /\ [Next]_vars => PictureInv'
<1> SUFFICES ASSUME PictureInv, [Next]_vars PROVE PictureInv'
  OBVIOUS
<1>1. CASE SetRotation
  BY <1>1 DEF SetRotation, PictureInv, TypeOK, BufferIsPicture, memory, glass
<1>2. CASE UNCHANGED vars
  BY <1>2 DEF vars, PictureInv, TypeOK, BufferIsPicture, memory, glass
<1> QED
  BY <1>1, <1>2, HandleKeepsPicture, PixelKeepsPicture, FillKeepsPicture, InvokeKeepsPicture,
     PanelKeepsPicture DEF Next

-----------------------------------------------------------------------------
(* The panel during a call.                                                *)

\* What a call does next, by what it has left.
LEMMA Heads ==
  ASSUME TypeOK, ScriptInv, InCall
  PROVE  \/ call = "update" /\ Left \in 1..10 /\ Head(todo) = UpdateOps[11 - Left]
         \/ call = "update_async" /\ Left \in 1..8 /\ Head(todo) = AsyncOps[9 - Left]
         \/ call = "refresh" /\ Left \in 1..7 /\ Head(todo) = RefreshOps[8 - Left]
         \/ call = "off" /\ Left \in 1..2 /\ Head(todo) = Off[3 - Left]
         \/ call = "sleep" /\ Left \in 1..2 /\ Head(todo) = Sleep[3 - Left]
<1>1. Left \in Nat \ {0} /\ Head(todo) = todo[1] /\ Left <= Len(OpsOf)
  BY NextOp DEF ScriptInv
<1>2. Head(todo) = OpsOf[Len(OpsOf) - Left + 1]
  BY <1>1 DEF ScriptInv
<1>3. /\ Len(UpdateOps) = 10 /\ Len(AsyncOps) = 8 /\ Len(RefreshOps) = 7
      /\ Len(Off) = 2 /\ Len(Sleep) = 2
  BY DEF UpdateOps, AsyncOps, RefreshOps, Off, Sleep
<1>10. ASSUME NEW k \in Nat, Len(OpsOf) = k
       PROVE  Left \in 1..k /\ Head(todo) = OpsOf[k + 1 - Left]
  <2>1. Left \in Nat \ {0} /\ Left <= k
    BY <1>1, <1>10
  <2>2. Left \in 1..k /\ Len(OpsOf) - Left + 1 = k + 1 - Left
    BY <1>10, <2>1
  <2> QED
    BY <1>2, <2>2
<1>4. CASE call = "update"
  <2>1. OpsOf = UpdateOps
    BY <1>4, Scripts DEF OpsOf
  <2>2. Len(OpsOf) = 10
    BY <1>3, <2>1
  <2> QED
    BY <1>10, <1>4, <2>1, <2>2
<1>5. CASE call = "update_async"
  <2>1. OpsOf = AsyncOps
    BY <1>5, Scripts DEF OpsOf
  <2>2. Len(OpsOf) = 8
    BY <1>3, <2>1
  <2> QED
    BY <1>10, <1>5, <2>1, <2>2
<1>6. CASE call = "refresh"
  <2>1. OpsOf = RefreshOps
    BY <1>6, Scripts DEF OpsOf
  <2>2. Len(OpsOf) = 7
    BY <1>3, <2>1
  <2> QED
    BY <1>10, <1>6, <2>1, <2>2
<1>7. CASE call = "off"
  <2>1. OpsOf = Off
    BY <1>7 DEF OpsOf
  <2>2. Len(OpsOf) = 2
    BY <1>3, <2>1
  <2> QED
    BY <1>10, <1>7, <2>1, <2>2
<1>8. CASE call = "sleep"
  <2>1. OpsOf = Sleep
    BY <1>8 DEF OpsOf
  <2>2. Len(OpsOf) = 2
    BY <1>3, <2>1
  <2> QED
    BY <1>10, <1>8, <2>1, <2>2
<1>9. CASE call \in {"none", "draw"}
  <2>1. OpsOf = <<>>
    BY <1>9 DEF OpsOf
  <2> QED
    BY <1>1, <2>1
<1> QED
  BY <1>4, <1>5, <1>6, <1>7, <1>8, <1>9 DEF ScriptInv

\* The operation an update does with so many left.
LEMMA UpdateHeads ==
  ASSUME TypeOK, ScriptInv, InCall, call = "update"
  PROVE  /\ Left \in 1..10
         /\ Head(todo) = "reset" <=> Left = 10
         /\ Head(todo) = "wait" <=> Left \in {9, 6, 4, 2}
         /\ Head(todo) = "config" <=> Left = 8
         /\ Head(todo) = "data" <=> Left = 7
         /\ Head(todo) = "pon" <=> Left = 5
         /\ Head(todo) = "drf" <=> Left = 3
         /\ Head(todo) = "pof" <=> Left = 1
BY Heads DEF UpdateOps

\* A refresh command is followed by a wait, but for update_async.
LEMMA AfterRefresh ==
  ASSUME TypeOK, ScriptInv, InCall, Head(todo) = "drf"
  PROVE  \/ call = "update_async" /\ Left = 1
         \/ call \in {"update", "refresh"} /\ Left > 1 /\ todo[2] = "wait"
<1>1. CASE call = "update"
  <2>1. Left = 3
    BY <1>1, UpdateHeads
  <2>2. OpsOf = UpdateOps /\ Len(UpdateOps) = 10 /\ UpdateOps[9] = "wait"
    BY <1>1, Scripts DEF OpsOf, UpdateOps
  <2>3. todo[2] = OpsOf[10 - 3 + 2]
    BY <2>1, <2>2 DEF ScriptInv
  <2> QED
    BY <1>1, <2>1, <2>2, <2>3
<1>2. CASE call = "refresh"
  <2>1. Left = 2
    BY <1>2, Heads DEF RefreshOps
  <2>2. OpsOf = RefreshOps /\ Len(RefreshOps) = 7 /\ RefreshOps[7] = "wait"
    BY <1>2, Scripts DEF OpsOf, RefreshOps
  <2>3. todo[2] = OpsOf[7 - 2 + 2]
    BY <2>1, <2>2 DEF ScriptInv
  <2> QED
    BY <1>2, <2>1, <2>2, <2>3
<1>3. CASE call = "update_async"
  BY <1>3, Heads DEF AsyncOps
<1>4. CASE call \in {"off", "sleep"}
  BY <1>4, Heads DEF Off, Sleep
<1> QED
  BY <1>1, <1>2, <1>3, <1>4, Heads

\* What is left after a step of a call is still the end of its operations.
LEMMA ScriptGoesOn ==
  ASSUME TypeOK, ScriptInv, InCall, todo' = Tail(todo), call' = call
  PROVE  ScriptInv' /\ Left' = Left - 1 /\ Left \in Nat \ {0} /\ (InCall' <=> Left' # 0)
<1>1. /\ Left \in Nat \ {0} /\ todo' \in Seq(Ops) /\ Len(todo') = Left - 1
      /\ \A i \in 1..(Left - 1) : todo'[i] = todo[i + 1]
  BY NextOp
<1>2. OpsOf' = OpsOf
  BY DEF OpsOf
<1>3. Left' = Left - 1
  BY <1>1 DEF Left
<1>4. Len(OpsOf) \in Nat
  BY Scripts DEF OpsOf, UpdateOps, AsyncOps, RefreshOps, Off, Sleep
<1>5. ASSUME NEW i \in 1..(Left - 1)
      PROVE  todo'[i] = OpsOf[Len(OpsOf) - (Left - 1) + i]
  <2>1. i + 1 \in 1..Left /\ Len(OpsOf) - (Left - 1) + i = Len(OpsOf) - Left + (i + 1)
    BY <1>1, <1>4
  <2>2. todo[i + 1] = OpsOf[Len(OpsOf) - Left + (i + 1)]
    BY <2>1 DEF ScriptInv
  <2> QED
    BY <1>1, <2>1, <2>2
<1>6. ScriptInv'
  BY <1>1, <1>2, <1>3, <1>4, <1>5 DEF ScriptInv
<1>7. InCall' <=> Left' # 0
  BY <1>1 DEF InCall, Left
<1> QED
  BY <1>1, <1>3, <1>6, <1>7

\* At first the panel is off and has no job.
LEMMA PanelInit == Init => PanelInv
<1> SUFFICES ASSUME Init PROVE PanelInv
  OBVIOUS
<1>1. call = "none" /\ todo = <<>> /\ panel.job = "none"
  BY DEF Init
<1>2. Left = 0 /\ OpsOf = <<>>
  BY <1>1 DEF Left, OpsOf
<1> QED
  BY <1>1, <1>2 DEF PanelInv, ScriptInv, RefreshInv, UpdateInv, OffInv, InCall

\* Steps that leave the call and the panel alone.
LEMMA AsideKeepsPanel ==
  ASSUME PanelInv, UNCHANGED <<call, todo, owes, glass, buf>> PROVE PanelInv'
BY DEF PanelInv, ScriptInv, RefreshInv, UpdateInv, OffInv, InCall, Left, OpsOf, Busy, glass

\* Drawing ends what was promised of the last call.
LEMMA DrawKeepsPanel ==
  ASSUME PanelInv, Draw PROVE PanelInv'
<1>1. todo = <<>> /\ todo' = <<>> /\ call' = "draw" /\ UNCHANGED <<owes, panel>>
  BY DEF Draw, Idle, glass
<1>2. Left' = 0 /\ OpsOf' = <<>>
  BY <1>1 DEF Left, OpsOf
<1> QED
  BY <1>1, <1>2 DEF PanelInv, ScriptInv, RefreshInv, UpdateInv, OffInv, InCall, Left

\* A new call has all of its operations left.
LEMMA InvokeKeepsPanel ==
  ASSUME PanelInv, CallUpdate \/ CallClear \/ CallAsync \/ CallOff \/ CallRefresh \/ CallSleep
  PROVE  PanelInv'
<1>1. todo = <<>> /\ UNCHANGED panel
  BY DEF CallUpdate, CallClear, CallAsync, CallOff, CallRefresh, CallSleep, Invoke, Idle, glass
<1>2. \/ call' = "update" /\ todo' = UpdateOps /\ ~owes /\ ~owes'
      \/ call' = "update_async" /\ todo' = AsyncOps /\ ~owes /\ owes'
      \/ call' = "refresh" /\ todo' = RefreshOps /\ ~owes /\ ~owes'
      \/ call' = "off" /\ todo' = Off
      \/ call' = "sleep" /\ todo' = Sleep /\ ~owes /\ ~owes'
  BY Scripts DEF CallUpdate, CallClear, CallAsync, CallOff, CallRefresh, CallSleep, Invoke
<1>3. todo' = OpsOf' /\ todo' # <<>>
  <2>1. CASE call' = "update" /\ todo' = UpdateOps
    BY <2>1, Scripts DEF OpsOf, UpdateOps
  <2>2. CASE call' = "update_async" /\ todo' = AsyncOps
    BY <2>2, Scripts DEF OpsOf, AsyncOps
  <2>3. CASE call' = "refresh" /\ todo' = RefreshOps
    BY <2>3, Scripts DEF OpsOf, RefreshOps
  <2>4. CASE call' = "off" /\ todo' = Off
    BY <2>4 DEF OpsOf, Off
  <2>5. CASE call' = "sleep" /\ todo' = Sleep
    BY <2>5 DEF OpsOf, Sleep
  <2> QED
    BY <1>2, <2>1, <2>2, <2>3, <2>4, <2>5
<1>4. /\ call' = "update" => Left' = 10
      /\ call' = "off" => Left' = 2 /\ Head(todo') = "wait"
      /\ Left' \in Nat
  BY <1>2 DEF Left, UpdateOps, AsyncOps, RefreshOps, Off, Sleep
<1>5. ScriptInv'
  <2>1. Left' = Len(OpsOf')
    BY <1>3 DEF Left
  <2>2. \A i \in 1..Left' : Len(OpsOf') - Left' + i = i
    BY <1>4, <2>1
  <2> QED
    BY <1>2, <1>3, <1>4, <2>1, <2>2 DEF ScriptInv
<1>6. RefreshInv'
  BY <1>1, <1>2, <1>3, <1>4 DEF PanelInv, RefreshInv, InCall
<1>7. UpdateInv' /\ OffInv'
  BY <1>4 DEF UpdateInv, OffInv
<1> QED
  BY <1>5, <1>6, <1>7 DEF PanelInv

\* The busy line was waited for.
LEMMA WaitKeepsPanel == ASSUME TypeOK, PanelInv, Wait PROVE PanelInv'
<1>1. /\ InCall /\ Head(todo) = "wait" /\ ~Busy /\ todo' = Tail(todo)
      /\ UNCHANGED <<call, owes, panel, ram, shown, buf>>
  BY DEF Wait, glass
<1>2. ScriptInv' /\ Left' = Left - 1 /\ Left \in Nat \ {0}
  BY <1>1, ScriptGoesOn DEF PanelInv
<1>3. RefreshInv'
  BY <1>1 DEF PanelInv, RefreshInv, Busy
<1>4. UpdateInv'
  <2>1. SUFFICES ASSUME call = "update" PROVE UpdateInv'
    BY <1>1 DEF UpdateInv
  <2>2. Left \in {9, 6, 4, 2}
    BY <1>1, <2>1, UpdateHeads DEF PanelInv
  <2> QED
    BY <1>1, <1>2, <2>1, <2>2 DEF PanelInv, UpdateInv, Busy
<1>5. OffInv'
  <2>1. SUFFICES ASSUME call = "off" PROVE OffInv'
    BY <1>1 DEF OffInv
  <2>2. Left = 2
    BY <1>1, <2>1, Heads DEF PanelInv, Off
  <2> QED
    BY <1>1, <1>2, <2>1, <2>2 DEF OffInv, Busy
<1> QED
  BY <1>2, <1>3, <1>4, <1>5 DEF PanelInv

\* The reset line: no refresh is running, since the reset comes first in its call.
LEMMA ResetKeepsPanel == ASSUME TypeOK, PanelInv, Reset PROVE PanelInv' /\ panel.job # "drf"
<1>1. /\ InCall /\ Head(todo) = "reset" /\ todo' = Tail(todo) /\ panel'.job = "reset"
      /\ UNCHANGED <<call, owes, ram, shown, buf>>
  BY DEF Reset
<1>2. ScriptInv' /\ Left' = Left - 1 /\ Left \in Nat \ {0}
  BY <1>1, ScriptGoesOn DEF PanelInv
<1>3. RefreshInv' /\ panel.job # "drf"
  BY <1>1 DEF PanelInv, RefreshInv
<1>4. UpdateInv'
  <2>1. SUFFICES ASSUME call = "update" PROVE UpdateInv'
    BY <1>1 DEF UpdateInv
  <2>2. Left = 10
    BY <1>1, <2>1, UpdateHeads DEF PanelInv
  <2> QED
    BY <1>2, <2>2 DEF UpdateInv
<1>5. OffInv'
  BY <1>1, Heads DEF PanelInv, OffInv, Off
<1> QED
  BY <1>2, <1>3, <1>4, <1>5 DEF PanelInv

\* A command to a panel that is idle whenever the call is an update or off.
LEMMA CommandKeepsPanel ==
  ASSUME TypeOK, PanelInv, Command PROVE PanelInv' /\ panel.job # "drf"
<1>1. /\ InCall /\ Head(todo) \in Commands /\ todo' = Tail(todo)
      /\ UNCHANGED <<call, owes, shown, buf>>
  BY DEF Command
<1>2. ScriptInv' /\ Left' = Left - 1 /\ Left \in Nat \ {0} /\ (InCall' <=> Left' # 0)
  BY <1>1, ScriptGoesOn DEF PanelInv
<1>3. panel.job # "drf"
  BY <1>1 DEF PanelInv, RefreshInv, Commands
<1>4. CASE Busy
  <2>1. UNCHANGED <<panel, ram>>
    BY <1>4 DEF Command
  <2>2. RefreshInv'
    BY <1>1, <1>2, <1>3, <2>1 DEF PanelInv, RefreshInv
  <2>3. call # "update"
    <3>1. SUFFICES ASSUME call = "update" PROVE FALSE
      OBVIOUS
    <3>2. Left \in {8, 7, 5, 3, 1}
      BY <1>1, <3>1, UpdateHeads DEF PanelInv, Commands
    <3> QED
      BY <1>4, <3>1, <3>2 DEF PanelInv, UpdateInv
  <2>4. call # "off"
    <3>1. SUFFICES ASSUME call = "off" PROVE FALSE
      OBVIOUS
    <3>2. Left = 1
      BY <1>1, <3>1, Heads DEF PanelInv, Commands, Off
    <3> QED
      BY <1>4, <3>1, <3>2 DEF PanelInv, OffInv
  <2>5. UpdateInv' /\ OffInv'
    BY <1>1, <2>3, <2>4 DEF UpdateInv, OffInv
  <2> QED
    BY <1>2, <1>3, <2>2, <2>5 DEF PanelInv
<1>5. CASE ~Busy
  <2> DEFINE cmd == Head(todo)
  <2>1. /\ panel'.on = panel.on /\ panel'.job = JobOf(cmd) /\ panel'.set = (panel.set \/ cmd = "config")
        /\ JobOf(cmd) = "drf" => cmd = "drf"
        /\ ram' = IF cmd = "data" THEN Image(buf) ELSE ram
    BY <1>5, CommandPanel DEF Command
  <2>2. RefreshInv'
    <3>1. CASE cmd = "drf" /\ panel'.job = "drf"
      <4>1. \/ call = "update_async" /\ Left = 1
            \/ call \in {"update", "refresh"} /\ Left > 1 /\ todo[2] = "wait"
        BY <1>1, <3>1, AfterRefresh DEF PanelInv
      <4>2. Left > 1 => Head(todo') = todo[2]
        <5>1. SUFFICES ASSUME Left > 1 PROVE Head(todo') = todo[2]
          OBVIOUS
        <5>2. todo' \in Seq(Ops) /\ Len(todo') = Left - 1 /\ todo'[1] = todo[2]
          BY <1>1, <1>2, <5>1, NextOp
        <5> QED
          BY <1>2, <5>1, <5>2
      <4>3. call = "update_async" => owes
        BY <1>1 DEF PanelInv, RefreshInv
      <4>4. CASE call = "update_async" /\ Left = 1
        <5>1. ~InCall' /\ owes'
          BY <1>1, <1>2, <4>3, <4>4
        <5> QED
          BY <5>1 DEF RefreshInv
      <4>5. CASE call \in {"update", "refresh"} /\ Left > 1 /\ todo[2] = "wait"
        <5>1. Left' # 0
          BY <1>2, <4>5
        <5>2. InCall' /\ Head(todo') = "wait"
          BY <1>2, <4>2, <4>5, <5>1
        <5>3. call' # "update_async"
          BY <1>1, <4>5
        <5> QED
          BY <5>2, <5>3 DEF RefreshInv
      <4> QED
        BY <4>1, <4>4, <4>5
    <3>2. CASE panel'.job # "drf"
      BY <1>1, <3>2 DEF PanelInv, RefreshInv
    <3> QED
      BY <2>1, <3>1, <3>2
  <2>3. UpdateInv'
    <3>1. SUFFICES ASSUME call = "update" PROVE UpdateInv'
      BY <1>1 DEF UpdateInv
    <3>2. /\ Left \in {8, 7, 5, 3, 1}
          /\ cmd = "config" <=> Left = 8
          /\ cmd = "data" <=> Left = 7
          /\ cmd = "pon" <=> Left = 5
          /\ cmd = "drf" <=> Left = 3
          /\ cmd = "pof" <=> Left = 1
      BY <1>1, <3>1, UpdateHeads DEF PanelInv, Commands
    <3>3. panel.set \in BOOLEAN /\ panel.on \in BOOLEAN
      BY DEF TypeOK
    <3> HIDE DEF cmd
    <3>4. CASE Left = 8
      <4>1. panel'.job = "none" /\ panel'.set
        BY <2>1, <3>2, <3>4 DEF JobOf
      <4> QED
        BY <1>2, <3>4, <4>1 DEF UpdateInv, Busy
    <3>5. CASE Left = 7
      <4>1. panel'.job = "none" /\ panel'.set /\ ram' = Image(buf)'
        BY <1>1, <2>1, <3>1, <3>2, <3>3, <3>5 DEF JobOf, PanelInv, UpdateInv
      <4> QED
        BY <1>2, <3>5, <4>1 DEF UpdateInv, Busy
    <3>6. CASE Left = 5
      <4>1. panel'.job = "pon" /\ panel'.set /\ ram' = Image(buf)'
        BY <1>1, <2>1, <3>1, <3>2, <3>3, <3>6 DEF JobOf, PanelInv, UpdateInv
      <4> QED
        BY <1>2, <3>6, <4>1 DEF UpdateInv, Busy
    <3>7. CASE Left = 3
      <4>1. panel.on /\ panel.set
        BY <3>1, <3>7 DEF PanelInv, UpdateInv
      <4>2. JobOf("drf") = "drf"
        BY <4>1 DEF JobOf
      <4>3. panel'.job = "drf" /\ panel'.set
        BY <2>1, <3>2, <3>7, <4>1, <4>2
      <4>4. ram' = Image(buf)'
        BY <1>1, <2>1, <3>1, <3>2, <3>7 DEF PanelInv, UpdateInv
      <4> QED
        BY <1>2, <3>7, <4>3, <4>4 DEF UpdateInv, Busy
    <3>8. CASE Left = 1
      <4>1. panel'.job = "pof" /\ panel'.set /\ ram' = Image(buf)' /\ shown' = Image(buf)'
        BY <1>1, <2>1, <3>1, <3>2, <3>3, <3>8 DEF JobOf, PanelInv, UpdateInv
      <4> QED
        BY <1>2, <3>8, <4>1 DEF UpdateInv, Busy
    <3> QED
      BY <3>2, <3>4, <3>5, <3>6, <3>7, <3>8
  <2>4. OffInv'
    <3>1. SUFFICES ASSUME call = "off" PROVE OffInv'
      BY <1>1 DEF OffInv
    <3>2. Left = 1 /\ cmd = "pof"
      BY <1>1, <3>1, Heads DEF PanelInv, Commands, Off
    <3>3. panel'.job = "pof"
      BY <2>1, <3>2 DEF JobOf
    <3> QED
      BY <1>2, <3>2, <3>3 DEF OffInv, Busy
  <2> QED
    BY <1>2, <1>3, <2>2, <2>3, <2>4 DEF PanelInv
<1> QED
  BY <1>3, <1>4, <1>5

\* The panel finishes its job.
LEMMA DoneKeepsPanel == ASSUME TypeOK, PanelInv, PanelDone PROVE PanelInv'
<1>1. /\ Busy /\ UNCHANGED <<call, todo, owes, ram, buf>>
      /\ panel'.job = "none" /\ panel'.set = panel.set
      /\ panel.job = "pon" => panel'.on
      /\ panel.job = "pof" => ~panel'.on
      /\ panel.job \notin {"pon", "pof"} => panel'.on = panel.on
      /\ shown' = IF panel.job = "drf" THEN ram ELSE shown
  BY DonePanel DEF PanelDone
<1>2. ScriptInv' /\ Left' = Left
  BY <1>1 DEF PanelInv, ScriptInv, OpsOf, Left
<1>3. RefreshInv'
  BY <1>1 DEF PanelInv, RefreshInv, InCall
<1>4. UpdateInv'
  <2>1. SUFFICES ASSUME call = "update" PROVE UpdateInv'
    BY <1>1 DEF UpdateInv
  <2>2. Left \in Nat
    BY DEF TypeOK, Left
  <2>3. Left \notin {1, 3, 5, 6, 7, 8} /\ ~Busy'
    BY <1>1, <2>1 DEF PanelInv, UpdateInv, Busy
  <2>4. CASE Left = 0
    BY <1>1, <1>2, <2>1, <2>3, <2>4 DEF PanelInv, UpdateInv
  <2>5. CASE Left = 2
    BY <1>1, <1>2, <2>1, <2>3, <2>5 DEF PanelInv, UpdateInv
  <2>6. CASE Left = 4
    BY <1>1, <1>2, <2>1, <2>3, <2>6 DEF PanelInv, UpdateInv
  <2>7. CASE Left > 8
    BY <1>2, <2>2, <2>7 DEF UpdateInv
  <2> QED
    BY <2>2, <2>3, <2>4, <2>5, <2>6, <2>7
<1>5. OffInv'
  <2>1. SUFFICES ASSUME call = "off" PROVE OffInv'
    BY <1>1 DEF OffInv
  <2> QED
    BY <1>1, <1>2, <2>1 DEF PanelInv, OffInv, Busy
<1> QED
  BY <1>2, <1>3, <1>4, <1>5 DEF PanelInv

\* Every step keeps what is known of the panel.
LEMMA PanelStep == TypeOK /\ PanelInv /\ [Next]_vars => PanelInv'
<1> SUFFICES ASSUME TypeOK, PanelInv, [Next]_vars PROVE PanelInv'
  OBVIOUS
<1>2. ASSUME NEW h \in Handles, Claim(h) \/ Made(h) \/ MakeFails(h) \/ DropInky(h) PROVE PanelInv'
  BY <1>2, AsideKeepsPanel DEF Claim, Made, MakeFails, DropInky
<1>3. CASE SetRotation \/ UNCHANGED vars
  BY <1>3, AsideKeepsPanel DEF SetRotation, vars
<1>4. CASE SetPixel \/ SetImage \/ SetFill
  BY <1>4, DrawKeepsPanel DEF SetPixel, SetImage, SetFill
<1> QED
  BY <1>2, <1>3, <1>4, InvokeKeepsPanel, WaitKeepsPanel, ResetKeepsPanel, CommandKeepsPanel,
     DoneKeepsPanel DEF Next, Driver

\* Both hold in every state.
LEMMA Invariant == Spec => [](PictureInv /\ PanelInv)
<1>1. Init => PictureInv /\ PanelInv
  BY PictureInit, PanelInit
<1>2. PictureInv /\ PanelInv /\ [Next]_vars => PictureInv' /\ PanelInv'
  BY PictureStep, PanelStep DEF PictureInv
<1> QED
  BY <1>1, <1>2, PTL DEF Spec

-----------------------------------------------------------------------------
\* The memory of the picture is well-typed, has one owner (frame.rs 412-441) and holds
\* what was drawn, pixel by pixel and under every rotation (frame.rs 240-323), where
\* a fill with any colour draws every other column of it and the rest black (frame.rs
\* 230). No coordinate is 65536 or more.
THEOREM SpecConsistent == ASSUME Fitting PROVE Spec => []Consistent
<1>1. PictureInv /\ OneOwner => Consistent
  BY DEF PictureInv, Consistent
<1> QED
  BY <1>1, Invariant, MemoryOwnedOnce, PTL

\* When update or clear returns, the panel shows the picture, and after them and
\* after off it is without high voltage or on its way (display.rs 115-118, 141-150).
\* No coordinate is 65536 or more.
THEOREM UpdateIsShown == ASSUME Fitting PROVE Spec => []UpdateShows
<1>1. PictureInv /\ PanelInv => UpdateShows
  BY DEF PictureInv, BufferIsPicture, TypeOK, PanelInv, UpdateInv, OffInv, UpdateShows, InCall, Left
<1> QED
  BY <1>1, Invariant, PTL

\* A refresh that started is neither cut short nor given another picture, by the
\* update itself or by the reset of the next call (display.rs 146-149, 174-182).
THEOREM RefreshNotCut == Spec => RefreshWhole
<1> DEFINE Whole == panel.job = "drf" /\ panel'.job # "drf" => shown' = ram
<1>1. PictureInv /\ PanelInv /\ [Next]_vars => [Whole]_vars
  <2> SUFFICES ASSUME PictureInv, PanelInv, Next, panel.job = "drf", panel'.job # "drf"
               PROVE  shown' = ram
    OBVIOUS
  <2>1. ~Reset /\ ~Command
    BY ResetKeepsPanel, CommandKeepsPanel DEF PictureInv
  <2>2. CASE PanelDone
    BY <2>2 DEF PanelDone
  <2>3. CASE UNCHANGED panel
    BY <2>3
  <2> QED
    BY <2>1, <2>2, <2>3
    DEF Next, Claim, Made, MakeFails, DropInky, SetPixel, SetImage, SetFill, Draw, SetRotation,
        CallUpdate, CallClear, CallAsync, CallOff, CallRefresh, CallSleep, Invoke, Driver, Wait, glass
<1>2. [][Whole]_vars => RefreshWhole
  BY DEF RefreshWhole
<1> QED
  BY <1>1, <1>2, Invariant, PTL DEF Spec
=============================================================================
