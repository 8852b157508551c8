--------------------------------- MODULE Screen ---------------------------------
(***************************************************************************)
(* The picture and the e-ink panel: Inky draws into a buffer of two pixels *)
(* per byte, under a rotation (src/src/frame.rs), and Display sends it to  *)
(* the panel, command by command, waiting on the panel's busy line between *)
(* them (src/src/frame/display.rs).  The panel is an environment: a job it *)
(* was given takes its time, and a command it gets meanwhile is lost.      *)
(***************************************************************************)
EXTENDS Integers, Sequences, FiniteSets

CONSTANTS
  W, H,      \* width and height of the panel
  Colours,   \* colours the program draws in
  Fills,     \* colours it fills the picture with
  Span,      \* coordinates it draws at, in the picture or not
  Handles,   \* parts of the program that want an Inky of their own
  MaxDraws,  \* bound: calls that draw
  MaxCalls   \* bound: calls that use the panel

ASSUME ShapeAssumption == W \in 1..65535 /\ H \in 1..65535 /\ W % 2 = 0
ASSUME ColourAssumption == (Colours \union Fills) \subseteq 0..7
ASSUME SpanAssumption == Span \subseteq Int /\ {MaxDraws, MaxCalls} \subseteq Nat

VARIABLES
  lock,     \* Spinlock27, the owner of the static buffer
  making,   \* the handles that are being made
  owners,   \* the handles there are
  buf,      \* Inky.buf: a pair of high and low half per byte
  rot,      \* Inky.rot, in quarter turns
  call,     \* the running or the last call
  todo,     \* the operations it has left
  owes,     \* update_async was called and off was not
  panel,    \* the panel: its power, its job and whether it is configured
  ram,      \* the pixels it was sent
  shown,    \* the pixels it shows
  draws, calls,  \* numbers of calls so far
  picture   \* history: what was drawn, by place on the panel

memory == <<lock, making, owners>>
glass == <<panel, ram, shown>>
vars == <<memory, buf, rot, call, todo, owes, glass, draws, calls, picture>>

Places == (0..(W - 1)) \X (0..(H - 1))
Junk == 15   \* memory nobody initialised
White == 1
U16 == 65536

-----------------------------------------------------------------------------
(* Where a pixel is.                                                       *)

\* The picture as the program sees it.
Wide == IF rot % 2 = 0 THEN W ELSE H
Tall == IF rot % 2 = 0 THEN H ELSE W
Inside(x, y) == x \in 0..(Wide - 1) /\ y \in 0..(Tall - 1)

\* A quarter turn of a picture of that height, and the place on the panel: as many
\* turns as the rotation says.
Turn(p, tall) == <<tall - 1 - p[2], p[1]>>
PlaceOf(x, y) ==
  CASE rot = 0 -> <<x, y>>
    [] rot = 1 -> Turn(<<x, y>>, W)
    [] rot = 2 -> Turn(Turn(<<x, y>>, H), W)
    [] rot = 3 -> Turn(Turn(Turn(<<x, y>>, W), H), W)

InBounds(x, y) ==
  ~ \/ rot \in {0, 2} /\ (x >= W \/ y >= H)
    \/ rot \in {1, 3} /\ (y >= W \/ x >= H)

\* Mutant: rotated the other way.
RotatedBack(x, y) ==
  CASE rot = 0 -> <<x, y>>
    [] rot = 3 -> <<W - 1 - y, x>>
    [] rot = 2 -> <<W - 1 - x, H - 1 - y>>
    [] rot = 1 -> <<y, H - 1 - x>>

Rotated(x, y) ==
  CASE rot = 0 -> <<x, y>>
    [] rot = 1 -> <<W - 1 - y, x>>
    [] rot = 2 -> <<W - 1 - x, H - 1 - y>>
    [] rot = 3 -> <<y, H - 1 - x>>

\* The byte, and whether the pixel is in its high half.
Byte(p)   == p[1] \div 2 + (W \div 2) * p[2]
IsHigh(p) == p[1] % 2 = 1

\* The picture in a buffer, the way the panel takes it.
Image(b) == [p \in Places |-> IF IsHigh(p) THEN b[Byte(p)][1] ELSE b[Byte(p)][2]]

-----------------------------------------------------------------------------
(* The operations of a call.                                               *)

Setup       == <<"reset", "wait", "config">>
Off         == <<"wait", "pof">>
Sleep       == <<"wait", "sleep">>
Refresh     == Setup \o <<"pon", "wait", "drf", "wait">>

\* Mutants: the power is not waited for, or the refresh is not.
UpdateHasty == Setup \o <<"data", "wait", "pon", "drf", "wait", "pof">>
UpdateEarly == Setup \o <<"data", "wait", "pon", "wait", "drf">>

Update      == Setup \o <<"data", "wait", "pon", "wait", "drf", "wait", "pof">>
UpdateAsync == Setup \o <<"data", "wait", "pon", "wait", "drf">>

Commands == {"config", "data", "pon", "drf", "pof", "sleep"}

-----------------------------------------------------------------------------
Init ==
  /\ lock = FALSE /\ making = {} /\ owners = {}
  /\ buf = [i \in 0..((W * H) \div 2 - 1) |-> <<Junk, Junk>>]
  /\ rot = 0
  /\ call = "none" /\ todo = <<>> /\ owes = FALSE
  /\ panel = [on |-> FALSE, job |-> "none", set |-> FALSE]
  /\ ram = Image(buf) /\ shown = Image(buf) /\ picture = Image(buf)
  /\ draws = 0 /\ calls = 0

\* Static::new, the first thing Inky::new does; without the lock it fails with NoMemory.
Claim(h) ==
  /\ ~lock /\ h \notin making \union owners
  /\ lock' = TRUE /\ making' = making \union {h}
  /\ UNCHANGED <<owners, buf, rot, call, todo, owes, glass, draws, calls, picture>>

Made(h) ==
  /\ h \in making
  /\ making' = making \ {h} /\ owners' = owners \union {h}
  /\ rot' = 0
  /\ UNCHANGED <<lock, buf, call, todo, owes, glass, draws, calls, picture>>

\* The busy pins or the SPI pins are wrong: the memory that was claimed is dropped.
MakeFails(h) ==
  /\ h \in making
  /\ making' = making \ {h} /\ lock' = FALSE
  /\ UNCHANGED <<owners, buf, rot, call, todo, owes, glass, draws, calls, picture>>

Idle == todo = <<>> /\ owners # {}

DropInky(h) ==
  /\ Idle /\ h \in owners
  /\ owners' = owners \ {h} /\ lock' = FALSE
  /\ UNCHANGED <<making, buf, rot, call, todo, owes, glass, draws, calls, picture>>

(* Drawing. *)

Draw ==
  /\ Idle /\ draws < MaxDraws /\ draws' = draws + 1
  /\ call' = "draw"
  /\ UNCHANGED <<memory, todo, owes, glass, calls>>

\* What every way to draw a pixel does in the end.
Put(x, y, c) ==
  LET p == Rotated(x, y)
      i == Byte(p)
  IN  buf' = IF InBounds(x, y) /\ i \in DOMAIN buf
               THEN [buf EXCEPT ![i] = IF IsHigh(p) THEN <<c, @[2]>> ELSE <<@[1], c>>]
               ELSE buf

\* What should be seen of it.
Drawn(x, y, c) ==
  picture' = IF Inside(x, y) THEN [picture EXCEPT ![PlaceOf(x, y)] = c] ELSE picture

\* set_pixel, and set_pixel_raw with the colour the dither picks.
SetPixel ==
  /\ Draw
  /\ \E x, y \in Span \intersect Nat, c \in Colours : Put(x, y, c) /\ Drawn(x, y, c)
  /\ UNCHANGED rot

\* One pixel of set_image that is not transparent, at a place that may be negative.
SetImage ==
  /\ Draw
  /\ \E x, y \in Span, c \in Colours :
       /\ IF x < 0 \/ y < 0 THEN UNCHANGED buf ELSE Put(x % U16, y % U16, c)
       /\ Drawn(x, y, c)
  /\ UNCHANGED rot

\* What a fill shows: every other column in its colour and the rest black, where
\* README.md:408 has the entire screen in that colour.
Stripes(c) == [p \in Places |-> IF p[1] % 2 = 1 THEN 0 ELSE c]

\* set_fill writes the colour into every byte, and so into its low half.
SetFill ==
  /\ Draw
  /\ \E c \in Fills : buf' = [i \in DOMAIN buf |-> <<0, c>>] /\ picture' = Stripes(c)
  /\ UNCHANGED rot

SetRotation ==
  /\ Idle /\ \E r \in 0..3 : rot' = r
  /\ UNCHANGED <<memory, buf, call, todo, owes, glass, draws, calls, picture>>

(* The panel. *)

Invoke(name, ops) ==
  /\ Idle /\ calls < MaxCalls /\ calls' = calls + 1
  /\ call' = name /\ todo' = ops
  /\ UNCHANGED <<memory, rot, glass, draws>>

\* Until off is called after update_async, "the user must issue a POF command".
CallUpdate == ~owes /\ Invoke("update", Update) /\ UNCHANGED <<buf, owes, picture>>
CallClear ==
  /\ ~owes /\ Invoke("update", Update)
  /\ buf' = [i \in DOMAIN buf |-> <<White, White>>] /\ picture' = [p \in Places |-> White]
  /\ UNCHANGED owes
CallAsync   == ~owes /\ Invoke("update_async", UpdateAsync) /\ owes' = TRUE /\ UNCHANGED <<buf, picture>>
CallOff     == Invoke("off", Off) /\ owes' = FALSE /\ UNCHANGED <<buf, picture>>
\* The two calls that only a program with a Display of its own can make.
CallRefresh == ~owes /\ Invoke("refresh", Refresh) /\ UNCHANGED <<buf, owes, picture>>
CallSleep   == ~owes /\ Invoke("sleep", Sleep) /\ UNCHANGED <<buf, owes, picture>>

InCall == todo # <<>>
Busy == panel.job # "none"

\* Mutant: the busy line is read the wrong way round.
WaitForBusy ==
  /\ InCall /\ Head(todo) = "wait" /\ Busy
  /\ todo' = Tail(todo)
  /\ UNCHANGED <<memory, buf, rot, call, owes, glass, draws, calls, picture>>

Wait ==
  /\ InCall /\ Head(todo) = "wait" /\ ~Busy
  /\ todo' = Tail(todo)
  /\ UNCHANGED <<memory, buf, rot, call, owes, glass, draws, calls, picture>>

\* The reset line stops whatever the panel does.
Reset ==
  /\ InCall /\ Head(todo) = "reset"
  /\ todo' = Tail(todo)
  /\ panel' = [on |-> FALSE, job |-> "reset", set |-> FALSE]
  /\ UNCHANGED <<memory, buf, rot, call, owes, ram, shown, draws, calls, picture>>

\* The job a command starts: a refresh takes a configured panel with power.
JobOf(cmd) ==
  CASE cmd \in {"pon", "pof"} -> cmd
    [] cmd = "drf" /\ panel.on /\ panel.set -> "drf"
    [] OTHER -> "none"

Command ==
  /\ InCall /\ Head(todo) \in Commands
  /\ todo' = Tail(todo)
  /\ IF Busy THEN UNCHANGED <<panel, ram>>
     ELSE /\ panel' = [panel EXCEPT !.job = JobOf(Head(todo)), !.set = @ \/ Head(todo) = "config"]
          /\ ram' = IF Head(todo) = "data" THEN Image(buf) ELSE ram
  /\ UNCHANGED <<memory, buf, rot, call, owes, shown, draws, calls, picture>>

PanelDone ==
  /\ Busy
  /\ panel' = [panel EXCEPT !.job = "none",
                            !.on = IF panel.job = "pon" THEN TRUE ELSE @ /\ panel.job # "pof"]
  /\ shown' = IF panel.job = "drf" THEN ram ELSE shown
  /\ UNCHANGED <<memory, buf, rot, call, todo, owes, ram, draws, calls, picture>>

Driver == Wait \/ Reset \/ Command

Next ==
  \/ \E h \in Handles : Claim(h) \/ Made(h) \/ MakeFails(h) \/ DropInky(h)
  \/ SetPixel \/ SetImage \/ SetFill \/ SetRotation
  \/ CallUpdate \/ CallClear \/ CallAsync \/ CallOff \/ CallRefresh \/ CallSleep
  \/ Driver
  \/ PanelDone

Spec == Init /\ [][Next]_vars

\* A call goes on, and the panel finishes its job.
FairSpec == Spec /\ WF_vars(Driver) /\ WF_vars(PanelDone)

-----------------------------------------------------------------------------
(* Properties.                                                             *)

Halves == Colours \union Fills \union {White, Junk, 0}

\* Every variable has its type.
TypeOK ==
  /\ lock \in BOOLEAN /\ making \subseteq Handles /\ owners \subseteq Handles
  /\ buf \in [0..((W * H) \div 2 - 1) -> Halves \X Halves]
  /\ rot \in 0..3 /\ owes \in BOOLEAN
  /\ todo \in Seq(Commands \union {"wait", "reset"})
  /\ panel \in [on : BOOLEAN, job : {"none", "reset", "pon", "drf", "pof"}, set : BOOLEAN]
  /\ {ram, shown, picture} \subseteq [Places -> Halves]

\* The static buffer has one owner, and the spinlock says whether it has one: a
\* failed creation gives it back (frame.rs 174-197, 412-441).
OneOwner ==
  /\ Cardinality(making \union owners) <= 1 /\ making \intersect owners = {}
  /\ lock <=> making \union owners # {}

\* The buffer holds what was drawn: a pixel inside the picture changes its place on
\* the panel under the rotation of the moment and no other, one outside changes
\* nothing (frame.rs 240-262, 271-323). Of a fill only every other column is what was
\* asked for (frame.rs 230).
BufferIsPicture == Image(buf) = picture

\* The memory of the picture is well-typed, has one owner (frame.rs 412-441) and holds
\* what was drawn (frame.rs 240-323).
Consistent == TypeOK /\ OneOwner /\ BufferIsPicture

\* When update or clear returns, the panel shows the picture, and after them and
\* after off it is without high voltage or on its way: no command was lost on a busy
\* panel, the data, the power and the refresh were all waited for and the POF
\* command was taken (display.rs 115-118, 141-150).
UpdateShows ==
  ~InCall =>
    /\ call = "update" => shown = picture
    /\ call \in {"update", "off"} => panel.job = "pof" \/ (~Busy /\ ~panel.on)

\* A refresh that started is neither cut short nor given another picture, by the
\* update itself or by the reset of the next call (display.rs 146-149, 174-182).
RefreshWhole == [][panel.job = "drf" /\ panel'.job # "drf" => shown' = ram]_vars

\* Every call on the panel returns: its loops on the busy line end
\* (display.rs 167-172).
CallsReturn == []<>~InCall
=============================================================================
