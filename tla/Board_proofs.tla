------------------------------ MODULE Board_proofs ------------------------------
(***************************************************************************)
(* Proofs about Board for any triggers, naps, number of calls and failing  *)
(* transfers.  What a call does is a script; the invariant says at which   *)
(* operation of which block it is and what holds there.                    *)
(***************************************************************************)
EXTENDS Board, TLAPS

-----------------------------------------------------------------------------
(* Scripts and the place a call has reached in its script.                 *)

Registers == {"ctrl2", "mode"}
Timed == {Now(n) : n \in Naps} \union {Wait(n) : n \in Naps \union {1}}
OnRegister ==
  {Load(r) : r \in Registers}
  \union {Save(r, on, off) : r \in Registers, on \in SUBSET Bits, off \in SUBSET Bits}
Ops == {Shift, Pin(TRUE), Pin(FALSE), Alarm(TRUE), Alarm(FALSE)} \union Timed \union OnRegister
Blocks == [must : BOOLEAN, ops : Seq(Ops)]
IsScript(s) ==
  /\ s \in Seq(Blocks) /\ Len(s) > 0
  /\ \A i \in 1..Len(s) : Len(s[i].ops) > 0

Timer == <<Must(SetTimer \o SetTimerInterrupt(TRUE))>>
ScriptsOf(c) ==
  CASE c = "setup" -> {Setup}
    [] c = "set_rtc_wake" -> {<<SetRtcWake(n)>> : n \in Naps}
    [] c = "deep_sleep" -> {DeepSleep(n) : n \in Naps}
    [] c = "power_off" -> {<<Try(PowerOff)>>}
    [] c = "set_timer" -> {Timer}

\* What is left, t, of script s begins at operation p of block i.
At(t, s, i, p) ==
  /\ i \in 1..Len(s) /\ p \in 1..Len(s[i].ops)
  /\ t \in Seq(Blocks) /\ Len(t) > 0
  /\ Head(t).must = s[i].must
  /\ Head(t).ops = SubSeq(s[i].ops, p, Len(s[i].ops))
  /\ Tail(t) = SubSeq(s, i + 1, Len(s))

-----------------------------------------------------------------------------
(* The inductive invariant.                                                *)

\* The transfers of a call take less time than the sleep it asks for.
Brief == \A n \in Naps : TicksPerCall < n

Armed ==
  /\ alarm = target /\ "AIE" \in reg["ctrl2"]
  /\ clock < target \/ "AF" \in reg["ctrl2"]

\* A board that the battery alone keeps up, its pin low, has a reason to be up.
Excused == supply = "battery" /\ power = "on" /\ ~hold => touched \/ timed \/ due <= clock

\* In a boot the clock chip goes on asking until the reason has been read.
InSetup(c, i) ==
  c = "setup" /\ woken = "rtc" => IF i = 1 THEN Interrupt ELSE wake # "None"

\* What an undisturbed boot or end of a sleep has cancelled so far.
QuietAt(c) == IF c = "setup" THEN 1 ELSE 2
InQuiet(c, i, p) ==
  c \in {"setup", "deep_sleep"} /\ calm =>
    /\ i >= QuietAt(c) + 2 => "AF" \notin reg["ctrl2"]
    /\ i >= QuietAt(c) + 3 => alarm = Never
    /\ c = "deep_sleep" /\ i = 5 /\ p >= 3 /\ supply = "battery" /\ ~hold /\ ~touched =>
         "TF" \notin reg["ctrl2"]

\* A wake-up is set for a time that is still to come.
InRtc(c, i, p) ==
  c \in {"set_rtc_wake", "deep_sleep"} /\ i = 1 =>
    /\ clock <= LastCall + ticked
    /\ p >= 2 => due <= target /\ \E n \in Naps : clock + n <= target + ticked
    /\ p >= 5 => alarm = target

\* How far the clock has come in the waits.
InCut(c, i, p) ==
  c = "power_off" \/ (c = "deep_sleep" /\ i = 2) =>
    /\ p <= 2 /\ until = Never => clock <= LastCall + ticked
    /\ p = 2 /\ until # Never => clock <= until /\ until <= LastCall + ticked + 1
    /\ p = 3 /\ until = Never => clock <= LastCall + ticked + 1

InSleep(c, i) ==
  c = "deep_sleep" => /\ i = 2 /\ Brief => Armed
                      /\ i # 2 => Excused

\* A register is written with what was read of it, and only a wait waits.
InOp(o) ==
  /\ o.do = "save" /\ o.r = "ctrl2" => "TIE" \notin seen
  /\ o.do # "wait" => until = Never

\* The timer is used from the call of set_timer on.
InTimer(c) == c = "set_timer" => timed

Marks(c, i, p) ==
  /\ InSetup(c, i) /\ InQuiet(c, i, p) /\ InRtc(c, i, p) /\ InCut(c, i, p) /\ InSleep(c, i)
  /\ InTimer(c)
Holds(c, s, i, p) == Marks(c, i, p) /\ InOp(s[i].ops[p])

Calls == {"setup", "set_rtc_wake", "deep_sleep", "power_off", "set_timer"}
CallInv ==
  /\ power = "on" => call \in Calls
  /\ power = "off" => call \in {"asleep", "off"} /\ ~InCall
  /\ InCall => \E c \in Calls : c = call /\
                 \E s \in ScriptsOf(c) : \E i \in 1..Len(s) : \E p \in 1..Len(s[i].ops) :
                    At(todo, s, i, p) /\ Holds(c, s, i, p)
  /\ ~InCall =>
       /\ until = Never
       /\ power = "on" /\ woken = "rtc" => wake # "None"
       /\ call \in {"power_off", "deep_sleep"} => Excused
       /\ call = "asleep" /\ Brief => Armed
  /\ call # "setup" /\ power = "on" /\ woken = "rtc" => wake # "None"

\* No wake-up comes before it is due, and no timer without being asked for.
DueInv ==
  /\ alarm # Never => due <= alarm
  /\ "AF" \in reg["ctrl2"] => due <= clock
  /\ "TIE" \notin reg["ctrl2"]
  /\ "TIE" \in reg["mode"] \union seen => timed
  /\ lines # {} => touched

Types ==
  /\ TypeOK
  /\ ticked \in Nat /\ calls \in Nat
  /\ {timed, touched, calm} \subseteq BOOLEAN
  /\ got \in Seq(Signals) /\ latched \subseteq Signals

Inv == Types /\ TakesInOrder /\ DueInv /\ CallInv

-----------------------------------------------------------------------------
(* Moving on in a script.                                                  *)

\* A whole script is at its first operation.
LEMMA AtStart ==
  ASSUME NEW s, IsScript(s)
  PROVE  At(s, s, 1, 1) /\ s # <<>>
<1>1. s \in Seq(Blocks) /\ Len(s) > 0 /\ Len(s[1].ops) > 0 /\ s[1] \in Blocks
  BY DEF IsScript
<1>2. s[1].ops \in Seq(Ops)
  BY <1>1 DEF Blocks
<1>3. SubSeq(s[1].ops, 1, Len(s[1].ops)) = s[1].ops
  BY <1>2
<1>4. Tail(s) = SubSeq(s, 2, Len(s)) /\ Head(s) = s[1] /\ s # <<>>
  BY <1>1
<1>5. 1 \in 1..Len(s) /\ 1 \in 1..Len(s[1].ops)
  BY <1>1, <1>2
<1> QED
  BY <1>1, <1>3, <1>4, <1>5 DEF At

\* The operation a rest begins with.
LEMMA AtOp ==
  ASSUME NEW s, IsScript(s), NEW t, NEW i, NEW p, At(t, s, i, p)
  PROVE  /\ t # <<>> /\ Head(Head(t).ops) = s[i].ops[p] /\ Len(Head(t).ops) > 0
         /\ Head(t).must = s[i].must /\ i \in Nat /\ p \in Nat /\ s[i].ops[p] \in Ops
<1>1. i \in 1..Len(s) /\ s[i] \in Blocks /\ p \in 1..Len(s[i].ops) /\ t \in Seq(Blocks) /\ Len(t) > 0
      /\ Head(t).ops = SubSeq(s[i].ops, p, Len(s[i].ops)) /\ Head(t).must = s[i].must
  BY DEF At, IsScript
<1>2. s[i].ops \in Seq(Ops)
  BY <1>1 DEF Blocks
<1> DEFINE q == s[i].ops
<1>3. Head(SubSeq(q, p, Len(q))) = q[p] /\ Len(SubSeq(q, p, Len(q))) > 0 /\ q[p] \in Ops
  BY <1>1, <1>2
<1> QED
  BY <1>1, <1>3

\* The next block.
LEMMA AtNextBlock ==
  ASSUME NEW s, IsScript(s), NEW t, NEW i, NEW p, At(t, s, i, p)
  PROVE  /\ i < Len(s) => At(Tail(t), s, i + 1, 1)
         /\ i = Len(s) => Tail(t) = <<>>
         /\ i < Len(s) \/ i = Len(s)
<1>1. /\ i \in 1..Len(s) /\ s \in Seq(Blocks) /\ Tail(t) = SubSeq(s, i + 1, Len(s))
      /\ \A j \in 1..Len(s) : Len(s[j].ops) > 0
  BY DEF At, IsScript
<1>2. ASSUME i < Len(s) PROVE At(Tail(t), s, i + 1, 1)
  <2>1. i + 1 \in 1..Len(s)
    BY <1>1, <1>2
  <2>2. s[i + 1] \in Blocks
    BY <1>1, <2>1
  <2>3. s[i + 1].ops \in Seq(Ops) /\ Len(s[i + 1].ops) > 0
    BY <1>1, <2>1, <2>2 DEF Blocks
  <2>4. /\ SubSeq(s, i + 1, Len(s)) \in Seq(Blocks) /\ Len(SubSeq(s, i + 1, Len(s))) > 0
        /\ Head(SubSeq(s, i + 1, Len(s))) = s[i + 1]
        /\ Tail(SubSeq(s, i + 1, Len(s))) = SubSeq(s, i + 1 + 1, Len(s))
    BY <1>1, <2>1
  <2>5. SubSeq(s[i + 1].ops, 1, Len(s[i + 1].ops)) = s[i + 1].ops /\ 1 \in 1..Len(s[i + 1].ops)
    BY <2>3
  <2> QED
    BY <1>1, <2>1, <2>4, <2>5 DEF At
<1>3. ASSUME i = Len(s) PROVE Tail(t) = <<>>
  BY <1>1, <1>3
<1> QED
  BY <1>1, <1>2, <1>3

\* What is left after the next operation.
RestOf(t) ==
  LET b == Head(t)
  IN IF Len(b.ops) > 1 THEN <<[b EXCEPT !.ops = Tail(b.ops)]>> \o Tail(t) ELSE Tail(t)

\* The place after the next operation: in the same block, or at its end.
LEMMA AtRest ==
  ASSUME NEW s, IsScript(s), NEW t, NEW i, NEW p, At(t, s, i, p)
  PROVE  /\ p < Len(s[i].ops) => At(RestOf(t), s, i, p + 1)
         /\ p = Len(s[i].ops) => RestOf(t) = Tail(t)
         /\ p < Len(s[i].ops) \/ p = Len(s[i].ops)
<1>1. /\ i \in 1..Len(s) /\ s[i] \in Blocks /\ p \in 1..Len(s[i].ops) /\ t \in Seq(Blocks) /\ Len(t) > 0
      /\ Head(t).ops = SubSeq(s[i].ops, p, Len(s[i].ops)) /\ Head(t).must = s[i].must
      /\ Tail(t) = SubSeq(s, i + 1, Len(s))
  BY DEF At, IsScript
<1>2. s[i].ops \in Seq(Ops)
  BY <1>1 DEF Blocks
<1> DEFINE q == s[i].ops
           n == Len(q)
<1>3. Len(SubSeq(q, p, n)) = n - p + 1 /\ n \in Nat /\ p \in 1..n
  BY <1>1, <1>2
<1>4. ASSUME p < n PROVE At(RestOf(t), s, i, p + 1)
  <2> DEFINE b == [Head(t) EXCEPT !.ops = Tail(Head(t).ops)]
  <2>1. Tail(SubSeq(q, p, n)) = SubSeq(q, p + 1, n) /\ SubSeq(q, p + 1, n) \in Seq(Ops)
    BY <1>1, <1>2, <1>4
  <2>2. Head(t) \in Blocks /\ Tail(t) \in Seq(Blocks)
    BY <1>1
  <2>3. b \in Blocks /\ b.ops = SubSeq(q, p + 1, n) /\ b.must = s[i].must
    BY <1>1, <2>1, <2>2 DEF Blocks
  <2>4. RestOf(t) = <<b>> \o Tail(t)
    BY <1>1, <1>3, <1>4 DEF RestOf
  <2> HIDE DEF b
  <2>5. /\ <<b>> \o Tail(t) \in Seq(Blocks) /\ Len(<<b>> \o Tail(t)) > 0
        /\ Head(<<b>> \o Tail(t)) = b /\ Tail(<<b>> \o Tail(t)) = Tail(t)
    BY <2>2, <2>3
  <2>6. p + 1 \in 1..Len(s[i].ops)
    BY <1>3, <1>4
  <2>7. ASSUME NEW r, r = RestOf(t) PROVE At(r, s, i, p + 1)
    <3>1. /\ r \in Seq(Blocks) /\ Len(r) > 0 /\ Head(r).must = s[i].must
          /\ Head(r).ops = SubSeq(s[i].ops, p + 1, Len(s[i].ops)) /\ Tail(r) = SubSeq(s, i + 1, Len(s))
      BY <1>1, <2>3, <2>4, <2>5, <2>7
    <3> QED
      BY <1>1, <2>6, <3>1 DEF At
  <2> QED
    BY <2>7
<1>5. ASSUME p = n PROVE RestOf(t) = Tail(t)
  <2>1. Len(Head(t).ops) = n - p + 1
    BY <1>1, <1>3, Zenon
  <2>2. n - p + 1 = 1
    BY <1>3, <1>5
  <2>3. ~(Len(Head(t).ops) > 1)
    BY <2>1, <2>2
  <2> QED
    BY <2>3, Zenon DEF RestOf
<1> QED
  BY <1>3, <1>4, <1>5

-----------------------------------------------------------------------------
(* The scripts, written out.                                               *)

\* Two sequences one after the other.
LEMMA Joined ==
  ASSUME NEW S, NEW s \in Seq(S), NEW t \in Seq(S)
  PROVE  /\ s \o t \in Seq(S) /\ Len(s \o t) = Len(s) + Len(t)
         /\ \A i \in 1..Len(s) : (s \o t)[i] = s[i]
         /\ \A i \in 1..Len(t) : (s \o t)[Len(s) + i] = t[i]
OBVIOUS

\* The operations on a register.
LEMMA RegisterOps ==
  ASSUME NEW r \in Registers, NEW on \in SUBSET Bits, NEW off \in SUBSET Bits
  PROVE  Load(r) \in Ops /\ Save(r, on, off) \in Ops
<1> DEFINE L == {Load(x) : x \in Registers}
           W == {Save(x, y, z) : x \in Registers, y \in SUBSET Bits, z \in SUBSET Bits}
<1>1. Load(r) \in L
  OBVIOUS
<1>2. Save(r, on, off) \in W
  OBVIOUS
<1>3. OnRegister = L \union W
  BY DEF OnRegister
<1> HIDE DEF L, W
<1>4. Load(r) \in OnRegister /\ Save(r, on, off) \in OnRegister
  BY <1>1, <1>2, <1>3
<1> QED
  BY <1>4, Zenon DEF Ops

\* Lists of operations, and of blocks.
LEMMA Lists ==
  ASSUME NEW S
  PROVE  /\ \A x \in S : <<x>> \in Seq(S) /\ Len(<<x>>) = 1 /\ <<x>>[1] = x
         /\ \A x \in S : \A y \in S :
              <<x, y>> \in Seq(S) /\ Len(<<x, y>>) = 2 /\ <<x, y>>[1] = x /\ <<x, y>>[2] = y
         /\ \A x \in S : \A y \in S : \A z \in S :
              /\ <<x, y, z>> \in Seq(S) /\ Len(<<x, y, z>>) = 3
              /\ <<x, y, z>>[1] = x /\ <<x, y, z>>[2] = y /\ <<x, y, z>>[3] = z
OBVIOUS

\* The operations of the scripts.
LEMMA SomeOps ==
  /\ Shift \in Ops /\ Pin(TRUE) \in Ops /\ Pin(FALSE) \in Ops
  /\ Alarm(TRUE) \in Ops /\ Alarm(FALSE) \in Ops
  /\ Wait(1) \in Ops /\ \A n \in Naps : Now(n) \in Ops /\ Wait(n) \in Ops
  /\ Load("ctrl2") \in Ops /\ Load("mode") \in Ops
  /\ Save("ctrl2", {}, {"AF"}) \in Ops /\ Save("ctrl2", {}, {"TF"}) \in Ops
  /\ Save("ctrl2", {"AIE"}, {"AF"}) \in Ops
  /\ Save("mode", {}, {"TIE"}) \in Ops /\ Save("mode", {"TIE"}, {}) \in Ops
  /\ Save("mode", {"TE"}, {}) \in Ops
<1>1. /\ "ctrl2" \in Registers /\ "mode" \in Registers
      /\ {} \in SUBSET Bits /\ {"AF"} \in SUBSET Bits /\ {"TF"} \in SUBSET Bits
      /\ {"TIE"} \in SUBSET Bits /\ {"AIE"} \in SUBSET Bits /\ {"TE"} \in SUBSET Bits
  BY DEF Registers, Bits
<1>2. /\ Shift \in Ops /\ Pin(TRUE) \in Ops /\ Pin(FALSE) \in Ops
      /\ Alarm(TRUE) \in Ops /\ Alarm(FALSE) \in Ops
  BY Zenon DEF Ops
<1>3. Wait(1) \in Timed /\ \A n \in Naps : Now(n) \in Timed /\ Wait(n) \in Timed
  BY DEF Timed
<1>4. \A x \in Timed : x \in Ops
  BY Zenon DEF Ops
<1> QED
  BY <1>1, <1>2, <1>3, <1>4, RegisterOps

\* A list of operations makes a block of either kind.
LEMMA BlockTypes ==
  ASSUME NEW q \in Seq(Ops)
  PROVE  /\ Must(q) \in Blocks /\ Try(q) \in Blocks
         /\ Must(q).ops = q /\ Must(q).must = TRUE /\ Try(q).ops = q /\ Try(q).must = FALSE
BY DEF Must, Try, Blocks

\* The lists of operations by their elements.
IsClear(q) == Len(q) = 2 /\ q[1] = Load("ctrl2") /\ q[2] = Save("ctrl2", {}, {"AF"})
IsStop(q) ==
  /\ Len(q) = 4 /\ q[1] = Load("ctrl2") /\ q[2] = Save("ctrl2", {}, {"TF"})
  /\ q[3] = Load("mode") /\ q[4] = Save("mode", {}, {"TIE"})
IsRtc(q, n) ==
  /\ Len(q) = 6 /\ q[1] = Now(n) /\ q[2] = Load("ctrl2") /\ q[3] = Save("ctrl2", {}, {"AF"})
  /\ q[4] = Alarm(TRUE) /\ q[5] = Load("ctrl2") /\ q[6] = Save("ctrl2", {"AIE"}, {"AF"})
IsTimer(q) ==
  /\ Len(q) = 6 /\ q[1] = Load("mode") /\ q[2] = Save("mode", {"TE"}, {})
  /\ q[3] = Load("ctrl2") /\ q[4] = Save("ctrl2", {}, {"TF"})
  /\ q[5] = Load("mode") /\ q[6] = Save("mode", {"TIE"}, {})

\* What clears the flag of the alarm, written out.
LEMMA ClearTable == AlarmClearState \in Seq(Ops) /\ IsClear(AlarmClearState)
BY SomeOps, Lists, Zenon DEF AlarmClearState, IsClear

\* What switches the interrupt of the timer, written out.
LEMMA StopTable ==
  ASSUME NEW en \in BOOLEAN
  PROVE  LET q == SetTimerInterrupt(en)
         IN /\ q \in Seq(Ops) /\ Len(q) = 4 /\ q[1] = Load("ctrl2") /\ q[2] = Save("ctrl2", {}, {"TF"})
            /\ q[3] = Load("mode")
            /\ q[4] = IF en THEN Save("mode", {"TIE"}, {}) ELSE Save("mode", {}, {"TIE"})
<1> DEFINE x == IF en THEN Save("mode", {"TIE"}, {}) ELSE Save("mode", {}, {"TIE"})
           s == TimerClearState
           t == <<Load("mode"), x>>
<1>1. x \in Ops
  BY SomeOps
<1>2. s \in Seq(Ops) /\ Len(s) = 2 /\ s[1] = Load("ctrl2") /\ s[2] = Save("ctrl2", {}, {"TF"})
  BY SomeOps, Lists, Zenon DEF TimerClearState
<1> HIDE DEF x
<1>3. t \in Seq(Ops) /\ Len(t) = 2 /\ t[1] = Load("mode") /\ t[2] = x
  BY <1>1, SomeOps, Lists, Zenon
<1> HIDE DEF s, t
<1> DEFINE v == s \o t
<1>4. SetTimerInterrupt(en) = v
  BY DEF SetTimerInterrupt, x, s, t
<1>5. /\ v \in Seq(Ops) /\ Len(v) = Len(s) + Len(t)
      /\ \A i \in 1..Len(s) : v[i] = s[i]
      /\ \A i \in 1..Len(t) : v[Len(s) + i] = t[i]
  <2>1. s \in Seq(Ops) /\ t \in Seq(Ops)
    BY <1>2, <1>3
  <2> QED
    BY ONLY <2>1, Joined
<1> HIDE DEF v
<1>6. /\ v \in Seq(Ops) /\ Len(v) = 4
      /\ v[1] = s[1] /\ v[2] = s[2] /\ v[3] = t[1] /\ v[4] = t[2]
  BY ONLY <1>2, <1>3, <1>5
<1> QED
  BY <1>2, <1>3, <1>4, <1>6, Zenon DEF x

\* The block that sets a wake-up, written out.
LEMMA RtcTable ==
  ASSUME NEW n \in Naps
  PROVE  /\ SetRtcWake(n) \in Blocks /\ SetRtcWake(n).must = TRUE
         /\ SetRtcWake(n).ops \in Seq(Ops) /\ IsRtc(SetRtcWake(n).ops, n)
<1> DEFINE a == <<Now(n)>>
           b == AlarmClearState
           c == SetAlarm
           d == SetAlarmInterrupt
<1>1. /\ a \in Seq(Ops) /\ Len(a) = 1 /\ a[1] = Now(n)
      /\ b \in Seq(Ops) /\ Len(b) = 2 /\ b[1] = Load("ctrl2") /\ b[2] = Save("ctrl2", {}, {"AF"})
      /\ c \in Seq(Ops) /\ Len(c) = 1 /\ c[1] = Alarm(TRUE)
      /\ d \in Seq(Ops) /\ Len(d) = 2 /\ d[1] = Load("ctrl2") /\ d[2] = Save("ctrl2", {"AIE"}, {"AF"})
  <2>1. a \in Seq(Ops) /\ Len(a) = 1 /\ a[1] = Now(n)
    BY SomeOps, Lists, Zenon
  <2>2. b \in Seq(Ops) /\ Len(b) = 2 /\ b[1] = Load("ctrl2") /\ b[2] = Save("ctrl2", {}, {"AF"})
    BY ClearTable DEF IsClear
  <2>3. c \in Seq(Ops) /\ Len(c) = 1 /\ c[1] = Alarm(TRUE)
    BY SomeOps, Lists, Zenon DEF SetAlarm
  <2>4. d \in Seq(Ops) /\ Len(d) = 2 /\ d[1] = Load("ctrl2") /\ d[2] = Save("ctrl2", {"AIE"}, {"AF"})
    BY SomeOps, Lists, Zenon DEF SetAlarmInterrupt
  <2> QED
    BY <2>1, <2>2, <2>3, <2>4
<1>2. SetRtcWake(n) = Must(((a \o b) \o c) \o d)
  BY DEF SetRtcWake
<1> HIDE DEF a, b, c, d
<1> DEFINE u == a \o b
<1>3. /\ u \in Seq(Ops) /\ Len(u) = Len(a) + Len(b)
      /\ \A i \in 1..Len(a) : u[i] = a[i]
      /\ \A i \in 1..Len(b) : u[Len(a) + i] = b[i]
  <2>1. a \in Seq(Ops) /\ b \in Seq(Ops)
    BY <1>1
  <2> QED
    BY ONLY <2>1, Joined
<1> HIDE DEF u
<1>4. u \in Seq(Ops) /\ Len(u) = 3 /\ u[1] = a[1] /\ u[2] = b[1] /\ u[3] = b[2]
  BY ONLY <1>1, <1>3
<1> DEFINE v == u \o c
<1>5. /\ v \in Seq(Ops) /\ Len(v) = Len(u) + Len(c)
      /\ \A i \in 1..Len(u) : v[i] = u[i]
      /\ \A i \in 1..Len(c) : v[Len(u) + i] = c[i]
  <2>1. u \in Seq(Ops) /\ c \in Seq(Ops)
    BY <1>1, <1>4
  <2> QED
    BY ONLY <2>1, Joined
<1> HIDE DEF v
<1>6. v \in Seq(Ops) /\ Len(v) = 4 /\ v[1] = u[1] /\ v[2] = u[2] /\ v[3] = u[3] /\ v[4] = c[1]
  <2>2. Len(u) = 3 /\ Len(c) = 1
    BY <1>1, <1>4
  <2>1. v \in Seq(Ops) /\ Len(v) = 4 /\ (\A i \in 1..3 : v[i] = u[i]) /\ \A i \in 1..1 : v[3 + i] = c[i]
    BY ONLY <1>5, <2>2
  <2> QED
    BY ONLY <2>1
<1> DEFINE w == v \o d
<1>7. /\ w \in Seq(Ops) /\ Len(w) = Len(v) + Len(d)
      /\ \A i \in 1..Len(v) : w[i] = v[i]
      /\ \A i \in 1..Len(d) : w[Len(v) + i] = d[i]
  <2>1. v \in Seq(Ops) /\ d \in Seq(Ops)
    BY <1>1, <1>6
  <2> QED
    BY ONLY <2>1, Joined
<1> HIDE DEF w
<1>8. /\ w \in Seq(Ops) /\ Len(w) = 6 /\ w[1] = v[1] /\ w[2] = v[2] /\ w[3] = v[3] /\ w[4] = v[4]
      /\ w[5] = d[1] /\ w[6] = d[2]
  <2>2. Len(v) = 4 /\ Len(d) = 2
    BY <1>1, <1>6
  <2>1. w \in Seq(Ops) /\ Len(w) = 6 /\ (\A i \in 1..4 : w[i] = v[i]) /\ \A i \in 1..2 : w[4 + i] = d[i]
    BY ONLY <1>7, <2>2
  <2> QED
    BY ONLY <2>1
<1>9. IsRtc(w, n)
  BY <1>1, <1>4, <1>6, <1>8, Zenon DEF IsRtc
<1>10. SetRtcWake(n) = Must(w)
  BY <1>2 DEF u, v, w
<1> QED
  BY <1>8, <1>9, <1>10, BlockTypes

\* set_timer, then its interrupt.
LEMMA TimerTable ==
  LET q == SetTimer \o SetTimerInterrupt(TRUE) IN q \in Seq(Ops) /\ IsTimer(q)
<1> DEFINE s == SetTimer
           t == SetTimerInterrupt(TRUE)
<1>1. s \in Seq(Ops) /\ Len(s) = 2 /\ s[1] = Load("mode") /\ s[2] = Save("mode", {"TE"}, {})
  BY SomeOps, Lists, Zenon DEF SetTimer
<1>2. /\ t \in Seq(Ops) /\ Len(t) = 4 /\ t[1] = Load("ctrl2") /\ t[2] = Save("ctrl2", {}, {"TF"})
      /\ t[3] = Load("mode") /\ t[4] = Save("mode", {"TIE"}, {})
  BY StopTable
<1> DEFINE v == s \o t
<1> HIDE DEF s, t
<1>3. /\ v \in Seq(Ops) /\ Len(v) = Len(s) + Len(t)
      /\ \A i \in 1..Len(s) : v[i] = s[i]
      /\ \A i \in 1..Len(t) : v[Len(s) + i] = t[i]
  <2>1. s \in Seq(Ops) /\ t \in Seq(Ops)
    BY <1>1, <1>2
  <2> QED
    BY ONLY <2>1, Joined
<1> HIDE DEF v
<1>4. /\ v \in Seq(Ops) /\ Len(v) = 6 /\ v[1] = s[1] /\ v[2] = s[2]
      /\ v[3] = t[1] /\ v[4] = t[2] /\ v[5] = t[3] /\ v[6] = t[4]
  BY ONLY <1>1, <1>2, <1>3
<1>5. v \in Seq(Ops) /\ IsTimer(v)
  BY <1>1, <1>2, <1>4, Zenon DEF IsTimer
<1> QED
  BY <1>5 DEF v, s, t

\* power_off, and the wait of a sleep behind it.
LEMMA CutTable ==
  /\ PowerOff \in Seq(Ops) /\ Len(PowerOff) = 2 /\ PowerOff[1] = Pin(FALSE) /\ PowerOff[2] = Wait(1)
  /\ \A n \in Naps : LET q == PowerOff \o <<Wait(n)>>
                     IN /\ q \in Seq(Ops) /\ Len(q) = 3 /\ q[1] = Pin(FALSE)
                        /\ q[2] = Wait(1) /\ q[3] = Wait(n)
<1> DEFINE s == PowerOff
<1>1. s \in Seq(Ops) /\ Len(s) = 2 /\ s[1] = Pin(FALSE) /\ s[2] = Wait(1)
  BY SomeOps, Lists, Zenon DEF PowerOff
<1> HIDE DEF s
<1>2. ASSUME NEW n \in Naps
      PROVE  LET q == s \o <<Wait(n)>>
             IN q \in Seq(Ops) /\ Len(q) = 3 /\ q[1] = Pin(FALSE) /\ q[2] = Wait(1) /\ q[3] = Wait(n)
  <2> DEFINE t == <<Wait(n)>>
             v == s \o t
  <2>1. t \in Seq(Ops) /\ Len(t) = 1 /\ t[1] = Wait(n)
    BY SomeOps, Lists, Zenon
  <2> HIDE DEF t
  <2>2. /\ v \in Seq(Ops) /\ Len(v) = Len(s) + Len(t)
        /\ \A i \in 1..Len(s) : v[i] = s[i]
        /\ \A i \in 1..Len(t) : v[Len(s) + i] = t[i]
    <3>1. s \in Seq(Ops) /\ t \in Seq(Ops)
      BY <1>1, <2>1
    <3> QED
      BY ONLY <3>1, Joined
  <2> HIDE DEF v
  <2>3. v \in Seq(Ops) /\ Len(v) = 3 /\ v[1] = s[1] /\ v[2] = s[2] /\ v[3] = t[1]
    <3>2. Len(s) = 2 /\ Len(t) = 1
      BY <1>1, <2>1
    <3>1. v \in Seq(Ops) /\ Len(v) = 3 /\ (\A i \in 1..2 : v[i] = s[i]) /\ \A i \in 1..1 : v[2 + i] = t[i]
      BY ONLY <2>2, <3>2
    <3> QED
      BY ONLY <3>1
  <2>4. v \in Seq(Ops) /\ Len(v) = 3 /\ v[1] = Pin(FALSE) /\ v[2] = Wait(1) /\ v[3] = Wait(n)
    BY <1>1, <2>1, <2>3, Zenon
  <2> QED
    BY <2>4 DEF v, t
<1> QED
  BY <1>1, <1>2 DEF s

\* A list of blocks that has operations in each of them is a script.
LEMMA Scripts ==
  ASSUME NEW s \in Seq(Blocks), Len(s) > 0, \A i \in 1..Len(s) : Len(s[i].ops) > 0
  PROVE  IsScript(s)
BY DEF IsScript

\* The blocks of Quiet end script s.
EndsQuiet(s, k) ==
  /\ Len(s) = k + 3
  /\ s[k + 1].must = FALSE /\ IsClear(s[k + 1].ops)
  /\ s[k + 2].must = FALSE /\ Len(s[k + 2].ops) = 1 /\ s[k + 2].ops[1] = Alarm(FALSE)
  /\ s[k + 3].must = FALSE /\ IsStop(s[k + 3].ops)

\* The blocks that cancel every wake-up, written out.
LEMMA QuietTable ==
  /\ Quiet \in Seq(Blocks) /\ Len(Quiet) = 3
  /\ Quiet[1].must = FALSE /\ IsClear(Quiet[1].ops)
  /\ Quiet[2].must = FALSE /\ Len(Quiet[2].ops) = 1 /\ Quiet[2].ops[1] = Alarm(FALSE)
  /\ Quiet[3].must = FALSE /\ IsStop(Quiet[3].ops)
<1> DEFINE a == Try(AlarmClearState)
           b == Try(AlarmDisable)
           c == Try(SetTimerInterrupt(FALSE))
<1>1. a \in Blocks /\ a.must = FALSE /\ IsClear(a.ops)
  BY ClearTable, BlockTypes
<1>2. b \in Blocks /\ b.must = FALSE /\ Len(b.ops) = 1 /\ b.ops[1] = Alarm(FALSE)
  <2>1. AlarmDisable \in Seq(Ops) /\ Len(AlarmDisable) = 1 /\ AlarmDisable[1] = Alarm(FALSE)
    BY SomeOps, Lists, Zenon DEF AlarmDisable
  <2> QED
    BY <2>1, BlockTypes
<1>3. c \in Blocks /\ c.must = FALSE /\ IsStop(c.ops)
  <2>1. SetTimerInterrupt(FALSE) \in Seq(Ops) /\ IsStop(SetTimerInterrupt(FALSE))
    BY StopTable DEF IsStop
  <2> QED
    BY <2>1, BlockTypes
<1>4. Quiet = <<a, b, c>>
  BY DEF Quiet
<1> HIDE DEF a, b, c
<1>5. Quiet \in Seq(Blocks) /\ Len(Quiet) = 3 /\ Quiet[1] = a /\ Quiet[2] = b /\ Quiet[3] = c
  BY <1>1, <1>2, <1>3, <1>4, Lists, Zenon
<1> QED
  BY <1>1, <1>2, <1>3, <1>5

\* A boot: the reason is read, then the clock chip is silenced.
LEMMA SetupTable ==
  /\ IsScript(Setup) /\ EndsQuiet(Setup, 1) /\ Len(Setup) = 4
  /\ Setup[1].must = TRUE /\ Len(Setup[1].ops) = 2
  /\ Setup[1].ops[1] = Pin(TRUE) /\ Setup[1].ops[2] = Shift
<1> DEFINE q == <<Pin(TRUE), Shift>>
           s == <<Must(q)>>
           t == Quiet
           v == s \o t
<1>1. q \in Seq(Ops) /\ Len(q) = 2 /\ q[1] = Pin(TRUE) /\ q[2] = Shift
  BY SomeOps, Lists, Zenon
<1> HIDE DEF q
<1>2. Must(q) \in Blocks /\ Must(q).must = TRUE /\ Must(q).ops = q
  BY <1>1, BlockTypes
<1>3. s \in Seq(Blocks) /\ Len(s) = 1 /\ s[1] = Must(q)
  BY <1>2, Lists, Zenon
<1>4. Setup = v
  BY DEF Setup, q
<1>5. t \in Seq(Blocks) /\ Len(t) = 3
  BY QuietTable
<1> HIDE DEF s, t
<1>6. /\ v \in Seq(Blocks) /\ Len(v) = Len(s) + Len(t)
      /\ \A i \in 1..Len(s) : v[i] = s[i]
      /\ \A i \in 1..Len(t) : v[Len(s) + i] = t[i]
  <2>1. s \in Seq(Blocks) /\ t \in Seq(Blocks)
    BY <1>3, <1>5
  <2> QED
    BY ONLY <2>1, Joined
<1> HIDE DEF v
<1>7. v \in Seq(Blocks) /\ Len(v) = 4 /\ v[1] = s[1] /\ v[2] = t[1] /\ v[3] = t[2] /\ v[4] = t[3]
  <2>1. Len(s) = 1 /\ Len(t) = 3
    BY <1>3, <1>5
  <2>2. v \in Seq(Blocks) /\ Len(v) = 4 /\ (\A i \in 1..1 : v[i] = s[i]) /\ \A i \in 1..3 : v[1 + i] = t[i]
    BY ONLY <1>6, <2>1
  <2> QED
    BY ONLY <2>2
<1>8. /\ v[1].must = TRUE /\ v[1].ops = q
      /\ v[2] = Quiet[1] /\ v[3] = Quiet[2] /\ v[4] = Quiet[3]
  BY <1>2, <1>3, <1>7, Zenon DEF t
<1>9. EndsQuiet(v, 1)
  <2>1. /\ v[2].must = FALSE /\ IsClear(v[2].ops)
        /\ v[3].must = FALSE /\ Len(v[3].ops) = 1 /\ v[3].ops[1] = Alarm(FALSE)
        /\ v[4].must = FALSE /\ IsStop(v[4].ops)
    BY <1>8, QuietTable, Zenon
  <2>2. Len(v) = 1 + 3 /\ 1 + 1 = 2 /\ 1 + 2 = 3 /\ 1 + 3 = 4
    BY <1>7
  <2> QED
    BY ONLY <2>1, <2>2 DEF EndsQuiet
<1>10. IsScript(v)
  <2>1. Len(v[1].ops) > 0 /\ Len(v[2].ops) > 0 /\ Len(v[3].ops) > 0 /\ Len(v[4].ops) > 0
    BY <1>1, <1>8, QuietTable DEF IsClear, IsStop
  <2>2. \A i \in 1..Len(v) : Len(v[i].ops) > 0
    BY <1>7, <2>1
  <2>3. Len(v) > 0
    BY <1>7
  <2> QED
    BY <1>7, <2>2, <2>3, Scripts, Zenon
<1>11. Len(v[1].ops) = 2 /\ v[1].ops[1] = Pin(TRUE) /\ v[1].ops[2] = Shift
  BY <1>1, <1>8, Zenon
<1> QED
  BY <1>4, <1>7, <1>8, <1>9, <1>10, <1>11, Zenon

\* A sleep: the wake-up is set, the power is cut, and what is left is cancelled.
LEMMA SleepTable ==
  ASSUME NEW n \in Naps
  PROVE  LET s == DeepSleep(n)
         IN /\ IsScript(s) /\ EndsQuiet(s, 2) /\ Len(s) = 5
            /\ s[1].must = TRUE /\ IsRtc(s[1].ops, n)
            /\ s[2].must = FALSE /\ Len(s[2].ops) = 3 /\ s[2].ops[1] = Pin(FALSE)
            /\ s[2].ops[2] = Wait(1) /\ s[2].ops[3] = Wait(n)
<1> DEFINE q == PowerOff \o <<Wait(n)>>
           s == <<SetRtcWake(n), Try(q)>>
           t == Quiet
           v == s \o t
<1>1. q \in Seq(Ops) /\ Len(q) = 3 /\ q[1] = Pin(FALSE) /\ q[2] = Wait(1) /\ q[3] = Wait(n)
  BY CutTable
<1> HIDE DEF q
<1>2. /\ Try(q) \in Blocks /\ Try(q).must = FALSE /\ Try(q).ops = q
      /\ SetRtcWake(n) \in Blocks /\ SetRtcWake(n).must = TRUE /\ IsRtc(SetRtcWake(n).ops, n)
  BY <1>1, BlockTypes, RtcTable
<1>3. s \in Seq(Blocks) /\ Len(s) = 2 /\ s[1] = SetRtcWake(n) /\ s[2] = Try(q)
  BY <1>2, Lists, Zenon
<1>4. DeepSleep(n) = v
  BY DEF DeepSleep, q
<1>5. t \in Seq(Blocks) /\ Len(t) = 3
  BY QuietTable
<1> HIDE DEF s, t
<1>6. /\ v \in Seq(Blocks) /\ Len(v) = Len(s) + Len(t)
      /\ \A i \in 1..Len(s) : v[i] = s[i]
      /\ \A i \in 1..Len(t) : v[Len(s) + i] = t[i]
  <2>1. s \in Seq(Blocks) /\ t \in Seq(Blocks)
    BY <1>3, <1>5
  <2> QED
    BY ONLY <2>1, Joined
<1> HIDE DEF v
<1>7. /\ v \in Seq(Blocks) /\ Len(v) = 5 /\ v[1] = s[1] /\ v[2] = s[2]
      /\ v[3] = t[1] /\ v[4] = t[2] /\ v[5] = t[3]
  <2>1. Len(s) = 2 /\ Len(t) = 3
    BY <1>3, <1>5
  <2>2. v \in Seq(Blocks) /\ Len(v) = 5 /\ (\A i \in 1..2 : v[i] = s[i]) /\ \A i \in 1..3 : v[2 + i] = t[i]
    BY ONLY <1>6, <2>1
  <2> QED
    BY ONLY <2>2
<1>8. /\ v[1].must = TRUE /\ IsRtc(v[1].ops, n) /\ v[2].must = FALSE /\ v[2].ops = q
      /\ v[3] = Quiet[1] /\ v[4] = Quiet[2] /\ v[5] = Quiet[3]
  BY <1>2, <1>3, <1>7, Zenon DEF t
<1>9. EndsQuiet(v, 2)
  <2>1. /\ v[3].must = FALSE /\ IsClear(v[3].ops)
        /\ v[4].must = FALSE /\ Len(v[4].ops) = 1 /\ v[4].ops[1] = Alarm(FALSE)
        /\ v[5].must = FALSE /\ IsStop(v[5].ops)
    BY <1>8, QuietTable, Zenon
  <2>2. Len(v) = 2 + 3 /\ 2 + 1 = 3 /\ 2 + 2 = 4 /\ 2 + 3 = 5
    BY <1>7
  <2> QED
    BY ONLY <2>1, <2>2 DEF EndsQuiet
<1>10. IsScript(v)
  <2>1. /\ Len(v[1].ops) > 0 /\ Len(v[2].ops) > 0 /\ Len(v[3].ops) > 0 /\ Len(v[4].ops) > 0
        /\ Len(v[5].ops) > 0
    <3>1. /\ Len(v[1].ops) = 6 /\ Len(v[2].ops) = 3 /\ Len(v[3].ops) = 2 /\ Len(v[4].ops) = 1
          /\ Len(v[5].ops) = 4
      BY <1>1, <1>8, QuietTable, Zenon DEF IsClear, IsStop, IsRtc
    <3> QED
      BY ONLY <3>1
  <2>2. \A i \in 1..Len(v) : Len(v[i].ops) > 0
    BY <1>7, <2>1
  <2>3. Len(v) > 0
    BY <1>7
  <2> QED
    BY <1>7, <2>2, <2>3, Scripts, Zenon
<1>11. Len(v[2].ops) = 3 /\ v[2].ops[1] = Pin(FALSE) /\ v[2].ops[2] = Wait(1) /\ v[2].ops[3] = Wait(n)
  BY <1>1, <1>8, Zenon
<1> QED
  BY <1>4, <1>7, <1>8, <1>9, <1>10, <1>11, Zenon

\* A script of one block.
LEMMA SingleTable ==
  ASSUME NEW b \in Blocks, Len(b.ops) > 0
  PROVE  LET s == <<b>> IN IsScript(s) /\ Len(s) = 1 /\ s[1] = b
<1> DEFINE s == <<b>>
<1>1. s \in Seq(Blocks) /\ Len(s) = 1 /\ s[1] = b
  BY Lists, Zenon
<1> HIDE DEF s
<1>2. \A i \in 1..Len(s) : Len(s[i].ops) > 0
  BY <1>1
<1>3. IsScript(s)
  BY <1>1, <1>2, Scripts
<1> QED
  BY <1>1, <1>3 DEF s

\* The shape of the scripts of a call.
Shape(c, s) ==
  /\ IsScript(s)
  /\ c = "setup" => /\ EndsQuiet(s, 1) /\ s[1].must = TRUE /\ Len(s[1].ops) = 2
                    /\ s[1].ops[1] = Pin(TRUE) /\ s[1].ops[2] = Shift
  /\ c = "set_rtc_wake" => Len(s) = 1 /\ s[1].must = TRUE /\ \E n \in Naps : IsRtc(s[1].ops, n)
  /\ c = "deep_sleep" => /\ EndsQuiet(s, 2) /\ s[1].must = TRUE /\ \E n \in Naps : IsRtc(s[1].ops, n)
                         /\ Len(s[2].ops) = 3 /\ s[2].ops[1] = Pin(FALSE)
                         /\ s[2].ops[2] = Wait(1) /\ \E n \in Naps : s[2].ops[3] = Wait(n)
  /\ c = "power_off" => /\ Len(s) = 1 /\ Len(s[1].ops) = 2
                        /\ s[1].ops[1] = Pin(FALSE) /\ s[1].ops[2] = Wait(1)
  /\ c = "set_timer" => Len(s) = 1 /\ s[1].must = TRUE /\ IsTimer(s[1].ops)

\* Every script of a call has its shape.
LEMMA ScriptShape ==
  ASSUME NEW c \in Calls, NEW s \in ScriptsOf(c)
  PROVE  Shape(c, s)
<1>1. CASE c = "setup"
  <2>1. s = Setup
    BY <1>1 DEF ScriptsOf
  <2> QED
    BY <1>1, <2>1, SetupTable, Zenon DEF Shape
<1>2. CASE c = "set_rtc_wake"
  <2>1. PICK n \in Naps : s = <<SetRtcWake(n)>>
    BY <1>2 DEF ScriptsOf
  <2>2. SetRtcWake(n) \in Blocks /\ SetRtcWake(n).must = TRUE /\ IsRtc(SetRtcWake(n).ops, n)
    BY RtcTable
  <2>3. Len(SetRtcWake(n).ops) > 0
    BY <2>2 DEF IsRtc
  <2>4. IsScript(s) /\ Len(s) = 1 /\ s[1] = SetRtcWake(n)
    BY <2>1, <2>2, <2>3, SingleTable, Zenon
  <2> QED
    BY <1>2, <2>2, <2>4, Zenon DEF Shape
<1>3. CASE c = "deep_sleep"
  <2>1. PICK n \in Naps : s = DeepSleep(n)
    BY <1>3 DEF ScriptsOf
  <2> QED
    BY <1>3, <2>1, SleepTable, Zenon DEF Shape
<1>4. CASE c = "power_off"
  <2>1. s = <<Try(PowerOff)>>
    BY <1>4 DEF ScriptsOf
  <2>2. Try(PowerOff) \in Blocks /\ Try(PowerOff).ops = PowerOff /\ Len(PowerOff) = 2
    BY CutTable, BlockTypes
  <2>3. Len(Try(PowerOff).ops) > 0
    BY <2>2
  <2>4. IsScript(s) /\ Len(s) = 1 /\ s[1] = Try(PowerOff)
    BY <2>1, <2>2, <2>3, SingleTable, Zenon
  <2> QED
    BY <1>4, <2>2, <2>4, CutTable, Zenon DEF Shape
<1>5. CASE c = "set_timer"
  <2> DEFINE q == SetTimer \o SetTimerInterrupt(TRUE)
  <2>1. s = <<Must(q)>>
    BY <1>5 DEF ScriptsOf, Timer
  <2>2. q \in Seq(Ops) /\ IsTimer(q)
    BY TimerTable
  <2> HIDE DEF q
  <2>5. Must(q) \in Blocks /\ Must(q).ops = q /\ Must(q).must = TRUE
    BY <2>2, BlockTypes
  <2>6. Len(q) = 6
    BY <2>2 DEF IsTimer
  <2>3. Must(q) \in Blocks /\ Must(q).ops = q /\ Must(q).must = TRUE /\ Len(Must(q).ops) > 0
    BY <2>5, <2>6
  <2>4. IsScript(s) /\ Len(s) = 1 /\ s[1] = Must(q)
    BY <2>1, <2>3, SingleTable, Zenon
  <2> QED
    BY <1>5, <2>2, <2>3, <2>4, Zenon DEF Shape
<1> QED
  BY <1>1, <1>2, <1>3, <1>4, <1>5 DEF Calls

-----------------------------------------------------------------------------
(* What a call may be at.                                                  *)

\* The operations that set a wake-up, by their number.
LEMMA RtcOps ==
  ASSUME NEW q, NEW n, IsRtc(q, n), NEW p \in 1..Len(q)
  PROVE  \/ p = 1 /\ q[p] = Now(n)
         \/ p \in {2, 5} /\ q[p] = Load("ctrl2")
         \/ p = 3 /\ q[p] = Save("ctrl2", {}, {"AF"})
         \/ p = 4 /\ q[p] = Alarm(TRUE)
         \/ p = 6 /\ q[p] = Save("ctrl2", {"AIE"}, {"AF"})
<1>1. p = 1 \/ p = 2 \/ p = 3 \/ p = 4 \/ p = 5 \/ p = 6
  BY DEF IsRtc
<1> QED
  BY <1>1 DEF IsRtc

\* The operations that set the timer, by their number.
LEMMA TimerOps ==
  ASSUME NEW q, IsTimer(q), NEW p \in 1..Len(q)
  PROVE  \/ p \in {1, 5} /\ q[p] = Load("mode")
         \/ p = 2 /\ q[p] = Save("mode", {"TE"}, {})
         \/ p = 3 /\ q[p] = Load("ctrl2")
         \/ p = 4 /\ q[p] = Save("ctrl2", {}, {"TF"})
         \/ p = 6 /\ q[p] = Save("mode", {"TIE"}, {})
<1>1. p = 1 \/ p = 2 \/ p = 3 \/ p = 4 \/ p = 5 \/ p = 6
  BY DEF IsTimer
<1> QED
  BY <1>1 DEF IsTimer

\* Operation o, number p of the m in block i, of a script whose last blocks follow block k.
QuietOp(k, i, p, o, m) ==
  \/ i = k + 1 /\ p = 1 /\ m = 2 /\ o = Load("ctrl2")
  \/ i = k + 1 /\ p = 2 /\ m = 2 /\ o = Save("ctrl2", {}, {"AF"})
  \/ i = k + 2 /\ p = 1 /\ m = 1 /\ o = Alarm(FALSE)
  \/ i = k + 3 /\ p = 1 /\ m = 4 /\ o = Load("ctrl2")
  \/ i = k + 3 /\ p = 2 /\ m = 4 /\ o = Save("ctrl2", {}, {"TF"})
  \/ i = k + 3 /\ p = 3 /\ m = 4 /\ o = Load("mode")
  \/ i = k + 3 /\ p = 4 /\ m = 4 /\ o = Save("mode", {}, {"TIE"})

\* The operations of the cancelling blocks, by block and number.
LEMMA QuietOps ==
  ASSUME NEW s, NEW k \in Nat, EndsQuiet(s, k), NEW i, i \in (k + 1)..Len(s),
         NEW p, p \in 1..Len(s[i].ops)
  PROVE  s[i].must = FALSE /\ QuietOp(k, i, p, s[i].ops[p], Len(s[i].ops))
<1>1. i = k + 1 \/ i = k + 2 \/ i = k + 3
  BY DEF EndsQuiet
<1>2. CASE i = k + 1
  <2>1. s[i].must = FALSE /\ IsClear(s[i].ops)
    BY <1>2 DEF EndsQuiet
  <2>2. p = 1 \/ p = 2
    BY <2>1 DEF IsClear
  <2> QED
    BY <1>2, <2>1, <2>2, Zenon DEF IsClear, QuietOp
<1>3. CASE i = k + 2
  <2>1. s[i].must = FALSE /\ Len(s[i].ops) = 1 /\ s[i].ops[1] = Alarm(FALSE)
    BY <1>3 DEF EndsQuiet
  <2>2. p = 1
    BY <2>1
  <2> QED
    BY <1>3, <2>1, <2>2, Zenon DEF QuietOp
<1>4. CASE i = k + 3
  <2>1. s[i].must = FALSE /\ IsStop(s[i].ops)
    BY <1>4 DEF EndsQuiet
  <2>2. p = 1 \/ p = 2 \/ p = 3 \/ p = 4
    BY <2>1 DEF IsStop
  <2> QED
    BY <1>4, <2>1, <2>2, Zenon DEF IsStop, QuietOp
<1> QED
  BY <1>1, <1>2, <1>3, <1>4

-----------------------------------------------------------------------------
(* Where a call meets an operation of each kind.                           *)

Count(c) == IF c = "setup" THEN 4 ELSE IF c = "deep_sleep" THEN 5 ELSE 1
SetsAlarm(c, i) == c \in {"set_rtc_wake", "deep_sleep"} /\ i = 1
Cancels(c, i, d) == c \in {"setup", "deep_sleep"} /\ i = QuietAt(c) + d

\* Operation o, number p of the m in block i, in call c.
IsPin(c, i, p, o, m) ==
  /\ p = 1 /\ m > 1
  /\ \/ c = "setup" /\ i = 1
     \/ c = "deep_sleep" /\ i = 2
     \/ c = "power_off" /\ i = 1
IsLoad(c, i, p, o, m) ==
  /\ p < m /\ o.r \in Registers
  /\ \/ SetsAlarm(c, i) /\ p \in {2, 5}
     \/ Cancels(c, i, 1) /\ p = 1
     \/ Cancels(c, i, 3) /\ p \in {1, 3}
     \/ c = "set_timer" /\ i = 1
IsSave(c, i, p, o, m) ==
  /\ p > 1
  /\ \/ SetsAlarm(c, i) /\ p = 3 /\ m = 6 /\ o = Save("ctrl2", {}, {"AF"})
     \/ SetsAlarm(c, i) /\ p = 6 /\ m = 6 /\ o = Save("ctrl2", {"AIE"}, {"AF"})
     \/ Cancels(c, i, 1) /\ p = 2 /\ m = 2 /\ o = Save("ctrl2", {}, {"AF"})
     \/ Cancels(c, i, 3) /\ p = 2 /\ m = 4 /\ o = Save("ctrl2", {}, {"TF"})
     \/ Cancels(c, i, 3) /\ p = 4 /\ m = 4 /\ o = Save("mode", {}, {"TIE"})
     \/ c = "set_timer" /\ i = 1 /\ p = 2 /\ m = 6 /\ o = Save("mode", {"TE"}, {})
     \/ c = "set_timer" /\ i = 1 /\ p = 4 /\ m = 6 /\ o = Save("ctrl2", {}, {"TF"})
     \/ c = "set_timer" /\ i = 1 /\ p = 6 /\ m = 6 /\ o = Save("mode", {"TIE"}, {})
IsAlarm(c, i, p, o, m) ==
  \/ SetsAlarm(c, i) /\ p = 4 /\ m = 6 /\ o = Alarm(TRUE)
  \/ Cancels(c, i, 2) /\ p = 1 /\ m = 1 /\ o = Alarm(FALSE)
IsWait(c, i, p, o, m) ==
  /\ p \in {2, 3}
  /\ \/ c = "deep_sleep" /\ i = 2 /\ p = 2 /\ m = 3 /\ o.secs = 1
     \/ c = "deep_sleep" /\ i = 2 /\ p = 3 /\ m = 3 /\ o.secs \in Naps
     \/ c = "power_off" /\ i = 1 /\ p = 2 /\ m = 2 /\ o.secs = 1

Kind(c, i, p, o, m) ==
  \/ o.do = "pin" /\ IsPin(c, i, p, o, m) /\ o.high \in BOOLEAN
  \/ o.do = "shift" /\ c = "setup" /\ i = 1 /\ p = 2 /\ m = 2
  \/ o.do = "now" /\ SetsAlarm(c, i) /\ p = 1 /\ m = 6 /\ o.secs \in Naps
  \/ o.do = "load" /\ IsLoad(c, i, p, o, m)
  \/ o.do = "save" /\ IsSave(c, i, p, o, m)
  \/ o.do = "alarm" /\ IsAlarm(c, i, p, o, m)
  \/ o.do = "wait" /\ IsWait(c, i, p, o, m)

\* The fields of the operations.
LEMMA Fields ==
  /\ \A h \in BOOLEAN : Pin(h).do = "pin" /\ Pin(h).high = h
  /\ Shift.do = "shift"
  /\ \A n : Now(n).do = "now" /\ Now(n).secs = n /\ Wait(n).do = "wait" /\ Wait(n).secs = n
  /\ \A r : Load(r).do = "load" /\ Load(r).r = r
  /\ \A r, on, off : /\ Save(r, on, off).do = "save" /\ Save(r, on, off).r = r
                     /\ Save(r, on, off).on = on /\ Save(r, on, off).off = off
  /\ \A h \in BOOLEAN : Alarm(h).do = "alarm" /\ Alarm(h).on = h
BY DEF Pin, Shift, Now, Wait, Load, Save, Alarm

\* The operations that set an alarm.
LEMMA RtcKind ==
  ASSUME NEW c, NEW q, NEW n \in Naps, IsRtc(q, n), NEW p \in 1..Len(q), SetsAlarm(c, 1)
  PROVE  Kind(c, 1, p, q[p], Len(q))
<1> DEFINE o == q[p]
<1>1. Len(q) = 6 /\ "ctrl2" \in Registers /\ p \in Nat
  BY DEF IsRtc, Registers
<1>2. CASE p = 1 /\ o = Now(n)
  <2>1. o.do = "now" /\ o.secs \in Naps
    BY <1>2, Fields
  <2> QED
    BY <1>1, <1>2, <2>1 DEF Kind
<1>3. CASE p \in {2, 5} /\ o = Load("ctrl2")
  <2>1. o.do = "load" /\ o.r = "ctrl2"
    BY <1>3, Fields
  <2>2. IsLoad(c, 1, p, o, 6)
    BY <1>1, <1>3, <2>1 DEF IsLoad
  <2> QED
    BY <1>1, <2>1, <2>2, Zenon DEF Kind
<1>4. CASE p = 3 /\ o = Save("ctrl2", {}, {"AF"})
  <2>1. o.do = "save"
    BY <1>4, Fields
  <2>2. IsSave(c, 1, p, o, 6)
    BY <1>4 DEF IsSave
  <2> QED
    BY <1>1, <2>1, <2>2, Zenon DEF Kind
<1>5. CASE p = 4 /\ o = Alarm(TRUE)
  <2>1. o.do = "alarm"
    BY <1>5, Fields
  <2>2. IsAlarm(c, 1, p, o, 6)
    BY <1>5 DEF IsAlarm
  <2> QED
    BY <1>1, <2>1, <2>2, Zenon DEF Kind
<1>6. CASE p = 6 /\ o = Save("ctrl2", {"AIE"}, {"AF"})
  <2>1. o.do = "save"
    BY <1>6, Fields
  <2>2. IsSave(c, 1, p, o, 6)
    BY <1>6 DEF IsSave
  <2> QED
    BY <1>1, <2>1, <2>2, Zenon DEF Kind
<1> QED
  BY <1>2, <1>3, <1>4, <1>5, <1>6, RtcOps, Zenon

\* The operations that set the timer.
LEMMA TimerKind ==
  ASSUME NEW q, IsTimer(q), NEW p \in 1..Len(q)
  PROVE  Kind("set_timer", 1, p, q[p], Len(q))
<1> DEFINE o == q[p]
<1>1. Len(q) = 6 /\ "ctrl2" \in Registers /\ "mode" \in Registers /\ p \in Nat
  BY DEF IsTimer, Registers
<1>2. CASE p \in {1, 3, 5} /\ (o = Load("mode") \/ o = Load("ctrl2"))
  <2>1. o.do = "load" /\ o.r \in Registers
    BY <1>1, <1>2, Fields
  <2>2. IsLoad("set_timer", 1, p, o, 6)
    BY <1>1, <1>2, <2>1 DEF IsLoad
  <2> QED
    BY <1>1, <2>1, <2>2, Zenon DEF Kind
<1>3. CASE \/ p = 2 /\ o = Save("mode", {"TE"}, {})
           \/ p = 4 /\ o = Save("ctrl2", {}, {"TF"})
           \/ p = 6 /\ o = Save("mode", {"TIE"}, {})
  <2>1. o.do = "save"
    BY <1>3, Fields
  <2>2. IsSave("set_timer", 1, p, o, 6)
    BY <1>3 DEF IsSave
  <2> QED
    BY <1>1, <2>1, <2>2, Zenon DEF Kind
<1> QED
  BY <1>2, <1>3, TimerOps

\* The operations that cancel what could wake the board.
LEMMA QuietKind ==
  ASSUME NEW c \in {"setup", "deep_sleep"}, NEW k \in Nat, k = QuietAt(c), NEW s,
         EndsQuiet(s, k), NEW i, i \in (k + 1)..Len(s),
         NEW p, p \in 1..Len(s[i].ops)
  PROVE  Kind(c, i, p, s[i].ops[p], Len(s[i].ops)) /\ s[i].must = FALSE
<1> DEFINE o == s[i].ops[p]
           m == Len(s[i].ops)
<1>1. "ctrl2" \in Registers /\ "mode" \in Registers /\ p \in Nat
  BY DEF Registers
<1>2. s[i].must = FALSE /\ QuietOp(k, i, p, o, m)
  BY QuietOps
<1> HIDE DEF o, m
<1>3. CASE \/ i = k + 1 /\ p = 1 /\ m = 2 /\ o = Load("ctrl2")
           \/ i = k + 3 /\ p = 1 /\ m = 4 /\ o = Load("ctrl2")
           \/ i = k + 3 /\ p = 3 /\ m = 4 /\ o = Load("mode")
  <2>1. o.do = "load" /\ o.r \in Registers
    BY <1>1, <1>3, Fields
  <2>2. IsLoad(c, i, p, o, m)
    BY <1>1, <1>3, <2>1 DEF IsLoad, Cancels
  <2> QED
    BY <1>2, <2>1, <2>2, Zenon DEF Kind, o, m
<1>4. CASE \/ i = k + 1 /\ p = 2 /\ m = 2 /\ o = Save("ctrl2", {}, {"AF"})
           \/ i = k + 3 /\ p = 2 /\ m = 4 /\ o = Save("ctrl2", {}, {"TF"})
           \/ i = k + 3 /\ p = 4 /\ m = 4 /\ o = Save("mode", {}, {"TIE"})
  <2>1. o.do = "save"
    BY <1>4, Fields
  <2>2. IsSave(c, i, p, o, m)
    BY <1>1, <1>4 DEF IsSave, Cancels
  <2> QED
    BY <1>2, <2>1, <2>2, Zenon DEF Kind, o, m
<1>5. CASE i = k + 2 /\ p = 1 /\ m = 1 /\ o = Alarm(FALSE)
  <2>1. o.do = "alarm"
    BY <1>5, Fields
  <2>2. IsAlarm(c, i, p, o, m)
    BY <1>1, <1>5 DEF IsAlarm, Cancels
  <2> QED
    BY <1>2, <2>1, <2>2, Zenon DEF Kind, o, m
<1> QED
  BY <1>2, <1>3, <1>4, <1>5, Zenon DEF QuietOp

\* Operation p of block i of a script of call c, and whether a failure ends the call.
LEMMA KindAt ==
  ASSUME NEW c \in Calls, NEW s, Shape(c, s), NEW i, i \in 1..Len(s), NEW p, p \in 1..Len(s[i].ops)
  PROVE  /\ Kind(c, i, p, s[i].ops[p], Len(s[i].ops)) /\ Len(s) = Count(c)
         /\ i = 1 /\ c # "power_off" => s[i].must = TRUE
         /\ c \in {"setup", "deep_sleep"} /\ i > QuietAt(c) => s[i].must = FALSE
<1> DEFINE q == s[i].ops
           Goal == /\ Kind(c, i, p, q[p], Len(q)) /\ Len(s) = Count(c)
                   /\ i = 1 /\ c # "power_off" => s[i].must = TRUE
                   /\ c \in {"setup", "deep_sleep"} /\ i > QuietAt(c) => s[i].must = FALSE
<1>1. p \in 1..Len(q) /\ i \in 1..Len(s)
  OBVIOUS
<1> SUFFICES Goal
  BY DEF Goal, q
<1> HIDE DEF q, Goal
<1>2. CASE c = "setup" /\ i = 1
  <2>1. Len(q) = 2 /\ q[1] = Pin(TRUE) /\ q[2] = Shift /\ s[i].must = TRUE /\ EndsQuiet(s, 1)
    BY <1>2, Zenon DEF Shape, q
  <2>2. Len(s) = 4
    BY <2>1 DEF EndsQuiet
  <2>3. p = 1 \/ p = 2
    BY <1>1, <2>1
  <2>4. Kind(c, i, p, q[p], Len(q))
    <3>1. CASE p = 1
      <4>1. q[p] = Pin(TRUE)
        BY <2>1, <3>1
      <4>2. q[p].do = "pin" /\ q[p].high \in BOOLEAN
        BY <4>1, Fields, Zenon
      <4>3. IsPin(c, i, p, q[p], Len(q))
        BY <1>2, <2>1, <3>1 DEF IsPin
      <4> QED
        BY <4>2, <4>3, Zenon DEF Kind
    <3>2. CASE p = 2
      BY <1>2, <2>1, <3>2, Fields DEF Kind
    <3> QED
      BY <2>3, <3>1, <3>2
  <2> QED
    BY <1>2, <2>1, <2>2, <2>4 DEF Count, QuietAt, q, Goal
<1>3. CASE c \in {"set_rtc_wake", "deep_sleep"} /\ i = 1
  <2>1. PICK n \in Naps : IsRtc(q, n)
    BY <1>3 DEF Shape, q
  <2>2. s[i].must = TRUE /\ Len(s) = Count(c)
    <3>1. s[i].must = TRUE /\ (c = "deep_sleep" => EndsQuiet(s, 2)) /\ (c = "set_rtc_wake" => Len(s) = 1)
      BY <1>3, Zenon DEF Shape
    <3>2. EndsQuiet(s, 2) => Len(s) = 5
      BY DEF EndsQuiet
    <3> QED
      BY <1>3, <3>1, <3>2 DEF Count
  <2>3. SetsAlarm(c, 1)
    BY <1>3 DEF SetsAlarm
  <2>4. Kind(c, 1, p, q[p], Len(q))
    BY <1>1, <2>1, <2>3, RtcKind
  <2> QED
    BY <1>3, <2>2, <2>4 DEF QuietAt, q, Goal
<1>4. CASE c = "deep_sleep" /\ i = 2
  <2>1. /\ Len(q) = 3 /\ q[1] = Pin(FALSE) /\ q[2] = Wait(1) /\ \E n \in Naps : q[3] = Wait(n)
        /\ EndsQuiet(s, 2)
    BY <1>4, Zenon DEF Shape, q
  <2>2. Len(s) = 5
    BY <2>1 DEF EndsQuiet
  <2>3. p = 1 \/ p = 2 \/ p = 3
    BY <1>1, <2>1
  <2>4. Kind(c, i, p, q[p], Len(q))
    <3>1. CASE p = 1
      <4>1. q[p] = Pin(FALSE)
        BY <2>1, <3>1
      <4>2. q[p].do = "pin" /\ q[p].high \in BOOLEAN
        BY <4>1, Fields, Zenon
      <4>3. IsPin(c, i, p, q[p], Len(q))
        BY <1>4, <2>1, <3>1 DEF IsPin
      <4> QED
        BY <4>2, <4>3, Zenon DEF Kind
    <3>2. CASE p \in {2, 3}
      BY <1>4, <2>1, <3>2, Fields DEF Kind, IsWait
    <3> QED
      BY <2>3, <3>1, <3>2
  <2> QED
    BY <1>4, <2>2, <2>4 DEF Count, QuietAt, q, Goal
<1>5. CASE c = "power_off"
  <2>5. Len(s) = 1
    BY <1>5, Zenon DEF Shape
  <2>1. Len(s) = 1 /\ i = 1
    BY <1>1, <2>5
  <2>2. Len(q) = 2 /\ q[1] = Pin(FALSE) /\ q[2] = Wait(1)
    BY <1>5, <2>1, Zenon DEF Shape, q
  <2>3. p = 1 \/ p = 2
    BY <1>1, <2>2
  <2>4. Kind(c, i, p, q[p], Len(q))
    <3>1. CASE p = 1
      <4>1. q[p] = Pin(FALSE)
        BY <2>1, <2>2, <3>1
      <4>2. q[p].do = "pin" /\ q[p].high \in BOOLEAN
        BY <4>1, Fields, Zenon
      <4>3. IsPin(c, i, p, q[p], Len(q))
        BY <1>5, <2>1, <2>2, <3>1 DEF IsPin
      <4> QED
        BY <4>2, <4>3, Zenon DEF Kind
    <3>2. CASE p = 2
      BY <1>5, <2>1, <2>2, <3>2, Fields DEF Kind, IsWait
    <3> QED
      BY <2>3, <3>1, <3>2
  <2> QED
    BY <1>5, <2>1, <2>4 DEF Count, QuietAt, q, Goal
<1>6. CASE c = "set_timer"
  <2>4. Len(s) = 1 /\ s[1].must = TRUE /\ IsTimer(s[1].ops)
    BY <1>6, Zenon DEF Shape
  <2>1. Len(s) = 1 /\ i = 1 /\ s[i].must = TRUE /\ IsTimer(s[1].ops)
    BY <1>1, <2>4
  <2>2. IsTimer(q)
    BY <2>1 DEF q
  <2>3. Kind(c, 1, p, q[p], Len(q))
    BY <1>1, <1>6, <2>2, TimerKind
  <2> QED
    BY <1>6, <2>1, <2>3 DEF Count, QuietAt, q, Goal
<1>7. CASE c \in {"setup", "deep_sleep"} /\ i > QuietAt(c)
  <2> DEFINE k == QuietAt(c)
  <2>1. k \in Nat /\ EndsQuiet(s, k)
    BY <1>7 DEF Shape, QuietAt
  <2>2. Len(s) = Count(c) /\ i # 1
    BY <1>1, <1>7, <2>1 DEF EndsQuiet, Count, QuietAt
  <2>3. i \in (k + 1)..Len(s) /\ p \in 1..Len(s[i].ops)
    BY <1>1, <1>7, <2>1 DEF q
  <2>4. PICK h \in Nat : h = k
    BY <2>1
  <2>5. EndsQuiet(s, h) /\ h = QuietAt(c) /\ i \in (h + 1)..Len(s)
    BY <2>1, <2>3, <2>4
  <2>6. Kind(c, i, p, s[i].ops[p], Len(s[i].ops)) /\ s[i].must = FALSE
    BY <1>7, <2>3, <2>5, QuietKind
  <2> QED
    BY <2>2, <2>6 DEF q, Goal
<1>8. i = 1 \/ i = 2 \/ i > 2
  BY <1>1
<1>9. QuietAt(c) = IF c = "setup" THEN 1 ELSE 2
  BY DEF QuietAt
<1>10. c = "set_rtc_wake" => i = 1
  <2> SUFFICES ASSUME c = "set_rtc_wake" PROVE i = 1
    OBVIOUS
  <2>1. Len(s) = 1
    BY Zenon DEF Shape
  <2> QED
    BY ONLY <1>1, <2>1
<1>11. \/ c = "setup" /\ i = 1
       \/ c \in {"set_rtc_wake", "deep_sleep"} /\ i = 1
       \/ c = "deep_sleep" /\ i = 2
       \/ c = "power_off" \/ c = "set_timer"
       \/ c \in {"setup", "deep_sleep"} /\ i > QuietAt(c)
  BY <1>1, <1>8, <1>9, <1>10 DEF Calls
<1> QED
  BY <1>2, <1>3, <1>4, <1>5, <1>6, <1>7, <1>11, Zenon

\* The operation after o is a write only if o reads the same register, which nothing
\* else can be done to in between.
Feeds(o, w) == w.do = "save" => o = Load(w.r)

\* A write follows the read it changes.
LEMMA SaveFollowsLoad ==
  ASSUME NEW c \in Calls, NEW s, Shape(c, s), NEW i, i \in 1..Len(s), NEW p, p \in 1..Len(s[i].ops),
         NEW n, n = p + 1, n \in 1..Len(s[i].ops)
  PROVE  Feeds(s[i].ops[p], s[i].ops[n])
<1> DEFINE q == s[i].ops
           o == q[n]
           m == Len(q)
<1>0. SUFFICES ASSUME o.do = "save" PROVE q[p] = Load(o.r)
  BY Zenon DEF q, o, Feeds
<1>1. Kind(c, i, n, o, m)
  BY KindAt
<1>2. IsSave(c, i, n, o, m) /\ o.do = "save"
  BY <1>0, <1>1 DEF Kind
<1> HIDE DEF q, o, m
<1>3. \/ i = 1 /\ (p = 2 \/ p = 5) /\ SetsAlarm(c, i) /\ o.r = "ctrl2"
      \/ Cancels(c, i, 1) /\ p = 1 /\ o.r = "ctrl2"
      \/ Cancels(c, i, 3) /\ p = 1 /\ o.r = "ctrl2"
      \/ Cancels(c, i, 3) /\ p = 3 /\ o.r = "mode"
      \/ c = "set_timer" /\ i = 1 /\ p = 1 /\ o.r = "mode"
      \/ c = "set_timer" /\ i = 1 /\ p = 3 /\ o.r = "ctrl2"
      \/ c = "set_timer" /\ i = 1 /\ p = 5 /\ o.r = "mode"
  <2>1. p \in Nat /\ n = p + 1
    OBVIOUS
  <2> QED
    BY <1>2, <2>1, Fields DEF IsSave, SetsAlarm
<1>4. CASE i = 1 /\ (p = 2 \/ p = 5) /\ SetsAlarm(c, i) /\ o.r = "ctrl2"
  <2>1. \E d \in Naps : IsRtc(q, d)
    BY <1>4 DEF Shape, SetsAlarm, q
  <2> QED
    BY <1>4, <2>1, Zenon DEF IsRtc
<1>5. CASE c = "set_timer" /\ i = 1
  <2>1. IsTimer(q)
    BY <1>5 DEF Shape, q
  <2>2. ~SetsAlarm(c, i) /\ ~Cancels(c, i, 1) /\ ~Cancels(c, i, 3)
    BY <1>5 DEF SetsAlarm, Cancels
  <2> QED
    BY <1>3, <2>1, <2>2, Zenon DEF IsTimer
<1>6. CASE Cancels(c, i, 1) /\ p = 1 /\ o.r = "ctrl2"
  <2>1. IsClear(q)
    BY <1>6 DEF Cancels, Shape, EndsQuiet, QuietAt, q
  <2> QED
    BY <1>6, <2>1, Zenon DEF IsClear
<1>7. CASE Cancels(c, i, 3) /\ ((p = 1 /\ o.r = "ctrl2") \/ (p = 3 /\ o.r = "mode"))
  <2>1. IsStop(q)
    BY <1>7 DEF Cancels, Shape, EndsQuiet, QuietAt, q
  <2> QED
    BY <1>7, <2>1, Zenon DEF IsStop
<1> QED
  <2>1. \/ i = 1 /\ (p = 2 \/ p = 5) /\ SetsAlarm(c, i) /\ o.r = "ctrl2"
        \/ Cancels(c, i, 1) /\ p = 1 /\ o.r = "ctrl2"
        \/ Cancels(c, i, 3) /\ ((p = 1 /\ o.r = "ctrl2") \/ (p = 3 /\ o.r = "mode"))
        \/ c = "set_timer" /\ i = 1
    BY ONLY <1>3
  <2> QED
    BY <2>1, <1>4, <1>5, <1>6, <1>7, Zenon

-----------------------------------------------------------------------------
(* The place of the running call, and how a step moves it.                 *)

\* Call c is at operation p of block i of its script s.
Placed(c, s, i, p) ==
  /\ c \in Calls /\ c = call /\ s \in ScriptsOf(c) /\ Shape(c, s)
  /\ i \in 1..Len(s) /\ p \in 1..Len(s[i].ops) /\ At(todo, s, i, p)
  /\ Marks(c, i, p) /\ InOp(s[i].ops[p])

BlockHasOps == InCall => Len(Head(todo).ops) > 0
ReasonKnown == woken = "rtc" => wake # "None"

\* A running call has a place.
LEMMA Place ==
  ASSUME CallInv, power = "on", InCall
  PROVE  \E c, s, i, p : Placed(c, s, i, p)
<1>1. PICK c \in Calls : c = call /\
        \E s \in ScriptsOf(c) : \E i \in 1..Len(s) : \E p \in 1..Len(s[i].ops) :
           At(todo, s, i, p) /\ Holds(c, s, i, p)
  BY Zenon DEF CallInv
<1>2. PICK s \in ScriptsOf(c) : \E i \in 1..Len(s) : \E p \in 1..Len(s[i].ops) :
                At(todo, s, i, p) /\ Holds(c, s, i, p)
  BY <1>1, Zenon
<1>3. PICK i \in 1..Len(s) : \E p \in 1..Len(s[i].ops) : At(todo, s, i, p) /\ Holds(c, s, i, p)
  BY <1>2, Zenon
<1>4. PICK p \in 1..Len(s[i].ops) : At(todo, s, i, p) /\ Holds(c, s, i, p)
  BY <1>3, Zenon
<1>7. Shape(c, s)
  BY ScriptShape, Zenon
<1>8. Placed(c, s, i, p)
  BY <1>1, <1>4, <1>7, Zenon DEF Placed, Holds
<1> QED
  BY <1>8, Zenon

\* The operation of the place is the one the code runs next.
LEMMA PlaceOp ==
  ASSUME NEW c, NEW s, NEW i, NEW p, Placed(c, s, i, p)
  PROVE  /\ InCall /\ Op = s[i].ops[p] /\ Head(todo).must = s[i].must
         /\ i \in Nat \ {0} /\ p \in Nat \ {0} /\ p <= Len(s[i].ops) /\ Len(s[i].ops) \in Nat
         /\ i <= Count(c) /\ Len(s) = Count(c)
         /\ Kind(c, i, p, s[i].ops[p], Len(s[i].ops)) /\ IsScript(s)
         /\ i = 1 /\ c # "power_off" => s[i].must = TRUE
         /\ c \in {"setup", "deep_sleep"} /\ i > QuietAt(c) => s[i].must = FALSE
<1>1. /\ c \in Calls /\ Shape(c, s) /\ i \in 1..Len(s) /\ p \in 1..Len(s[i].ops)
      /\ At(todo, s, i, p)
  BY DEF Placed
<1>2. IsScript(s)
  BY <1>1 DEF Shape
<1>3. s \in Seq(Blocks)
  BY <1>2 DEF IsScript
<1>4. s[i].ops \in Seq(Ops)
  <2>1. s[i] \in Blocks
    BY <1>1, <1>3
  <2> QED
    BY <2>1 DEF Blocks
<1>5. /\ Kind(c, i, p, s[i].ops[p], Len(s[i].ops)) /\ Len(s) = Count(c)
      /\ i = 1 /\ c # "power_off" => s[i].must = TRUE
      /\ c \in {"setup", "deep_sleep"} /\ i > QuietAt(c) => s[i].must = FALSE
  BY <1>1, KindAt, Zenon
<1>6. todo # <<>> /\ Head(Head(todo).ops) = s[i].ops[p] /\ Head(todo).must = s[i].must
  <2>1. At(todo, s, i, p)
    BY <1>1
  <2> QED
    BY <1>2, <2>1, AtOp
<1>7. Len(s) \in Nat /\ Len(s[i].ops) \in Nat
  BY <1>3, <1>4
<1>8. i \in Nat \ {0} /\ p \in Nat \ {0} /\ p <= Len(s[i].ops) /\ i <= Len(s)
  BY <1>1, <1>7
<1> QED
  BY <1>2, <1>5, <1>6, <1>7, <1>8 DEF InCall, Op

\* A step to a place of the same script.
LEMMA StepTo ==
  ASSUME NEW c \in Calls, NEW s \in ScriptsOf(c), NEW i, i \in 1..Len(s),
         NEW p, p \in 1..Len(s[i].ops), power' = "on", call' = c, At(todo', s, i, p),
         Marks(c, i, p)', InOp(s[i].ops[p])', (c # "setup" => ReasonKnown)'
  PROVE  CallInv' /\ BlockHasOps'
<1>1. Shape(c, s)
  BY ScriptShape, Zenon
<1>2. IsScript(s)
  BY <1>1 DEF Shape
<1>3. todo' # <<>> /\ Len(Head(todo').ops) > 0
  BY <1>2, AtOp, Zenon
<1>4. InCall'
  BY <1>3 DEF InCall
<1>5. Holds(c, s, i, p)'
  BY Zenon DEF Holds
<1>6. (\E d \in Calls : d = call /\
         \E h \in ScriptsOf(d) : \E j \in 1..Len(h) : \E q \in 1..Len(h[j].ops) :
            At(todo, h, j, q) /\ Holds(d, h, j, q))'
  BY <1>5, Zenon
<1>7. call' \in Calls /\ power' = "on" /\ power' # "off"
  OBVIOUS
<1>8. (call # "setup" /\ power = "on" /\ woken = "rtc" => wake # "None")'
  BY Zenon DEF ReasonKnown
<1> QED
  BY <1>3, <1>4, <1>6, <1>7, <1>8, Zenon DEF CallInv, BlockHasOps

\* A step that ends the call.
LEMMA StepOut ==
  ASSUME call' \in Calls, power' = "on", todo' = <<>>, until' = Never, ReasonKnown',
         (call \in {"deep_sleep", "power_off"} => Excused)'
  PROVE  CallInv' /\ BlockHasOps'
<1>1. ~InCall'
  BY DEF InCall
<1>2. power' # "off" /\ call' # "asleep"
  BY DEF Calls
<1> QED
  BY <1>1, <1>2, Zenon DEF CallInv, BlockHasOps, ReasonKnown

\* Going on to the next operation.
LEMMA Advance ==
  ASSUME NEW c, NEW s, NEW i, NEW p, Placed(c, s, i, p),
         power' = "on", call' = call, todo' = Rest, until' = Never,
         s[i].ops[p] = Load("ctrl2") => "TIE" \notin seen',
         p < Len(s[i].ops) => Marks(c, i, p + 1)',
         p = Len(s[i].ops) /\ i < Count(c) => Marks(c, i + 1, 1)',
         p = Len(s[i].ops) /\ i = Count(c) =>
           ReasonKnown' /\ (c \in {"deep_sleep", "power_off"} => Excused'),
         c # "setup" => ReasonKnown'
  PROVE  CallInv' /\ BlockHasOps'
<1>1. /\ c \in Calls /\ call' = c /\ s \in ScriptsOf(c) /\ Shape(c, s)
      /\ i \in 1..Len(s) /\ p \in 1..Len(s[i].ops) /\ At(todo, s, i, p)
  BY DEF Placed
<1>2. IsScript(s) /\ Len(s) = Count(c) /\ i \in Nat /\ p \in Nat /\ Len(s[i].ops) \in Nat
  BY PlaceOp
<1>3. todo' = RestOf(todo)
  BY DEF Rest, RestOf
<1>4. /\ p < Len(s[i].ops) => At(todo', s, i, p + 1)
      /\ p = Len(s[i].ops) => todo' = Tail(todo)
      /\ p < Len(s[i].ops) \/ p = Len(s[i].ops)
  BY <1>1, <1>2, <1>3, AtRest, Zenon
<1>5. /\ i < Len(s) => At(Tail(todo), s, i + 1, 1)
      /\ i = Len(s) => Tail(todo) = <<>>
      /\ i < Len(s) \/ i = Len(s)
  BY <1>1, <1>2, AtNextBlock, Zenon
<1>6. CASE p < Len(s[i].ops)
  <2>1. p + 1 \in 1..Len(s[i].ops)
    BY <1>2, <1>6
  <2>2. At(todo', s, i, p + 1) /\ Marks(c, i, p + 1)'
    BY <1>4, <1>6
  <2>5. PICK n : n = p + 1
    OBVIOUS
  <2>6. n \in 1..Len(s[i].ops) /\ At(todo', s, i, n) /\ Marks(c, i, n)'
    BY <2>1, <2>2, <2>5, Zenon
  <2> DEFINE o == s[i].ops[n]
  <2>3. o.do = "save" /\ o.r = "ctrl2" => "TIE" \notin seen'
    <3>1. o.do = "save" => s[i].ops[p] = Load(o.r)
      <4>1. /\ c \in Calls /\ Shape(c, s) /\ i \in 1..Len(s) /\ p \in 1..Len(s[i].ops)
            /\ n = p + 1 /\ n \in 1..Len(s[i].ops)
        BY <1>1, <2>5, <2>6
      <4>2. Feeds(s[i].ops[p], s[i].ops[n])
        BY <4>1, SaveFollowsLoad
      <4> QED
        BY <4>2, Zenon DEF Feeds
    <3> QED
      BY <3>1, Zenon
  <2>4. InOp(o)'
    BY <2>3 DEF InOp
  <2> QED
    BY <1>1, <2>4, <2>6, StepTo, Zenon
<1>7. CASE p = Len(s[i].ops) /\ i < Len(s)
  <2>1. At(todo', s, i + 1, 1) /\ Marks(c, i + 1, 1)'
    BY <1>2, <1>4, <1>5, <1>7
  <2>2. i + 1 \in 1..Len(s) /\ 1 \in 1..Len(s[i + 1].ops)
    BY <2>1 DEF At
  <2>3. s[i + 1].ops[1].do # "save"
    <3>1. Kind(c, i + 1, 1, s[i + 1].ops[1], Len(s[i + 1].ops))
      BY <1>1, <2>2, KindAt, Zenon
    <3>2. ~IsSave(c, i + 1, 1, s[i + 1].ops[1], Len(s[i + 1].ops))
      BY DEF IsSave
    <3> QED
      BY <3>1, <3>2 DEF Kind
  <2>4. InOp(s[i + 1].ops[1])'
    BY <2>3 DEF InOp
  <2> QED
    BY <1>1, <2>1, <2>2, <2>4, StepTo, Zenon
<1>8. CASE p = Len(s[i].ops) /\ i = Len(s)
  <2>1. todo' = <<>>
    BY <1>4, <1>5, <1>8
  <2>2. ReasonKnown' /\ (call \in {"deep_sleep", "power_off"} => Excused)'
    BY <1>1, <1>2, <1>8, Zenon
  <2> QED
    BY <1>1, <2>1, <2>2, StepOut, Zenon
<1> QED
  BY <1>2, <1>4, <1>5, <1>6, <1>7, <1>8

-----------------------------------------------------------------------------
(* The chips and the buttons.                                              *)

\* What the types of the state give arithmetic.
LEMMA TypeFacts ==
  ASSUME Types
  PROVE  /\ clock \in Nat /\ clock <= Horizon /\ Horizon \in Nat /\ Never = Horizon + 1
         /\ LastCall \in Nat /\ TicksPerCall \in Nat /\ Start \in Nat /\ Start <= clock
         /\ alarm \in Nat /\ target \in Nat /\ until \in Nat /\ due \in Nat
         /\ alarm <= Never /\ target <= Never /\ until <= Never /\ due <= Never
         /\ ticked \in Nat /\ ticked <= TicksPerCall
         /\ reg["ctrl2"] \subseteq Bits /\ reg["mode"] \subseteq Bits /\ seen \subseteq Bits
         /\ \A n \in Naps : n \in Nat \ {0} /\ LastCall + TicksPerCall + n + 10 <= Horizon + 1
<1>1. Horizon \in Nat /\ LastCall \in Nat /\ TicksPerCall \in Nat /\ Start \in Nat
  BY BoundsAssumption
<1>2. clock \in Start..Horizon /\ {alarm, target, until, due} \subseteq 0..Never
  BY DEF Types, TypeOK
<1>3. clock \in Nat /\ clock <= Horizon /\ Start <= clock
  BY <1>1, <1>2
<1>4. alarm \in 0..Never /\ target \in 0..Never /\ until \in 0..Never /\ due \in 0..Never
  BY <1>2
<1>5. Never = Horizon + 1
  BY DEF Never
<1>6. /\ alarm \in Nat /\ target \in Nat /\ until \in Nat /\ due \in Nat
      /\ alarm <= Never /\ target <= Never /\ until <= Never /\ due <= Never
  BY <1>1, <1>4, <1>5
<1>7. ticked \in Nat /\ ticked <= TicksPerCall /\ seen \subseteq Bits
  BY DEF Types, TypeOK
<1>8. reg["ctrl2"] \subseteq Bits /\ reg["mode"] \subseteq Bits
  BY DEF Types, TypeOK
<1>9. \A n \in Naps : n \in Nat \ {0} /\ LastCall + TicksPerCall + n + 10 <= Horizon + 1
  BY BoundsAssumption
<1> QED
  BY <1>1, <1>3, <1>5, <1>6, <1>7, <1>8, <1>9

\* What interrupts was asked for and is due.
LEMMA Roused ==
  ASSUME DueInv, Interrupt
  PROVE  timed \/ due <= clock
BY Zenon DEF DueInv, Interrupt

\* A board the battery alone keeps up, its pin low, is up for a reason.
LEMMA PoweredExcused ==
  ASSUME DueInv, power = "on" => Powered
  PROVE  Excused
<1> SUFFICES ASSUME supply = "battery", power = "on", ~hold
             PROVE  touched \/ timed \/ due <= clock
  BY Zenon DEF Excused
<1>1. lines \union (IF Interrupt THEN {"RTC"} ELSE {}) # {} /\ "battery" # "usb"
  BY Zenon DEF Powered, Asserted
<1>2. CASE Interrupt
  BY <1>2, Roused, Zenon
<1>3. CASE ~Interrupt
  <2>1. lines # {}
    BY <1>1, <1>3
  <2> QED
    BY <2>1, Zenon DEF DueInv
<1> QED
  BY <1>2, <1>3, Zenon

\* The signals and their ranks.
LEMMA Ranks ==
  ASSUME NEW b \in Signals
  PROVE  Rank(b) \in 1..7 /\ Order[Rank(b)] = b /\ b # "None"
<1>1. DOMAIN Order = 1..7
  BY DEF Order
<1>2. \E i \in DOMAIN Order : Order[i] = b
  BY DEF Signals
<1>3. Rank(b) \in DOMAIN Order /\ Order[Rank(b)] = b
  BY <1>2, Zenon DEF Rank
<1>4. \A i \in 1..7 : Order[i] # "None"
  <2> SUFFICES ASSUME NEW i \in 1..7 PROVE Order[i] # "None"
    OBVIOUS
  <2>1. i = 1 \/ i = 2 \/ i = 3 \/ i = 4 \/ i = 5 \/ i = 6 \/ i = 7
    OBVIOUS
  <2> QED
    BY <2>1 DEF Order
<1> QED
  BY <1>1, <1>3, <1>4

\* A set of ranks has a least one.
LEMMA LeastRank ==
  ASSUME NEW S, S \subseteq 1..7, S # {}
  PROVE  Min(S) \in S /\ \A y \in S : Min(S) <= y
<1>1. \E x \in S : \A y \in S : x <= y
  <2>1. CASE 1 \in S
    BY <2>1
  <2>2. CASE 1 \notin S /\ 2 \in S
    BY <2>2
  <2>3. CASE 1 \notin S /\ 2 \notin S /\ 3 \in S
    BY <2>3
  <2>4. CASE 1 \notin S /\ 2 \notin S /\ 3 \notin S /\ 4 \in S
    BY <2>4
  <2>5. CASE 1 \notin S /\ 2 \notin S /\ 3 \notin S /\ 4 \notin S /\ 5 \in S
    BY <2>5
  <2>6. CASE 1 \notin S /\ 2 \notin S /\ 3 \notin S /\ 4 \notin S /\ 5 \notin S /\ 6 \in S
    BY <2>6
  <2>7. CASE 1 \notin S /\ 2 \notin S /\ 3 \notin S /\ 4 \notin S /\ 5 \notin S /\ 6 \notin S
    <3>1. \A y \in S : y = 7
      BY <2>7
    <3>2. PICK y : y \in S
      BY Zenon
    <3> QED
      BY <3>1, <3>2
  <2> QED
    BY <2>1, <2>2, <2>3, <2>4, <2>5, <2>6, <2>7
<1> QED
  BY <1>1, Zenon DEF Min

\* The signal that is handed out first is one of them, and before all the others.
LEMMA FirstOf ==
  ASSUME NEW s, s \subseteq Signals, s # {}
  PROVE  First(s) \in s /\ First(s) # "None" /\ \A b \in s : b # First(s) => Rank(First(s)) < Rank(b)
<1> DEFINE S == {Rank(b) : b \in s}
<1>1. S \subseteq 1..7 /\ S # {}
  BY Ranks
<1>2. First(s) = Order[Min(S)]
  BY Zenon DEF First
<1>3. Min(S) \in S /\ \A y \in S : Min(S) <= y
  <2> HIDE DEF S
  <2> QED
    BY <1>1, LeastRank
<1>4. PICK b \in s : Rank(b) = Min(S)
  BY <1>3
<1>5. First(s) = b
  BY <1>2, <1>4, Ranks
<1>6. ASSUME NEW d \in s, d # b PROVE Rank(b) < Rank(d)
  <2>1. Rank(d) \in S
    OBVIOUS
  <2>2. Rank(b) \in 1..7 /\ Rank(d) \in 1..7 /\ Order[Rank(b)] = b /\ Order[Rank(d)] = d
    BY Ranks
  <2>3. Rank(b) <= Rank(d)
    BY <1>3, <1>4, <2>1, Zenon
  <2>4. Rank(b) # Rank(d)
    BY <1>6, <2>2, Zenon
  <2> QED
    BY ONLY <2>2, <2>3, <2>4
<1> QED
  BY <1>5, <1>6, Ranks

\* The display's bit is none of the signals.
LEMMA BusyIsNoSignal == Busy \notin Signals
<1>1. \A i \in DOMAIN Order : i \in 1..7
  BY DEF Order
<1>2. \A i \in 1..7 : Order[i] # Busy
  BY DEF Order, Busy
<1> QED
  BY <1>1, <1>2 DEF Signals

\* The lines that the shift register reads are signals.
LEMMA AssertedSignals ==
  ASSUME Types
  PROVE  Asserted \subseteq Signals
<1>1. lines \subseteq Signals
  BY PressesAssumption DEF Types, TypeOK
<1>2. "RTC" \in Signals
  <2>1. 6 \in DOMAIN Order /\ Order[6] = "RTC"
    BY DEF Order
  <2> QED
    BY <2>1, Zenon DEF Signals
<1> QED
  BY <1>1, <1>2 DEF Asserted

\* The wake-up time is the one asked for or up to ten seconds later.
LEMMA AdjustIsLater ==
  ASSUME NEW t \in Nat
  PROVE  Adjust(t) \in Nat /\ t <= Adjust(t) /\ Adjust(t) <= t + 10
<1>1. t % 60 \in 0..59
  OBVIOUS
<1>2. t % 60 <= t
  OBVIOUS
<1>3. CASE t % 60 >= 55 /\ (t \div 60) % 60 <= 58
  <2>1. Adjust(t) = t - (t % 60) + 65
    BY <1>3, Zenon DEF Adjust
  <2> QED
    BY <1>1, <1>2, <1>3, <2>1
<1>4. CASE ~(t % 60 >= 55 /\ (t \div 60) % 60 <= 58)
  <2>1. Adjust(t) = t
    BY <1>4, Zenon DEF Adjust
  <2> QED
    BY <2>1
<1> QED
  BY <1>3, <1>4

\* The earlier one of two times.
LEMMA Earlier ==
  ASSUME NEW a \in Nat, NEW b \in Nat
  PROVE  Min({a, b}) \in {a, b} /\ Min({a, b}) <= a /\ Min({a, b}) <= b
<1>1. \E x \in {a, b} : \A y \in {a, b} : x <= y
  OBVIOUS
<1>2. Min({a, b}) \in {a, b} /\ \A y \in {a, b} : Min({a, b}) <= y
  BY <1>1, Zenon DEF Min
<1> QED
  BY <1>2, Zenon

\* A write of o, with what was read of its register.
WriteOf(o) == reg' = [reg EXCEPT ![o.r] = Stored(o.r, (seen \union o.on) \ o.off)]

\* A write clears flags or keeps them, and uses the timer only for a call that does.
LEMMA Writes ==
  ASSUME NEW c, NEW i, NEW p, NEW o, NEW m, IsSave(c, i, p, o, m), InTimer(c),
         o.r = "ctrl2" => "TIE" \notin seen, Types, DueInv, WriteOf(o)
  PROVE  /\ reg' \in [Registers -> SUBSET Bits]
         /\ "AF" \in reg'["ctrl2"] => "AF" \in reg["ctrl2"]
         /\ "TIE" \notin reg'["ctrl2"]
         /\ "TIE" \in reg'["mode"] => timed
         /\ o.r # "ctrl2" => reg'["ctrl2"] = reg["ctrl2"]
         /\ o.r = "ctrl2" /\ o.off \subseteq Flags => reg'["ctrl2"] \intersect o.off = {}
         /\ o.r = "ctrl2" /\ "AIE" \in o.on /\ "AIE" \notin o.off => "AIE" \in reg'["ctrl2"]
<1> DEFINE w == (seen \union o.on) \ o.off
<1>1. reg \in [Registers -> SUBSET Bits] /\ seen \subseteq Bits /\ reg["ctrl2"] \subseteq Bits
  BY DEF Types, TypeOK, Registers
<1>2. /\ o.r \in Registers /\ o.on \subseteq Bits
      /\ "TIE" \in o.on => o.r = "mode" /\ c = "set_timer"
  BY Fields DEF IsSave, Registers, Bits
<1>3. w \subseteq Bits
  BY <1>1, <1>2
<1>4. "TIE" \in seen => timed
  BY DEF DueInv
<1>5. "TIE" \in w => timed /\ o.r # "ctrl2"
  BY <1>2, <1>4 DEF InTimer
<1>6. /\ o.on \ o.off \subseteq w /\ w \intersect o.off = {}
  OBVIOUS
<1> HIDE DEF w
<1>7. Stored(o.r, w) \subseteq Bits
  BY <1>1, <1>3 DEF Stored
<1>8. reg' = [reg EXCEPT ![o.r] = Stored(o.r, w)]
  BY DEF WriteOf, w
<1>9. reg' \in [Registers -> SUBSET Bits]
  BY <1>1, <1>2, <1>7, <1>8
<1>10. CASE o.r = "ctrl2"
  <2>1. reg'["ctrl2"] = (w \ Flags) \union (reg["ctrl2"] \intersect w) /\ reg'["mode"] = reg["mode"]
    BY <1>1, <1>8, <1>10 DEF Stored, Registers
  <2>2. "TIE" \in reg["mode"] => timed
    BY DEF DueInv
  <2> QED
    BY <1>5, <1>6, <1>9, <1>10, <2>1, <2>2 DEF Flags
<1>11. CASE o.r = "mode"
  <2>1. reg'["mode"] = w /\ reg'["ctrl2"] = reg["ctrl2"]
    BY <1>1, <1>8, <1>11 DEF Stored, Registers
  <2>2. "TIE" \notin reg["ctrl2"]
    BY DEF DueInv
  <2> QED
    BY <1>5, <1>9, <1>11, <2>1, <2>2
<1> QED
  BY <1>2, <1>10, <1>11 DEF Registers

\* Setting the alarm or cancelling it.
LEMMA Alarms ==
  ASSUME NEW c, NEW i, NEW p, NEW o, NEW m, IsAlarm(c, i, p, o, m), InRtc(c, i, p), Types, DueInv,
         alarm' = IF o.on THEN target ELSE Never,
         \/ UNCHANGED reg
         \/ alarm' = clock /\ reg' = [reg EXCEPT !["ctrl2"] = @ \union {"AF"}]
  PROVE  /\ reg' \in [Registers -> SUBSET Bits] /\ alarm' \in 0..Never
         /\ "AF" \in reg'["ctrl2"] => due <= clock
         /\ "TIE" \notin reg'["ctrl2"] /\ ("TIE" \in reg'["mode"] => timed)
         /\ alarm' # Never => due <= alarm'
         /\ p = 4 => alarm' = target
         /\ p = 1 => alarm' = Never /\ reg' = reg
<1>1. reg \in [Registers -> SUBSET Bits] /\ alarm \in Nat /\ target \in 0..Never /\ clock # Never
  BY TypeFacts DEF Types, TypeOK, Registers
<1>2. Never \in 0..Never
  BY TypeFacts
<1>3. \/ SetsAlarm(c, i) /\ p = 4 /\ o.on = TRUE /\ alarm' = target
      \/ p = 1 /\ o.on = FALSE /\ alarm' = Never
  <2>1. Alarm(TRUE).on = TRUE /\ Alarm(FALSE).on = FALSE
    BY Fields, Zenon
  <2> QED
    BY <2>1, Zenon DEF IsAlarm
<1>4. CASE SetsAlarm(c, i) /\ p = 4 /\ alarm' = target
  <2>1. due <= target
    BY <1>4 DEF InRtc, SetsAlarm
  <2>2. CASE UNCHANGED reg
    BY <1>1, <1>4, <2>1, <2>2 DEF DueInv
  <2>3. CASE alarm' = clock /\ reg' = [reg EXCEPT !["ctrl2"] = @ \union {"AF"}]
    <3>1. /\ reg' \in [Registers -> SUBSET Bits] /\ reg'["mode"] = reg["mode"]
          /\ reg'["ctrl2"] = reg["ctrl2"] \union {"AF"}
      BY <1>1, <2>3 DEF Registers, Bits
    <3> QED
      BY <1>1, <1>4, <2>1, <2>3, <3>1 DEF DueInv
  <2> QED
    BY <2>2, <2>3
<1>5. CASE p = 1 /\ alarm' = Never
  <2>1. UNCHANGED reg
    BY <1>1, <1>5
  <2> QED
    BY <1>1, <1>2, <1>5, <2>1 DEF DueInv
<1> QED
  BY <1>3, <1>4, <1>5

-----------------------------------------------------------------------------
(* The steps of a call.                                                    *)

\* Only the last operation of a script cancels what was asked for.
LEMMA NotLast ==
  ASSUME NEW c, NEW s, NEW i, NEW p, Placed(c, s, i, p), p < Len(s[i].ops) \/ i < Count(c)
  PROVE  ~Cancelled
<1>1. /\ i \in Nat /\ p \in Nat /\ Len(s[i].ops) \in Nat /\ Len(s) = Count(c) /\ IsScript(s)
      /\ p <= Len(s[i].ops)
  BY PlaceOp
<1>2. At(todo, s, i, p)
  BY DEF Placed
<1>3. Rest = RestOf(todo)
  BY DEF Rest, RestOf
<1>4. CASE p < Len(s[i].ops)
  <2>1. At(Rest, s, i, p + 1)
    BY <1>1, <1>2, <1>3, <1>4, AtRest
  <2>2. Rest # <<>>
    BY <2>1 DEF At
  <2> QED
    BY <2>2 DEF Cancelled
<1>5. CASE p = Len(s[i].ops) /\ i < Count(c)
  <2>1. Rest = Tail(todo)
    BY <1>1, <1>2, <1>3, <1>5, AtRest, Zenon
  <2>3. i < Len(s)
    BY <1>1, <1>5
  <2>4. At(Tail(todo), s, i + 1, 1)
    BY <1>1, <1>2, <2>3, AtNextBlock, Zenon
  <2>2. Rest # <<>>
    <3>1. Len(Tail(todo)) > 0 /\ Tail(todo) \in Seq(Blocks)
      BY <2>4, Zenon DEF At
    <3>2. \A x \in Seq(Blocks) : Len(x) > 0 => x # <<>>
      OBVIOUS
    <3> QED
      BY <2>1, <3>1, <3>2, Zenon
  <2> QED
    BY <2>2 DEF Cancelled
<1> QED
  BY <1>1, <1>4, <1>5

\* What an operation that is not the last one does to the history.
LEMMA GoesOn ==
  ASSUME ~Cancelled, timed \in BOOLEAN, timed' = (timed /\ ~Cancelled)
  PROVE  timed' = timed
<1>1. CASE timed = TRUE
  BY <1>1, Zenon
<1>2. CASE timed = FALSE
  BY <1>2, Zenon
<1> QED
  BY <1>1, <1>2

\* The pin of the power: high in a boot, low in power_off and deep_sleep.
LEMMA StepSetPin ==
  ASSUME Inv, SetPin
  PROVE  Inv'
<1>1. Types /\ TakesInOrder /\ DueInv /\ CallInv
  BY DEF Inv
<1>2. power = "on" /\ InCall /\ Op.do = "pin"
  BY DEF SetPin, Do, Running
<1>3. PICK c, s, i, p : Placed(c, s, i, p)
  BY <1>1, <1>2, Place
<1> DEFINE o == s[i].ops[p]
<1>4. /\ Op = o /\ Kind(c, i, p, o, Len(s[i].ops)) /\ Marks(c, i, p) /\ InOp(o) /\ c = call
      /\ Len(s[i].ops) \in Nat /\ i \in Nat /\ p \in Nat
  BY <1>3, PlaceOp DEF Placed
<1>5. IsPin(c, i, p, o, Len(s[i].ops)) /\ o.high \in BOOLEAN
  BY <1>2, <1>4 DEF Kind
<1>6. p = 1 /\ p < Len(s[i].ops) /\ ~Cancelled
  BY <1>3, <1>4, <1>5, NotLast DEF IsPin
<1>7. /\ UNCHANGED <<supply, lines, power, call, ticked, calls, calm, woken, chip, inner, driver>>
      /\ hold' = o.high /\ touched' = (lines # {}) /\ todo' = Rest
      /\ due' = due /\ timed' = timed
  <2>1. /\ UNCHANGED <<user, power, call, ticked, calls, calm, woken>> /\ UNCHANGED <<chip, inner, driver>>
        /\ hold' = Op.high /\ touched' = (lines # {}) /\ todo' = Rest
        /\ due' = (IF Cancelled THEN Never ELSE due) /\ timed' = (timed /\ ~Cancelled)
    BY Zenon DEF SetPin, Proceed, ProceedWith
  <2>2. timed \in BOOLEAN
    BY <1>1 DEF Types
  <2>3. due' = due /\ timed' = timed
    BY <1>6, <2>1, <2>2, GoesOn, Zenon
  <2>4. UNCHANGED <<supply, lines, power, call, ticked, calls, calm, woken, chip, inner, driver>>
    BY <2>1 DEF user
  <2> QED
    BY <1>4, <2>1, <2>3, <2>4, Zenon
<1>8. until = Never /\ until' = Never
  BY <1>2, <1>4, <1>7 DEF InOp, driver
<1>9. Marks(c, i, p + 1)'
  BY <1>4, <1>5, <1>6, <1>7, <1>8
  DEF Marks, IsPin, InSetup, InQuiet, QuietAt, InRtc, InCut, InSleep, InTimer, Interrupt, Armed, chip, driver, inner
<1>10. c # "setup" => ReasonKnown'
  BY <1>1, <1>2, <1>4, <1>7 DEF CallInv, ReasonKnown, inner
<1>11. o # Load("ctrl2")
  BY <1>2, <1>4, Fields
<1>12. CallInv' /\ BlockHasOps'
  BY <1>2, <1>3, <1>6, <1>7, <1>8, <1>9, <1>10, <1>11, Advance
<1>13. touched' \in BOOLEAN /\ (lines' # {} => touched')
  BY <1>7, Zenon
<1>14. DueInv'
  BY <1>1, <1>7, <1>13 DEF DueInv, chip, driver
<1>15. Types'
  BY <1>1, <1>5, <1>7, <1>12, <1>13 DEF Types, TypeOK, BlockHasOps, chip, driver, inner
<1>16. TakesInOrder'
  BY <1>1, <1>7 DEF TakesInOrder, Cached, inner
<1> QED
  BY <1>12, <1>14, <1>15, <1>16 DEF Inv

\* The buttons and the clock chip are read at the end of the first block of a boot.
LEMMA StepReadShift ==
  ASSUME Inv, ReadShift
  PROVE  Inv'
<1>1. Types /\ TakesInOrder /\ DueInv /\ CallInv
  BY DEF Inv
<1>2. power = "on" /\ InCall /\ Op.do = "shift"
  BY DEF ReadShift, Do, Running
<1>3. PICK c, s, i, p : Placed(c, s, i, p)
  BY <1>1, <1>2, Place
<1> DEFINE o == s[i].ops[p]
<1>4. /\ Op = o /\ Kind(c, i, p, o, Len(s[i].ops)) /\ Marks(c, i, p) /\ InOp(o) /\ c = call
      /\ Len(s[i].ops) \in Nat /\ i \in Nat /\ p \in Nat
  BY <1>3, PlaceOp DEF Placed
<1>5. c = "setup" /\ i = 1 /\ p = 2 /\ Len(s[i].ops) = 2
  BY <1>2, <1>4 DEF Kind
<1>6. ~Cancelled /\ i < Count(c)
  BY <1>3, <1>5, NotLast DEF Count
<1>7. /\ UNCHANGED <<supply, lines, power, call, ticked, calls, calm, woken, hold, chip, driver, touched>>
      /\ wake' = First(Asserted) /\ latched' = Asserted /\ got' = <<>>
      /\ state' \in {Asserted, Asserted \union {Busy}}
      /\ todo' = Rest /\ due' = due /\ timed' = timed
  <2>1. /\ UNCHANGED <<user, power, call, ticked, calls, calm, woken>> /\ UNCHANGED <<hold, chip, driver, touched>>
        /\ wake' = First(Asserted) /\ latched' = Asserted /\ got' = <<>>
        /\ state' \in {Asserted, Asserted \union {Busy}}
        /\ todo' = Rest
        /\ due' = (IF Cancelled THEN Never ELSE due) /\ timed' = (timed /\ ~Cancelled)
    BY Zenon DEF ReadShift, Proceed, ProceedWith
  <2>2. timed \in BOOLEAN
    BY <1>1 DEF Types
  <2>3. due' = due /\ timed' = timed
    BY <1>6, <2>1, <2>2, GoesOn, Zenon
  <2>4. UNCHANGED <<supply, lines, power, call, ticked, calls, calm, woken, hold, chip, driver, touched>>
    BY <2>1 DEF user
  <2> QED
    BY <2>1, <2>3, <2>4, Zenon
<1>8. until = Never /\ until' = Never
  BY <1>2, <1>4, <1>7 DEF InOp, driver
<1>9. Asserted \subseteq Signals
  BY <1>1, AssertedSignals
<1>10. wake' \in Signals \union {"None"} /\ (Asserted # {} => wake' # "None")
  <2>1. CASE Asserted = {}
    BY <1>7, <2>1 DEF First
  <2>2. CASE Asserted # {}
    BY <1>7, <1>9, <2>2, FirstOf
  <2> QED
    BY <2>1, <2>2
<1>11. Marks(c, i + 1, 1)'
  <2>1. woken = "rtc" => Interrupt
    BY <1>4, <1>5 DEF Marks, InSetup
  <2>2. Interrupt => Asserted # {}
    BY DEF Asserted
  <2>3. woken' = "rtc" => wake' # "None"
    BY <1>7, <1>10, <2>1, <2>2
  <2> QED
    BY <1>5, <2>3 DEF Marks, InSetup, InQuiet, QuietAt, InRtc, InCut, InSleep, InTimer
<1>12. o # Load("ctrl2")
  BY <1>2, <1>4, Fields
<1>13. CallInv' /\ BlockHasOps'
  <2>1. ~(p < Len(s[i].ops)) /\ i # Count(c) /\ power' = "on" /\ call' = call /\ todo' = Rest
    BY <1>2, <1>5, <1>7 DEF Count
  <2> QED
    BY <1>3, <1>5, <1>8, <1>11, <1>12, <2>1, Advance, Zenon
<1>14. DueInv'
  BY <1>1, <1>7 DEF DueInv, chip, driver
<1>15. Types'
  BY <1>1, <1>7, <1>9, <1>10, <1>13 DEF Types, TypeOK, BlockHasOps, chip, driver
<1>16. TakesInOrder'
  <2>1. (state \ {Busy})' = Asserted
    BY <1>7, <1>9, BusyIsNoSignal
  <2> QED
    BY <1>7, <2>1 DEF TakesInOrder, Cached
<1> QED
  BY <1>13, <1>14, <1>15, <1>16 DEF Inv

\* The time is read first of all when a wake-up is set.
LEMMA StepReadNow ==
  ASSUME Inv, ReadNow
  PROVE  Inv'
<1>1. Types /\ TakesInOrder /\ DueInv /\ CallInv
  BY DEF Inv
<1>2. power = "on" /\ InCall /\ Op.do = "now"
  BY DEF ReadNow, Do, Running
<1>3. PICK c, s, i, p : Placed(c, s, i, p)
  BY <1>1, <1>2, Place
<1> DEFINE o == s[i].ops[p]
<1>4. /\ Op = o /\ Kind(c, i, p, o, Len(s[i].ops)) /\ Marks(c, i, p) /\ InOp(o) /\ c = call
      /\ Len(s[i].ops) \in Nat /\ i \in Nat /\ p \in Nat
  BY <1>3, PlaceOp DEF Placed
<1>5. SetsAlarm(c, i) /\ p = 1 /\ Len(s[i].ops) = 6 /\ o.secs \in Naps
  BY <1>2, <1>4 DEF Kind
<1>6. ~Cancelled /\ p < Len(s[i].ops)
  <2>1. p < Len(s[i].ops)
    BY <1>5
  <2> QED
    BY <1>3, <2>1, NotLast
<1>7. /\ UNCHANGED <<supply, lines, power, call, ticked, calls, calm, woken, hold, chip, inner, seen, until, touched>>
      /\ target' = Adjust(clock + o.secs)
      /\ todo' = Rest /\ due' = Min({due, target'}) /\ timed' = timed
  <2>1. /\ UNCHANGED <<user, power, call, ticked, calls, calm, woken>>
        /\ UNCHANGED <<hold, chip, inner, seen, until, touched>>
        /\ target' = Adjust(clock + Op.secs) /\ todo' = Rest
        /\ due' = (IF Cancelled THEN Never ELSE Min({due, target'})) /\ timed' = (timed /\ ~Cancelled)
    BY Zenon DEF ReadNow, ProceedWith
  <2>2. timed \in BOOLEAN
    BY <1>1 DEF Types
  <2>3. due' = Min({due, target'}) /\ timed' = timed
    BY <1>6, <2>1, <2>2, GoesOn, Zenon
  <2>4. UNCHANGED <<supply, lines, power, call, ticked, calls, calm, woken, hold, chip, inner, seen, until, touched>>
    BY <2>1 DEF user
  <2> QED
    BY <1>4, <2>1, <2>3, <2>4, Zenon
<1>8. until = Never /\ until' = Never
  BY <1>2, <1>4, <1>7 DEF InOp
<1>9. clock <= LastCall + ticked
  BY <1>4, <1>5 DEF Marks, InRtc, SetsAlarm
<1>10. /\ target' \in Nat /\ clock + o.secs <= target' /\ target' <= Never
       /\ due' \in Nat /\ due' <= due /\ due' <= target' /\ due' \in {due, target'}
  <2>1. o.secs \in Nat /\ LastCall + TicksPerCall + o.secs + 10 <= Horizon + 1
    BY <1>1, <1>5, TypeFacts
  <2> DEFINE t == clock + o.secs
  <2>2. t \in Nat
    BY <1>1, <2>1, TypeFacts
  <2>3. target' \in Nat /\ t <= target' /\ target' <= t + 10
    <3> HIDE DEF t
    <3>1. target' = Adjust(t)
      BY <1>7 DEF t
    <3> QED
      BY <2>2, <3>1, AdjustIsLater
  <2>4. target' <= Never
    BY <1>1, <1>9, <2>1, <2>3, TypeFacts
  <2>5. due' \in {due, target'} /\ due' <= due /\ due' <= target'
    <3>1. due \in Nat
      BY <1>1, TypeFacts
    <3> QED
      BY <1>7, <2>3, <3>1, Earlier
  <2> QED
    BY <1>1, <2>3, <2>4, <2>5, TypeFacts
<1>11. Marks(c, i, p + 1)'
  <2>1. clock' <= LastCall + ticked'
    BY <1>7, <1>9 DEF chip
  <2>2. due' <= target' /\ \E n \in Naps : clock' + n <= target' + ticked'
    <3>1. clock + o.secs <= target' + ticked
      BY <1>1, <1>5, <1>10, TypeFacts
    <3> QED
      BY <1>5, <1>7, <1>10, <3>1 DEF chip
  <2>3. InRtc(c, i, p + 1)'
    BY <1>5, <2>1, <2>2 DEF InRtc
  <2>4. c = "deep_sleep" => Excused'
    <3>1. c = "deep_sleep" => Excused
      BY <1>4, <1>5 DEF Marks, InSleep, SetsAlarm
    <3>2. due <= clock => due' <= clock
      BY <1>1, <1>10, TypeFacts
    <3> QED
      BY <1>7, <3>1, <3>2 DEF Excused, chip
  <2>5. InSleep(c, i)' /\ InTimer(c)' /\ InSetup(c, i)' /\ InCut(c, i, p + 1)' /\ InQuiet(c, i, p + 1)'
    BY <1>5, <2>4 DEF SetsAlarm, InSleep, InTimer, InSetup, InCut, InQuiet, QuietAt
  <2> QED
    BY <2>3, <2>5 DEF Marks
<1>12. o # Load("ctrl2") /\ c # "setup"
  BY <1>2, <1>4, <1>5, Fields DEF SetsAlarm
<1>13. ReasonKnown'
  BY <1>1, <1>2, <1>4, <1>7, <1>12 DEF CallInv, ReasonKnown, inner
<1>14. CallInv' /\ BlockHasOps'
  BY <1>2, <1>3, <1>6, <1>7, <1>8, <1>11, <1>12, <1>13, Advance
<1>15. DueInv'
  <2>1. alarm \in Nat /\ due \in Nat /\ clock \in Nat
    BY <1>1, TypeFacts
  <2>2. (alarm # Never => due' <= alarm) /\ ("AF" \in reg["ctrl2"] => due' <= clock)
    BY <1>1, <1>10, <2>1 DEF DueInv
  <2> QED
    BY <1>1, <1>7, <2>2 DEF DueInv, chip
<1>16. Types'
  <2>1. target' \in 0..Never /\ due' \in 0..Never
    BY <1>1, <1>10, TypeFacts
  <2> QED
    BY <1>1, <1>7, <1>14, <2>1 DEF Types, TypeOK, BlockHasOps, chip, inner
<1>17. TakesInOrder'
  BY <1>1, <1>7 DEF TakesInOrder, Cached, inner
<1> QED
  BY <1>14, <1>15, <1>16, <1>17 DEF Inv

\* A register is read.
LEMMA StepLoadReg ==
  ASSUME Inv, LoadReg
  PROVE  Inv'
<1>1. Types /\ TakesInOrder /\ DueInv /\ CallInv
  BY DEF Inv
<1>2. power = "on" /\ InCall /\ Op.do = "load"
  BY DEF LoadReg, Do, Running
<1>3. PICK c, s, i, p : Placed(c, s, i, p)
  BY <1>1, <1>2, Place
<1> DEFINE o == s[i].ops[p]
<1>4. /\ Op = o /\ Kind(c, i, p, o, Len(s[i].ops)) /\ Marks(c, i, p) /\ InOp(o) /\ c = call
      /\ Len(s[i].ops) \in Nat /\ i \in Nat /\ p \in Nat
  BY <1>3, PlaceOp DEF Placed
<1>5. IsLoad(c, i, p, o, Len(s[i].ops))
  BY <1>2, <1>4 DEF Kind
<1>6. ~Cancelled /\ p < Len(s[i].ops)
  BY <1>3, <1>5, NotLast DEF IsLoad
<1>7. /\ UNCHANGED <<supply, lines, power, call, ticked, calls, calm, woken, hold, chip, inner, target, until, touched>>
      /\ seen' = reg[o.r] /\ todo' = Rest /\ due' = due /\ timed' = timed
  <2>1. /\ UNCHANGED <<user, power, call, ticked, calls, calm, woken>>
        /\ UNCHANGED <<hold, chip, inner, target, until, touched>>
        /\ seen' = reg[Op.r] /\ todo' = Rest
        /\ due' = (IF Cancelled THEN Never ELSE due) /\ timed' = (timed /\ ~Cancelled)
    BY Zenon DEF LoadReg, Proceed, ProceedWith
  <2>2. timed \in BOOLEAN
    BY <1>1 DEF Types
  <2>3. due' = due /\ timed' = timed
    BY <1>6, <2>1, <2>2, GoesOn, Zenon
  <2>4. UNCHANGED <<supply, lines, power, call, ticked, calls, calm, woken, hold, chip, inner, target, until, touched>>
    BY <2>1 DEF user
  <2> QED
    BY <1>4, <2>1, <2>3, <2>4, Zenon
<1>8. until = Never /\ until' = Never
  BY <1>2, <1>4, <1>7 DEF InOp
<1>9. Marks(c, i, p + 1)'
  <2>1. InRtc(c, i, p + 1)'
    BY <1>4, <1>5, <1>7 DEF IsLoad, SetsAlarm, Cancels, QuietAt, Marks, InRtc, chip
  <2>2. InQuiet(c, i, p + 1)'
    BY <1>4, <1>5, <1>7 DEF IsLoad, SetsAlarm, Cancels, QuietAt, Marks, InQuiet, chip
  <2>3. InSleep(c, i)' /\ InTimer(c)' /\ InSetup(c, i)'
    BY <1>4, <1>7 DEF Marks, InSleep, InTimer, InSetup, Armed, Excused, Interrupt, chip, inner
  <2>4. InCut(c, i, p + 1)'
    BY <1>5 DEF IsLoad, SetsAlarm, Cancels, QuietAt, InCut
  <2> QED
    BY <2>1, <2>2, <2>3, <2>4 DEF Marks
<1>10. o = Load("ctrl2") => "TIE" \notin seen'
  BY <1>1, <1>7, Fields DEF DueInv
<1>11. c # "setup" => ReasonKnown'
  BY <1>1, <1>2, <1>4, <1>7 DEF CallInv, ReasonKnown, inner
<1>12. CallInv' /\ BlockHasOps'
  BY <1>2, <1>3, <1>6, <1>7, <1>8, <1>9, <1>10, <1>11, Advance
<1>13. o.r \in Registers
  BY <1>5 DEF IsLoad
<1>14. DueInv'
  BY <1>1, <1>7, <1>13 DEF DueInv, chip, Registers
<1>15. Types'
  <2>1. seen' \subseteq Bits
    BY <1>1, <1>7, <1>13 DEF Types, TypeOK, Registers
  <2> QED
    BY <1>1, <1>7, <1>12, <2>1 DEF Types, TypeOK, BlockHasOps, chip, inner
<1>16. TakesInOrder'
  BY <1>1, <1>7 DEF TakesInOrder, Cached, inner
<1> QED
  BY <1>12, <1>14, <1>15, <1>16 DEF Inv

\* A register is written back: a flag is cleared, an interrupt or the timer switched.
LEMMA StepSaveReg ==
  ASSUME Inv, SaveReg
  PROVE  Inv'
<1>1. Types /\ TakesInOrder /\ DueInv /\ CallInv
  BY DEF Inv
<1>2. power = "on" /\ Powered /\ InCall /\ Op.do = "save"
  BY DEF SaveReg, Do, Running
<1>3. PICK c, s, i, p : Placed(c, s, i, p)
  BY <1>1, <1>2, Place
<1> DEFINE o == s[i].ops[p]
           m == Len(s[i].ops)
<1>4. /\ Op = o /\ Kind(c, i, p, o, m) /\ Marks(c, i, p) /\ InOp(o) /\ c = call
      /\ m \in Nat /\ i \in Nat /\ p \in Nat /\ i <= Count(c)
  BY <1>3, PlaceOp DEF Placed
<1>5. IsSave(c, i, p, o, m)
  BY <1>2, <1>4 DEF Kind
<1> DEFINE asked == IF "AIE" \in o.on THEN target ELSE due
<1>6. /\ UNCHANGED <<supply, lines, power, call, ticked, calls, calm, woken, hold, clock, alarm, inner,
                     target, until, touched>>
      /\ WriteOf(o) /\ seen' = {} /\ todo' = Rest
      /\ due' = (IF Cancelled THEN Never ELSE asked) /\ timed' = (timed /\ ~Cancelled)
  <2>1. /\ UNCHANGED <<user, power, call, ticked, calls, calm, woken>>
        /\ UNCHANGED <<hold, clock, alarm, inner, target, until, touched>>
        /\ Written /\ seen' = {} /\ todo' = Rest
        /\ due' = (IF Cancelled THEN Never ELSE (IF "AIE" \in Op.on THEN target ELSE due))
        /\ timed' = (timed /\ ~Cancelled)
    BY Zenon DEF SaveReg, ProceedWith
  <2>2. UNCHANGED <<supply, lines, power, call, ticked, calls, calm, woken, hold, clock, alarm, inner,
                    target, until, touched>>
    BY <2>1 DEF user
  <2>3. WriteOf(o)
    BY <1>4, <2>1, Zenon DEF Written, WriteOf
  <2> QED
    BY <1>4, <2>1, <2>2, <2>3, Zenon
<1>7. until = Never /\ until' = Never /\ o # Load("ctrl2")
  BY <1>2, <1>4, <1>6, Fields DEF InOp
<1>8. /\ reg' \in [Registers -> SUBSET Bits]
      /\ "AF" \in reg'["ctrl2"] => "AF" \in reg["ctrl2"]
      /\ "TIE" \notin reg'["ctrl2"]
      /\ "TIE" \in reg'["mode"] => timed
      /\ o.r # "ctrl2" => reg'["ctrl2"] = reg["ctrl2"]
      /\ o.r = "ctrl2" /\ o.off \subseteq Flags => reg'["ctrl2"] \intersect o.off = {}
      /\ o.r = "ctrl2" /\ "AIE" \in o.on /\ "AIE" \notin o.off => "AIE" \in reg'["ctrl2"]
  <2>1. InTimer(c) /\ (o.r = "ctrl2" => "TIE" \notin seen)
    BY <1>2, <1>4 DEF Marks, InOp
  <2> HIDE DEF o, m
  <2> QED
    BY <1>1, <1>5, <1>6, <2>1, Writes, Zenon
<1>9. timed \in BOOLEAN
  BY <1>1 DEF Types
<1>10. ~Cancelled => timed' = timed /\ due' = asked
  BY <1>6, <1>9, GoesOn, Zenon
<1>11. c # "setup" => ReasonKnown'
  BY <1>1, <1>2, <1>4, <1>6 DEF CallInv, ReasonKnown, inner
<1> HIDE DEF o, m, asked
<1> DEFINE Moved == p < m => Marks(c, i, p + 1)'
           Next1 == p = m /\ i < Count(c) => Marks(c, i + 1, 1)'
           Out == p = m /\ i = Count(c) => ReasonKnown' /\ (c \in {"deep_sleep", "power_off"} => Excused')
           Goal == Moved /\ Next1 /\ Out /\ DueInv' /\ due' \in 0..Never /\ timed' \in BOOLEAN
<1>12. ASSUME SetsAlarm(c, i) /\ p = 3 /\ m = 6 /\ o = Save("ctrl2", {}, {"AF"})
      PROVE  Goal
  <2>1. ~Cancelled
    <3>1. p < m
      BY <1>12
    <3> QED
      BY <1>3, <3>1, NotLast DEF m
  <2>2. timed' = timed /\ due' = due
    <3>1. asked = due
      BY <1>12, Fields DEF asked
    <3> QED
      BY <1>10, <2>1, <3>1
  <2>3. c = "set_rtc_wake" \/ c = "deep_sleep"
    BY <1>12 DEF SetsAlarm
  <2>4. Marks(c, i, p + 1)'
    <3>1. InRtc(c, i, p + 1)'
      BY <1>4, <1>6, <1>12, <2>2 DEF Marks, InRtc
    <3>2. InSleep(c, i)'
      BY <1>4, <1>6, <1>12, <2>2 DEF Marks, InSleep, SetsAlarm, Excused
    <3>3. InTimer(c)' /\ InSetup(c, i)' /\ InQuiet(c, i, p + 1)' /\ InCut(c, i, p + 1)'
      BY <1>12, <2>3 DEF InTimer, InSetup, InQuiet, InCut, SetsAlarm, QuietAt
    <3> QED
      BY <3>1, <3>2, <3>3 DEF Marks
  <2>5. DueInv'
    BY <1>1, <1>6, <1>8, <2>2 DEF DueInv
  <2>6. due' \in 0..Never /\ timed' \in BOOLEAN
    BY <1>1, <1>9, <2>2 DEF Types, TypeOK
  <2> QED
    BY <1>12, <2>4, <2>5, <2>6
<1>13. ASSUME SetsAlarm(c, i) /\ p = 6 /\ m = 6 /\ o = Save("ctrl2", {"AIE"}, {"AF"})
      PROVE  Goal
  <2>1. ~Cancelled
    <3>1. CASE c = "deep_sleep"
      <4>1. i < Count(c)
        BY <1>13, <3>1 DEF SetsAlarm, Count
      <4> QED
        BY <1>3, <4>1, NotLast
    <3>2. CASE c = "set_rtc_wake"
      BY <1>4, <3>2 DEF Cancelled
    <3> QED
      BY <1>13, <3>1, <3>2 DEF SetsAlarm
  <2>2. timed' = timed /\ due' = target
    <3>1. asked = target
      BY <1>13, Fields DEF asked
    <3> QED
      BY <1>10, <2>1, <3>1
  <2>3. /\ alarm = target /\ clock <= LastCall + ticked
        /\ \E n \in Naps : clock + n <= target + ticked
    BY <1>4, <1>13 DEF Marks, InRtc, SetsAlarm
  <2>4. "AF" \notin reg'["ctrl2"] /\ "AIE" \in reg'["ctrl2"]
    BY <1>8, <1>13, Fields DEF Flags
  <2>5. Brief => clock < target
    BY <1>1, <2>3, TypeFacts DEF Brief
  <2>6. c = "deep_sleep" => Marks(c, i + 1, 1)'
    <3> SUFFICES ASSUME c = "deep_sleep" PROVE Marks(c, i + 1, 1)'
      OBVIOUS
    <3>1. i = 1
      BY <1>13 DEF SetsAlarm
    <3>2. (Brief => Armed)'
      BY <1>6, <2>3, <2>4, <2>5 DEF Armed, Brief
    <3>3. InSleep(c, i + 1)'
      BY <3>1, <3>2 DEF InSleep
    <3>4. InCut(c, i + 1, 1)'
      BY <1>6, <2>3, <3>1 DEF InCut
    <3>5. InTimer(c)' /\ InSetup(c, i + 1)' /\ InQuiet(c, i + 1, 1)' /\ InRtc(c, i + 1, 1)'
      BY <3>1 DEF InTimer, InSetup, InQuiet, InRtc, QuietAt
    <3> QED
      BY <3>3, <3>4, <3>5 DEF Marks
  <2>7. DueInv'
    <3>1. target \in Nat
      BY <1>1, TypeFacts
    <3> QED
      BY <1>1, <1>6, <1>8, <2>2, <2>3, <2>4, <3>1 DEF DueInv
  <2>8. due' \in 0..Never /\ timed' \in BOOLEAN
    BY <1>1, <1>9, <2>2 DEF Types, TypeOK
  <2>9. (c = "deep_sleep" \/ c = "set_rtc_wake") /\ (c = "deep_sleep" => i < Count(c))
    BY <1>13 DEF SetsAlarm, Count
  <2>10. Next1 /\ Moved
    BY <1>13, <2>6, <2>9 DEF Count, SetsAlarm
  <2>11. Out
    <3>1. c = "deep_sleep" => i # Count(c)
      BY <1>13 DEF SetsAlarm, Count
    <3> QED
      BY <1>11, <2>9, <3>1
  <2> QED
    BY <2>7, <2>8, <2>10, <2>11
<1>14. ASSUME Cancels(c, i, 1) /\ p = 2 /\ m = 2 /\ o = Save("ctrl2", {}, {"AF"})
      PROVE  Goal
  <2>1. i < Count(c) /\ i > 1 /\ (c = "setup" \/ c = "deep_sleep")
    BY <1>14 DEF Cancels, QuietAt, Count
  <2>2. ~Cancelled
    BY <1>3, <2>1, NotLast
  <2>3. timed' = timed /\ due' = due
    <3>1. asked = due
      BY <1>14, Fields DEF asked
    <3> QED
      BY <1>10, <2>2, <3>1
  <2>4. "AF" \notin reg'["ctrl2"]
    BY <1>8, <1>14, Fields DEF Flags
  <2>5. Marks(c, i + 1, 1)'
    <3>1. InQuiet(c, i + 1, 1)'
      BY <1>14, <2>4 DEF InQuiet, Cancels, QuietAt
    <3>2. InSleep(c, i + 1)'
      BY <1>4, <1>6, <1>14, <2>3 DEF Marks, InSleep, Cancels, QuietAt, Excused
    <3>3. InSetup(c, i + 1)'
      BY <1>4, <1>6, <1>14 DEF Marks, InSetup, Cancels, QuietAt, inner
    <3>4. InTimer(c)' /\ InCut(c, i + 1, 1)' /\ InRtc(c, i + 1, 1)'
      BY <1>14, <2>1 DEF InTimer, InCut, InRtc, Cancels, QuietAt
    <3> QED
      BY <3>1, <3>2, <3>3, <3>4 DEF Marks
  <2>6. DueInv'
    BY <1>1, <1>6, <1>8, <2>3 DEF DueInv
  <2>7. due' \in 0..Never /\ timed' \in BOOLEAN
    BY <1>1, <1>9, <2>3 DEF Types, TypeOK
  <2>8. ~(p < m) /\ i # Count(c)
    BY <1>14 DEF Cancels, QuietAt, Count
  <2> QED
    BY <2>5, <2>6, <2>7, <2>8, Zenon
<1>15. ASSUME Cancels(c, i, 3) /\ p = 2 /\ m = 4 /\ o = Save("ctrl2", {}, {"TF"})
      PROVE  Goal
  <2>1. i > 2 /\ (c = "setup" \/ c = "deep_sleep")
    BY <1>15 DEF Cancels, QuietAt
  <2>2. ~Cancelled
    <3>1. p < m
      BY <1>15
    <3> QED
      BY <1>3, <3>1, NotLast DEF m
  <2>3. timed' = timed /\ due' = due
    <3>1. asked = due
      BY <1>15, Fields DEF asked
    <3> QED
      BY <1>10, <2>2, <3>1
  <2>4. "TF" \notin reg'["ctrl2"]
    BY <1>8, <1>15, Fields DEF Flags
  <2>5. Marks(c, i, p + 1)'
    <3>1. InQuiet(c, i, p + 1)'
      BY <1>4, <1>6, <1>8, <2>4 DEF Marks, InQuiet
    <3>2. InSleep(c, i)'
      BY <1>4, <1>6, <2>1, <2>3 DEF Marks, InSleep, Excused
    <3>3. InSetup(c, i)'
      BY <1>4, <1>6, <2>1 DEF Marks, InSetup, inner
    <3>4. InTimer(c)' /\ InCut(c, i, p + 1)' /\ InRtc(c, i, p + 1)'
      BY <2>1 DEF InTimer, InCut, InRtc
    <3> QED
      BY <3>1, <3>2, <3>3, <3>4 DEF Marks
  <2>6. DueInv'
    BY <1>1, <1>6, <1>8, <2>3 DEF DueInv
  <2>7. due' \in 0..Never /\ timed' \in BOOLEAN
    BY <1>1, <1>9, <2>3 DEF Types, TypeOK
  <2> QED
    BY <1>15, <2>5, <2>6, <2>7
<1>16. ASSUME Cancels(c, i, 3) /\ p = 4 /\ m = 4 /\ o = Save("mode", {}, {"TIE"})
      PROVE  Goal
  <2>1. i > 2 /\ i = Count(c) /\ i = QuietAt(c) + 3 /\ (c = "setup" \/ c = "deep_sleep")
    BY <1>16 DEF Cancels, QuietAt, Count
  <2>2. asked = due /\ reg'["ctrl2"] = reg["ctrl2"] /\ "TIE" \notin reg'["mode"]
    <3>1. o.r = "mode" /\ o.on = {} /\ o.off = {"TIE"}
      BY <1>16, Fields
    <3>2. reg'["mode"] = (seen \union o.on) \ o.off
      <4>1. reg \in [Registers -> SUBSET Bits]
        BY <1>1 DEF Types, TypeOK, Registers
      <4> QED
        BY <1>6, <3>1, <4>1 DEF WriteOf, Stored, Registers
    <3> QED
      BY <1>8, <3>1, <3>2 DEF asked
  <2>3. ReasonKnown'
    BY <1>4, <1>6, <1>11, <2>1 DEF Marks, InSetup, inner, ReasonKnown
  <2>4. CASE ~Cancelled
    <3>1. timed' = timed /\ due' = due
      BY <1>10, <2>2, <2>4
    <3>2. c = "deep_sleep" => Excused'
      BY <1>4, <1>6, <2>1, <3>1 DEF Marks, InSleep, Excused
    <3>3. DueInv'
      BY <1>1, <1>6, <1>8, <3>1 DEF DueInv
    <3>4. due' \in 0..Never /\ timed' \in BOOLEAN
      BY <1>1, <1>9, <3>1 DEF Types, TypeOK
    <3> QED
      BY <1>16, <2>1, <2>3, <3>2, <3>3, <3>4
  <2>5. CASE Cancelled
    <3>1. calm /\ due' = Never /\ ~timed'
      BY <1>6, <2>5, Zenon DEF Cancelled
    <3>2. "AF" \notin reg["ctrl2"] /\ alarm = Never
      BY <1>4, <2>1, <3>1 DEF Marks, InQuiet, QuietAt
    <3>3. DueInv'
      BY <1>1, <1>6, <1>8, <2>2, <3>2 DEF DueInv
    <3>4. c = "deep_sleep" => Excused'
      <4> SUFFICES ASSUME c = "deep_sleep", supply = "battery", ~hold PROVE touched
        BY <1>6 DEF Excused
      <4>1. ~touched => "TF" \notin reg["ctrl2"]
        BY <1>4, <1>16, <2>1, <3>1 DEF Marks, InQuiet, QuietAt
      <4>2. ~touched => lines = {}
        BY <1>1 DEF DueInv
      <4>3. ~touched => ~Interrupt
        BY <3>2, <4>1 DEF Interrupt
      <4> QED
        BY <1>2, <4>2, <4>3 DEF Powered, Asserted
    <3>5. due' \in 0..Never /\ timed' \in BOOLEAN
      <4>1. Never \in 0..Never
        BY <1>1, TypeFacts
      <4> QED
        BY <1>6, <1>9, <3>1, <4>1
    <3> QED
      BY <1>16, <2>1, <2>3, <3>3, <3>4, <3>5
  <2> QED
    BY <2>4, <2>5
<1>17. ASSUME c = "set_timer" /\ i = 1 /\ o.r \in Registers /\ "AIE" \notin o.on
      PROVE  Goal
  <2>1. ~Cancelled
    BY <1>4, <1>17 DEF Cancelled
  <2>2. timed' = timed /\ due' = due
    BY <1>10, <1>17, <2>1 DEF asked
  <2>3. timed
    BY <1>4, <1>17 DEF Marks, InTimer
  <2>4. Marks(c, i, p + 1)'
    BY <1>17, <2>2, <2>3 DEF Marks, InSetup, InQuiet, InRtc, InCut, InSleep, InTimer
  <2>5. DueInv'
    BY <1>1, <1>6, <1>8, <2>2 DEF DueInv
  <2>6. due' \in 0..Never /\ timed' \in BOOLEAN
    BY <1>1, <1>9, <2>2 DEF Types, TypeOK
  <2>7. i = Count(c)
    BY <1>17 DEF Count
  <2> QED
    BY <1>11, <1>17, <2>4, <2>5, <2>6, <2>7
<1>18. Goal
  <2>1. c = "set_timer" /\ i = 1 /\ o.do = "save" /\ IsSave(c, i, p, o, m) =>
          o.r \in Registers /\ "AIE" \notin o.on
    BY Fields DEF IsSave, SetsAlarm, Cancels, Registers
  <2>2. o.do = "save"
    BY <1>2, <1>4 DEF o
  <2> QED
    BY <1>5, <1>12, <1>13, <1>14, <1>15, <1>16, <1>17, <2>1, <2>2, Zenon DEF IsSave
<1>19. CallInv' /\ BlockHasOps'
  <2>1. Moved /\ Next1 /\ Out
    BY <1>18
  <2>2. power' = "on" /\ call' = call /\ todo' = Rest
    BY <1>2, <1>6
  <2> QED
    BY <1>3, <1>7, <1>11, <2>1, <2>2, Advance, Zenon DEF Moved, Next1, Out, o, m
<1>20. Types'
  BY <1>1, <1>6, <1>8, <1>18, <1>19 DEF Types, TypeOK, BlockHasOps, inner, Registers
<1>21. TakesInOrder'
  BY <1>1, <1>6 DEF TakesInOrder, Cached, inner
<1> QED
  BY <1>18, <1>19, <1>20, <1>21 DEF Inv

\* The alarm is set to the wake-up time or cancelled.
LEMMA StepWriteAlarm ==
  ASSUME Inv, WriteAlarm
  PROVE  Inv'
<1>1. Types /\ TakesInOrder /\ DueInv /\ CallInv
  BY DEF Inv
<1>2. power = "on" /\ InCall /\ Op.do = "alarm"
  BY DEF WriteAlarm, Do, Running
<1>3. PICK c, s, i, p : Placed(c, s, i, p)
  BY <1>1, <1>2, Place
<1> DEFINE o == s[i].ops[p]
           m == Len(s[i].ops)
<1>4. /\ Op = o /\ Kind(c, i, p, o, m) /\ Marks(c, i, p) /\ InOp(o) /\ c = call
      /\ m \in Nat /\ i \in Nat /\ p \in Nat /\ i <= Count(c)
  BY <1>3, PlaceOp DEF Placed
<1>5. IsAlarm(c, i, p, o, m)
  BY <1>2, <1>4 DEF Kind
<1>6. ~Cancelled
  <2>1. p < m \/ i < Count(c)
    <3>1. (p = 4 /\ m = 6) \/ Cancels(c, i, 2)
      BY <1>5, Zenon DEF IsAlarm
    <3>2. Cancels(c, i, 2) => i < Count(c)
      BY DEF Cancels, QuietAt, Count
    <3>3. p = 4 /\ m = 6 => p < m
      OBVIOUS
    <3> QED
      BY <3>1, <3>2, <3>3, Zenon
  <2> QED
    BY <1>3, <2>1, NotLast
<1>7. /\ UNCHANGED <<supply, lines, power, call, ticked, calls, calm, woken, hold, clock, inner, driver, touched>>
      /\ alarm' = (IF o.on THEN target ELSE Never)
      /\ \/ UNCHANGED reg
         \/ alarm' = clock /\ reg' = [reg EXCEPT !["ctrl2"] = @ \union {"AF"}]
      /\ todo' = Rest /\ due' = due /\ timed' = timed
  <2>1. /\ UNCHANGED <<user, power, call, ticked, calls, calm, woken>>
        /\ UNCHANGED <<hold, clock, inner, driver, touched>>
        /\ AlarmSet /\ todo' = Rest
        /\ due' = (IF Cancelled THEN Never ELSE due) /\ timed' = (timed /\ ~Cancelled)
    BY Zenon DEF WriteAlarm, Proceed, ProceedWith
  <2>2. timed \in BOOLEAN
    BY <1>1 DEF Types
  <2>3. due' = due /\ timed' = timed
    BY <1>6, <2>1, <2>2, GoesOn, Zenon
  <2>4. UNCHANGED <<supply, lines, power, call, ticked, calls, calm, woken, hold, clock, inner, driver, touched>>
    BY <2>1 DEF user
  <2>5. /\ alarm' = (IF o.on THEN target ELSE Never)
        /\ \/ UNCHANGED reg
           \/ alarm' = clock /\ reg' = [reg EXCEPT !["ctrl2"] = @ \union {"AF"}]
    BY <1>4, <2>1, Zenon DEF AlarmSet
  <2> QED
    BY <2>1, <2>3, <2>4, <2>5, Zenon
<1>8. until = Never /\ until' = Never /\ o # Load("ctrl2")
  BY <1>2, <1>4, <1>7, Fields DEF InOp, driver
<1>9. c # "setup" => ReasonKnown'
  BY <1>1, <1>2, <1>4, <1>7 DEF CallInv, ReasonKnown, inner
<1> HIDE DEF o, m
<1>10. /\ reg' \in [Registers -> SUBSET Bits] /\ alarm' \in 0..Never
       /\ "AF" \in reg'["ctrl2"] => due <= clock
       /\ "TIE" \notin reg'["ctrl2"] /\ ("TIE" \in reg'["mode"] => timed)
       /\ alarm' # Never => due <= alarm'
       /\ p = 4 => alarm' = target
       /\ p = 1 => alarm' = Never /\ reg' = reg
  <2>1. InRtc(c, i, p)
    BY <1>4 DEF Marks
  <2>2. alarm' = (IF o.on THEN target ELSE Never)
    BY <1>7
  <2>3. \/ UNCHANGED reg
        \/ alarm' = clock /\ reg' = [reg EXCEPT !["ctrl2"] = @ \union {"AF"}]
    BY <1>7
  <2> QED
    BY <1>1, <1>5, <2>1, <2>2, <2>3, Alarms
<1> DEFINE Moved == p < m => Marks(c, i, p + 1)'
           Next1 == p = m /\ i < Count(c) => Marks(c, i + 1, 1)'
           Goal == Moved /\ Next1 /\ (p = m => i < Count(c))
<1>11. ASSUME SetsAlarm(c, i), p = 4, m = 6
       PROVE  Goal
  <2>1. c = "set_rtc_wake" \/ c = "deep_sleep"
    BY <1>11 DEF SetsAlarm
  <2>2. InRtc(c, i, p + 1)'
    BY <1>4, <1>7, <1>10, <1>11 DEF Marks, InRtc, driver
  <2>3. InSleep(c, i)'
    BY <1>4, <1>7, <1>11 DEF Marks, InSleep, SetsAlarm, Excused
  <2>4. InTimer(c)' /\ InSetup(c, i)' /\ InQuiet(c, i, p + 1)' /\ InCut(c, i, p + 1)'
    BY <1>11, <2>1 DEF InTimer, InSetup, InQuiet, InCut, SetsAlarm, QuietAt
  <2>5. Marks(c, i, p + 1)'
    BY <2>2, <2>3, <2>4 DEF Marks
  <2> QED
    BY <1>11, <2>5
<1>12. ASSUME Cancels(c, i, 2), p = 1, m = 1
       PROVE  Goal
  <2>1. i > 2 /\ (c = "setup" \/ c = "deep_sleep") /\ i < Count(c) /\ i # Count(c)
    BY <1>12 DEF Cancels, QuietAt, Count
  <2>2. alarm' = Never /\ reg' = reg
    BY <1>10, <1>12
  <2>3. InQuiet(c, i + 1, 1)'
    BY <1>4, <1>7, <1>12, <2>2 DEF Marks, InQuiet, Cancels, QuietAt
  <2>4. InSleep(c, i + 1)'
    BY <1>4, <1>7, <1>12, <2>1 DEF Marks, InSleep, Excused
  <2>5. InSetup(c, i + 1)'
    BY <1>4, <1>7, <2>1 DEF Marks, InSetup, inner
  <2>6. InTimer(c)' /\ InCut(c, i + 1, 1)' /\ InRtc(c, i + 1, 1)'
    BY <1>4, <2>1 DEF InTimer, InCut, InRtc
  <2>7. Marks(c, i + 1, 1)'
    BY <2>3, <2>4, <2>5, <2>6 DEF Marks
  <2>8. ~(p < m)
    BY <1>12
  <2> QED
    BY <2>1, <2>7, <2>8, Zenon
<1>13. Goal
  BY <1>5, <1>11, <1>12, Zenon DEF IsAlarm
<1>14. CallInv' /\ BlockHasOps'
  <2>1. Moved /\ Next1 /\ ~(p = m /\ i = Count(c))
    BY <1>4, <1>13
  <2>2. power' = "on" /\ call' = call /\ todo' = Rest
    BY <1>2, <1>7
  <2> QED
    BY <1>3, <1>8, <1>9, <2>1, <2>2, Advance, Zenon DEF Moved, Next1, o, m
<1>15. DueInv'
  BY <1>1, <1>7, <1>10 DEF DueInv, driver
<1>16. Types'
  BY <1>1, <1>7, <1>10, <1>14 DEF Types, TypeOK, BlockHasOps, inner, driver, Registers
<1>17. TakesInOrder'
  BY <1>1, <1>7 DEF TakesInOrder, Cached, inner
<1> QED
  BY <1>14, <1>15, <1>16, <1>17 DEF Inv

\* A transfer to the clock chip fails: a call that must not fail ends, another goes on
\* with its next block.
LEMMA StepFails ==
  ASSUME Inv, Fails
  PROVE  Inv'
<1>1. Types /\ TakesInOrder /\ DueInv /\ CallInv
  BY DEF Inv
<1>2. power = "on" /\ InCall /\ Op.do \in {"now", "load", "save", "alarm"}
  BY DEF Fails, Running
<1>3. PICK c, s, i, p : Placed(c, s, i, p)
  BY <1>1, <1>2, Place
<1> DEFINE o == s[i].ops[p]
           m == Len(s[i].ops)
<1>4. /\ Op = o /\ Kind(c, i, p, o, m) /\ Marks(c, i, p) /\ InOp(o) /\ c = call
      /\ m \in Nat /\ i \in Nat /\ p \in Nat /\ i <= Count(c) /\ Len(s) = Count(c)
      /\ Head(todo).must = s[i].must /\ IsScript(s) /\ At(todo, s, i, p)
      /\ s \in ScriptsOf(c) /\ Shape(c, s) /\ c \in Calls
      /\ i = 1 /\ c # "power_off" => s[i].must = TRUE
      /\ c \in {"setup", "deep_sleep"} /\ i > QuietAt(c) => s[i].must = FALSE
  BY <1>3, PlaceOp DEF Placed
<1>5. /\ UNCHANGED <<supply, lines, power, hold, clock, inner, call, target, until, ticked, calls,
                     due, timed, touched, woken>>
      /\ calm' = FALSE /\ seen' = {} /\ todo' = (IF s[i].must THEN <<>> ELSE Tail(todo))
      /\ \/ UNCHANGED <<reg, alarm>>
         \/ o.do = "save" /\ WriteOf(o) /\ UNCHANGED alarm
         \/ o.do = "alarm" /\ AlarmSet
  <2>1. /\ UNCHANGED <<user, power, hold, clock, inner, call, target, until, ticked, calls, history, woken>>
        /\ calm' = FALSE /\ seen' = {} /\ todo' = (IF Head(todo).must THEN <<>> ELSE Tail(todo))
        /\ \/ UNCHANGED <<reg, alarm>>
           \/ Op.do = "save" /\ Written /\ UNCHANGED alarm
           \/ Op.do = "alarm" /\ AlarmSet
    BY Zenon DEF Fails
  <2>2. UNCHANGED <<supply, lines, power, hold, clock, inner, call, target, until, ticked, calls,
                    due, timed, touched, woken>>
    BY <2>1 DEF user, history
  <2>3. Written => WriteOf(o)
    BY <1>4, Zenon DEF Written, WriteOf
  <2> QED
    BY <1>4, <2>1, <2>2, <2>3, Zenon
<1>6. until = Never /\ until' = Never
  BY <1>2, <1>4, <1>5 DEF InOp
<1>7. \/ SetsAlarm(c, i)
      \/ c = "set_timer" /\ i = 1
      \/ c \in {"setup", "deep_sleep"} /\ i > QuietAt(c)
  <2>1. \/ SetsAlarm(c, i) \/ IsLoad(c, i, p, o, m) \/ IsSave(c, i, p, o, m) \/ IsAlarm(c, i, p, o, m)
    BY <1>2, <1>4 DEF Kind
  <2>2. Cancels(c, i, 1) \/ Cancels(c, i, 2) \/ Cancels(c, i, 3) =>
          c \in {"setup", "deep_sleep"} /\ i > QuietAt(c)
    BY DEF Cancels, QuietAt
  <2> HIDE DEF o, m
  <2>3. \/ SetsAlarm(c, i)
        \/ c = "set_timer" /\ i = 1
        \/ Cancels(c, i, 1) \/ Cancels(c, i, 2) \/ Cancels(c, i, 3)
    BY <2>1, Zenon DEF IsLoad, IsSave, IsAlarm
  <2> QED
    BY <2>2, <2>3, Zenon
<1>8. c # "setup" => ReasonKnown'
  BY <1>1, <1>2, <1>4, <1>5 DEF CallInv, ReasonKnown, inner
<1>9. /\ reg' \in [Registers -> SUBSET Bits] /\ alarm' \in 0..Never
      /\ "AF" \in reg'["ctrl2"] => due <= clock
      /\ "TIE" \notin reg'["ctrl2"] /\ ("TIE" \in reg'["mode"] => timed)
      /\ alarm' # Never => due <= alarm'
  <2> HIDE DEF o, m
  <2>1. CASE UNCHANGED <<reg, alarm>>
    BY <1>1, <2>1 DEF Types, TypeOK, Registers, DueInv
  <2>2. CASE o.do = "save" /\ WriteOf(o) /\ UNCHANGED alarm
    <3>1. IsSave(c, i, p, o, m) /\ InTimer(c) /\ (o.r = "ctrl2" => "TIE" \notin seen)
      BY <1>4, <2>2 DEF Kind, Marks, InOp
    <3>2. /\ reg' \in [Registers -> SUBSET Bits] /\ ("AF" \in reg'["ctrl2"] => "AF" \in reg["ctrl2"])
          /\ "TIE" \notin reg'["ctrl2"] /\ ("TIE" \in reg'["mode"] => timed)
      BY <1>1, <2>2, <3>1, Writes, Zenon
    <3> QED
      BY <1>1, <2>2, <3>2 DEF Types, TypeOK, DueInv
  <2>3. CASE o.do = "alarm" /\ AlarmSet
    <3>1. IsAlarm(c, i, p, o, m) /\ InRtc(c, i, p)
      BY <1>4, <2>3 DEF Kind, Marks
    <3>2. alarm' = (IF o.on THEN target ELSE Never)
      BY <1>4, <2>3, Zenon DEF AlarmSet
    <3>3. \/ UNCHANGED reg
          \/ alarm' = clock /\ reg' = [reg EXCEPT !["ctrl2"] = @ \union {"AF"}]
      BY <2>3, Zenon DEF AlarmSet
    <3> QED
      BY <1>1, <3>1, <3>2, <3>3, Alarms
  <2> QED
    BY <1>5, <2>1, <2>2, <2>3
<1>10. Excused => Excused'
  BY <1>5 DEF Excused
<1>11. c = "deep_sleep" => Excused
  <2>1. c = "deep_sleep" => i # 2
    BY <1>7 DEF SetsAlarm, QuietAt
  <2> QED
    BY <1>4, <2>1 DEF Marks, InSleep
<1>12. c # "power_off"
  BY <1>7 DEF SetsAlarm
<1> HIDE DEF o, m
<1>13. ASSUME s[i].must = TRUE PROVE CallInv' /\ BlockHasOps'
  <2>1. c # "setup" /\ todo' = <<>> /\ call' \in Calls /\ power' = "on"
    BY <1>2, <1>4, <1>5, <1>7, <1>13 DEF SetsAlarm
  <2>2. (call \in {"deep_sleep", "power_off"} => Excused)'
    BY <1>4, <1>5, <1>10, <1>11, <1>12
  <2>3. until' = Never /\ ReasonKnown'
    BY <1>6, <1>8, <2>1
  <2> QED
    BY <2>1, <2>2, <2>3, StepOut, Zenon
<1>14. ASSUME s[i].must = FALSE PROVE CallInv' /\ BlockHasOps'
  <2>1. i > 1 /\ (c = "setup" \/ c = "deep_sleep") /\ (c = "deep_sleep" => i > 2)
    BY <1>4, <1>7, <1>14 DEF SetsAlarm, QuietAt
  <2>2. todo' = Tail(todo) /\ power' = "on" /\ call' = c
    BY <1>2, <1>4, <1>5, <1>14
  <2>3. ReasonKnown'
    <3>1. c = "setup" => ReasonKnown
      BY <1>4, <2>1 DEF Marks, InSetup, ReasonKnown
    <3> QED
      BY <1>5, <1>8, <3>1 DEF ReasonKnown, inner
  <2>4. /\ i < Len(s) => At(Tail(todo), s, i + 1, 1)
        /\ i = Len(s) => Tail(todo) = <<>>
        /\ i < Len(s) \/ i = Len(s)
    BY <1>4, AtNextBlock, Zenon
  <2>5. CASE i < Len(s)
    <3>1. At(todo', s, i + 1, 1)
      BY <2>2, <2>4, <2>5
    <3>2. i + 1 \in 1..Len(s) /\ 1 \in 1..Len(s[i + 1].ops)
      BY <3>1 DEF At
    <3>3. s[i + 1].ops[1].do # "save"
      <4>1. Kind(c, i + 1, 1, s[i + 1].ops[1], Len(s[i + 1].ops))
        BY <1>4, <3>2, KindAt, Zenon
      <4>2. ~IsSave(c, i + 1, 1, s[i + 1].ops[1], Len(s[i + 1].ops))
        BY DEF IsSave
      <4> QED
        BY <4>1, <4>2 DEF Kind
    <3>4. InOp(s[i + 1].ops[1])'
      BY <1>6, <3>3 DEF InOp
    <3>5. Marks(c, i + 1, 1)'
      <4>1. InSleep(c, i + 1)'
        BY <1>4, <1>10, <1>11, <2>1 DEF InSleep
      <4>2. InSetup(c, i + 1)'
        BY <1>4, <2>1, <2>3 DEF InSetup, ReasonKnown
      <4>3. InTimer(c)' /\ InCut(c, i + 1, 1)' /\ InRtc(c, i + 1, 1)' /\ InQuiet(c, i + 1, 1)'
        BY <1>4, <1>5, <2>1 DEF InTimer, InCut, InRtc, InQuiet
      <4> QED
        BY <4>1, <4>2, <4>3 DEF Marks
    <3> QED
      BY <1>4, <2>2, <2>3, <3>1, <3>2, <3>4, <3>5, StepTo, Zenon
  <2>6. CASE i = Len(s)
    <3>1. todo' = <<>>
      BY <2>2, <2>4, <2>6
    <3>2. (call \in {"deep_sleep", "power_off"} => Excused)'
      BY <1>10, <1>11, <1>12, <2>2
    <3> QED
      BY <1>4, <1>6, <2>2, <2>3, <3>1, <3>2, StepOut, Zenon
  <2> QED
    BY <2>4, <2>5, <2>6
<1>15. s[i].must = TRUE \/ s[i].must = FALSE
  <2>1. SetsAlarm(c, i) => i = 1 /\ c # "power_off"
    BY DEF SetsAlarm
  <2> QED
    BY <1>4, <1>7, <1>12, <2>1
<1>16. CallInv' /\ BlockHasOps'
  BY <1>13, <1>14, <1>15
<1>17. DueInv'
  BY <1>1, <1>5, <1>9 DEF DueInv
<1>18. Types'
  BY <1>1, <1>5, <1>9, <1>16 DEF Types, TypeOK, BlockHasOps, inner, Registers
<1>19. TakesInOrder'
  BY <1>1, <1>5 DEF TakesInOrder, Cached, inner
<1> QED
  BY <1>16, <1>17, <1>18, <1>19 DEF Inv

\* A step that leaves a call where it is.
LEMMA StepHere ==
  ASSUME NEW c, NEW s, NEW i, NEW p, Placed(c, s, i, p),
         power' = "on", call' = call, todo' = todo,
         Marks(c, i, p)', InOp(s[i].ops[p])', c # "setup" => ReasonKnown'
  PROVE  CallInv' /\ BlockHasOps'
<1>1. /\ c \in Calls /\ call' = c /\ s \in ScriptsOf(c)
      /\ i \in 1..Len(s) /\ p \in 1..Len(s[i].ops) /\ At(todo', s, i, p)
  BY DEF Placed
<1> QED
  BY <1>1, StepTo, Zenon

\* A wait begins.
LEMMA StepStartWait ==
  ASSUME Inv, StartWait
  PROVE  Inv'
<1>1. Types /\ TakesInOrder /\ DueInv /\ CallInv
  BY DEF Inv
<1>2. power = "on" /\ InCall /\ Op.do = "wait" /\ until = Never
  BY DEF StartWait, Do, Running
<1>3. PICK c, s, i, p : Placed(c, s, i, p)
  BY <1>1, <1>2, Place
<1> DEFINE o == s[i].ops[p]
<1>4. /\ Op = o /\ Kind(c, i, p, o, Len(s[i].ops)) /\ Marks(c, i, p) /\ c = call
      /\ i \in Nat /\ p \in Nat
  BY <1>3, PlaceOp DEF Placed
<1>5. IsWait(c, i, p, o, Len(s[i].ops)) /\ o.do = "wait"
  BY <1>2, <1>4 DEF Kind
<1>6. /\ UNCHANGED <<supply, lines, power, hold, chip, inner, call, todo, seen, target, ticked, calls, calm,
                     due, timed, touched, woken>>
      /\ until' = clock + o.secs
  BY <1>4 DEF StartWait, user, history
<1> HIDE DEF o
<1>7. /\ (c = "deep_sleep" /\ i = 2) \/ (c = "power_off" /\ i = 1)
      /\ (p = 2 /\ o.secs = 1) \/ (p = 3 /\ o.secs \in Naps)
  BY <1>5, Zenon DEF IsWait
<1>8. clock <= LastCall + ticked + 1 /\ (p = 2 => clock <= LastCall + ticked)
  BY <1>1, <1>2, <1>4, <1>7, TypeFacts DEF Marks, InCut
<1>9. until' \in 0..Never
  <2>1. CASE o.secs = 1
    BY <1>1, <1>6, <2>1, TypeFacts
  <2>2. CASE o.secs \in Naps
    <3>1. o.secs \in Nat /\ LastCall + TicksPerCall + o.secs + 10 <= Horizon + 1
      BY <1>1, <2>2, TypeFacts
    <3> QED
      BY <1>1, <1>6, <1>8, <3>1, TypeFacts
  <2> QED
    BY <1>7, <2>1, <2>2
<1>10. Marks(c, i, p)'
  <2>1. InCut(c, i, p)'
    <3>1. clock' = clock /\ ticked' = ticked
      BY <1>6 DEF chip
    <3>2. p = 2 => until' = clock + 1
      BY <1>6, <1>7
    <3>3. clock \in Nat /\ ticked \in Nat /\ LastCall \in Nat
      BY <1>1, TypeFacts
    <3>4. p = 2 \/ p = 3
      BY <1>7
    <3> QED
      BY <1>8, <3>1, <3>2, <3>3, <3>4 DEF InCut
  <2>2. InQuiet(c, i, p)' /\ InRtc(c, i, p)'
    BY <1>4, <1>7 DEF InQuiet, InRtc, QuietAt
  <2>3. InSleep(c, i)' /\ InTimer(c)' /\ InSetup(c, i)'
    BY <1>4, <1>6, <1>7 DEF Marks, InSleep, InTimer, InSetup, Armed, Excused, chip
  <2> QED
    BY <2>1, <2>2, <2>3 DEF Marks
<1>11. InOp(o)'
  BY <1>5 DEF InOp
<1>12. ReasonKnown'
  BY <1>1, <1>2, <1>4, <1>6, <1>7 DEF CallInv, ReasonKnown, inner
<1>13. CallInv' /\ BlockHasOps'
  <2>1. power' = "on" /\ call' = call /\ todo' = todo
    BY <1>2, <1>6
  <2> QED
    BY <1>3, <1>10, <1>11, <1>12, <2>1, StepHere, Zenon DEF o
<1>14. DueInv'
  BY <1>1, <1>6 DEF DueInv, chip
<1>15. Types'
  BY <1>1, <1>6, <1>9, <1>13 DEF Types, TypeOK, BlockHasOps, chip, inner
<1>16. TakesInOrder'
  BY <1>1, <1>6 DEF TakesInOrder, Cached, inner
<1> QED
  BY <1>13, <1>14, <1>15, <1>16 DEF Inv

\* A wait ends: after the last one of power_off the board is up only for a reason.
LEMMA StepEndWait ==
  ASSUME Inv, EndWait
  PROVE  Inv'
<1>1. Types /\ TakesInOrder /\ DueInv /\ CallInv
  BY DEF Inv
<1>2. power = "on" /\ Powered /\ InCall /\ Op.do = "wait" /\ clock >= until
  BY DEF EndWait, Do, Running
<1>3. PICK c, s, i, p : Placed(c, s, i, p)
  BY <1>1, <1>2, Place
<1> DEFINE o == s[i].ops[p]
           m == Len(s[i].ops)
<1>4. /\ Op = o /\ Kind(c, i, p, o, m) /\ Marks(c, i, p) /\ c = call
      /\ i \in Nat /\ p \in Nat /\ m \in Nat
  BY <1>3, PlaceOp DEF Placed
<1>5. IsWait(c, i, p, o, m) /\ o.do = "wait"
  BY <1>2, <1>4 DEF Kind
<1>6. \/ c = "deep_sleep" /\ i = 2 /\ p = 2 /\ m = 3
      \/ c = "deep_sleep" /\ i = 2 /\ p = 3 /\ m = 3
      \/ c = "power_off" /\ i = 1 /\ p = 2 /\ m = 2
  <2> HIDE DEF o, m
  <2> QED
    BY <1>5, Zenon DEF IsWait
<1>7. ~Cancelled
  <2>1. CASE c = "deep_sleep"
    <3>1. i < Count(c)
      BY <1>6, <2>1 DEF Count
    <3> QED
      BY <1>3, <3>1, NotLast
  <2>2. CASE c = "power_off"
    BY <1>4, <2>2 DEF Cancelled
  <2> QED
    BY <1>6, <2>1, <2>2
<1>8. /\ UNCHANGED <<supply, lines, power, call, ticked, calls, calm, woken, hold, chip, inner, seen, target, touched>>
      /\ until' = Never /\ todo' = Rest /\ due' = due /\ timed' = timed
  <2>1. /\ UNCHANGED <<user, power, call, ticked, calls, calm, woken>>
        /\ UNCHANGED <<hold, chip, inner, seen, target, touched>>
        /\ until' = Never /\ todo' = Rest
        /\ due' = (IF Cancelled THEN Never ELSE due) /\ timed' = (timed /\ ~Cancelled)
    BY Zenon DEF EndWait, Proceed, ProceedWith
  <2>2. timed \in BOOLEAN
    BY <1>1 DEF Types
  <2>3. due' = due /\ timed' = timed
    BY <1>7, <2>1, <2>2, GoesOn, Zenon
  <2>4. UNCHANGED <<supply, lines, power, call, ticked, calls, calm, woken, hold, chip, inner, seen, target, touched>>
    BY <2>1 DEF user
  <2> QED
    BY <2>1, <2>3, <2>4, Zenon
<1>9. until # Never
  BY <1>1, <1>2, TypeFacts
<1>10. Excused'
  <2>1. Excused
    BY <1>1, <1>2, PoweredExcused, Zenon
  <2> QED
    BY <1>8, <2>1 DEF Excused, chip
<1>11. ReasonKnown' /\ o # Load("ctrl2")
  BY <1>1, <1>2, <1>4, <1>5, <1>6, <1>8, Fields DEF CallInv, ReasonKnown, inner
<1>12. p < m => Marks(c, i, p + 1)'
  <2> SUFFICES ASSUME p < m PROVE Marks(c, i, p + 1)'
    OBVIOUS
  <2>1. c = "deep_sleep" /\ i = 2 /\ p = 2
    <3> HIDE DEF m
    <3>1. ~(m < m)
      BY <1>4
    <3>2. p # m
      BY <3>1, Zenon
    <3> QED
      BY ONLY <1>6, <3>2
  <2>2. clock <= until /\ until <= LastCall + ticked + 1
    BY <1>4, <1>9, <2>1 DEF Marks, InCut
  <2>3. clock' <= LastCall + ticked' + 1
    <3>1. clock \in Nat /\ until \in Nat /\ ticked \in Nat /\ LastCall \in Nat
      BY <1>1, TypeFacts
    <3>2. clock' = clock /\ ticked' = ticked
      BY <1>8 DEF chip
    <3> QED
      BY <2>2, <3>1, <3>2
  <2>4. InCut(c, i, p + 1)'
    BY <2>1, <2>3 DEF InCut
  <2>5. InSleep(c, i)'
    BY <1>4, <1>8, <2>1 DEF Marks, InSleep, Armed, chip
  <2>6. InTimer(c)' /\ InSetup(c, i)' /\ InQuiet(c, i, p + 1)' /\ InRtc(c, i, p + 1)'
    BY <2>1 DEF InTimer, InSetup, InQuiet, InRtc, QuietAt
  <2> QED
    BY <2>4, <2>5, <2>6 DEF Marks
<1>13. p = m /\ i < Count(c) => Marks(c, i + 1, 1)'
  <2> SUFFICES ASSUME p = m, i < Count(c) PROVE Marks(c, i + 1, 1)'
    OBVIOUS
  <2>1. c = "deep_sleep" /\ i = 2
    BY <1>6 DEF Count
  <2>2. InSleep(c, i + 1)'
    BY <1>10, <2>1 DEF InSleep
  <2>3. /\ InTimer(c)' /\ InSetup(c, i + 1)' /\ InQuiet(c, i + 1, 1)' /\ InRtc(c, i + 1, 1)'
        /\ InCut(c, i + 1, 1)'
    BY <2>1 DEF InTimer, InSetup, InQuiet, InRtc, InCut, QuietAt
  <2> QED
    BY <2>2, <2>3 DEF Marks
<1>14. CallInv' /\ BlockHasOps'
  <2>1. power' = "on" /\ call' = call /\ todo' = Rest /\ until' = Never
    BY <1>2, <1>8
  <2> QED
    BY <1>3, <1>10, <1>11, <1>12, <1>13, <2>1, Advance, Zenon
<1>15. DueInv'
  BY <1>1, <1>8 DEF DueInv, chip
<1>16. Types'
  <2>1. until' \in 0..Never
    BY <1>1, <1>8, TypeFacts
  <2> QED
    BY <1>1, <1>8, <1>14, <2>1 DEF Types, TypeOK, BlockHasOps, chip, inner
<1>17. TakesInOrder'
  BY <1>1, <1>8 DEF TakesInOrder, Cached, inner
<1> QED
  BY <1>14, <1>15, <1>16, <1>17 DEF Inv

-----------------------------------------------------------------------------
(* The steps of the program between its calls, and those of the world.     *)

\* A script that begins waits for nothing and writes no register yet.
LEMMA BeginsWell ==
  ASSUME NEW c \in Calls, NEW s \in ScriptsOf(c)
  PROVE  At(s, s, 1, 1) /\ 1 \in 1..Len(s) /\ 1 \in 1..Len(s[1].ops) /\ s[1].ops[1].do # "save"
<1>1. Shape(c, s)
  BY ScriptShape, Zenon
<1>2. IsScript(s)
  BY <1>1 DEF Shape
<1>3. At(s, s, 1, 1)
  BY <1>2, AtStart, Zenon
<1>4. 1 \in 1..Len(s) /\ 1 \in 1..Len(s[1].ops)
  BY <1>3 DEF At
<1>5. Kind(c, 1, 1, s[1].ops[1], Len(s[1].ops))
  BY <1>1, <1>4, KindAt, Zenon
<1>6. ~IsSave(c, 1, 1, s[1].ops[1], Len(s[1].ops))
  BY DEF IsSave
<1> QED
  BY <1>3, <1>4, <1>5, <1>6 DEF Kind

\* The board gets power.
LEMMA StepBoot ==
  ASSUME Inv, Boot
  PROVE  Inv'
<1>1. Types /\ TakesInOrder /\ DueInv /\ CallInv
  BY DEF Inv
<1>2. /\ UNCHANGED <<supply, lines, hold, chip, calls, due, timed, touched>>
      /\ power' = "on" /\ call' = "setup" /\ todo' = Setup /\ calm' = TRUE /\ ticked' = 0
      /\ wake' = "None" /\ state' = {} /\ latched' = {} /\ got' = <<>>
      /\ seen' = {} /\ target' = Never /\ until' = Never
      /\ woken' = (IF lines # {} \/ ~Interrupt THEN "other" ELSE "rtc")
  BY DEF Boot, user, history
<1>3. Setup \in ScriptsOf("setup") /\ "setup" \in Calls
  BY DEF ScriptsOf, Calls
<1>4. PICK s \in ScriptsOf("setup") : s = Setup
  BY <1>3
<1>5. At(todo', s, 1, 1) /\ 1 \in 1..Len(s) /\ 1 \in 1..Len(s[1].ops) /\ s[1].ops[1].do # "save"
  BY <1>2, <1>3, <1>4, BeginsWell
<1>6. Marks("setup", 1, 1)'
  <2>1. woken' = "rtc" => Interrupt'
    BY <1>2 DEF Interrupt, chip
  <2> QED
    BY <2>1 DEF Marks, InSetup, InQuiet, InRtc, InCut, InSleep, InTimer, QuietAt
<1>7. InOp(s[1].ops[1])'
  BY <1>2, <1>5 DEF InOp
<1>8. CallInv' /\ BlockHasOps'
  BY <1>2, <1>3, <1>5, <1>6, <1>7, StepTo, Zenon
<1>9. DueInv'
  BY <1>1, <1>2 DEF DueInv, chip
<1>10. Types'
  <2>1. Never \in 0..Never /\ 0 \in Nat /\ 0 <= TicksPerCall
    BY <1>1, TypeFacts
  <2> QED
    BY <1>1, <1>2, <1>8, <2>1 DEF Types, TypeOK, BlockHasOps, chip
<1>11. TakesInOrder'
  BY <1>2 DEF TakesInOrder, Cached
<1> QED
  BY <1>8, <1>9, <1>10, <1>11 DEF Inv

\* The board loses its power: in a deep sleep the clock chip stays armed.
LEMMA StepDrop ==
  ASSUME Inv, Drop
  PROVE  Inv'
<1>1. Types /\ TakesInOrder /\ DueInv /\ CallInv
  BY DEF Inv
<1>2. /\ UNCHANGED <<supply, lines, hold, chip, inner, target, ticked, calls, calm, due, timed, touched, woken>>
      /\ power = "on" /\ power' = "off" /\ call' = (IF Sleeping THEN "asleep" ELSE "off")
      /\ todo' = <<>> /\ seen' = {} /\ until' = Never
  BY DEF Drop, user, history
<1>3. Sleeping /\ Brief => Armed
  <2> SUFFICES ASSUME Sleeping, Brief PROVE Armed
    OBVIOUS
  <2>1. call # "asleep"
    BY <1>1, <1>2 DEF CallInv, Calls
  <2>2. call = "deep_sleep" /\ InCall /\ Op.do = "wait"
    BY <2>1 DEF Sleeping
  <2>3. PICK c, s, i, p : Placed(c, s, i, p)
    BY <1>1, <1>2, <2>2, Place
  <2> DEFINE o == s[i].ops[p]
  <2>4. Op = o /\ Kind(c, i, p, o, Len(s[i].ops)) /\ Marks(c, i, p) /\ c = call
    BY <2>3, PlaceOp DEF Placed
  <2>5. IsWait(c, i, p, o, Len(s[i].ops))
    BY <2>2, <2>4 DEF Kind
  <2>6. c = "deep_sleep" /\ i = 2
    <3> HIDE DEF o
    <3> QED
      BY <2>2, <2>4, <2>5 DEF IsWait
  <2> QED
    BY <2>4, <2>6 DEF Marks, InSleep
<1>4. (Brief /\ Armed) => Armed'
  BY <1>2 DEF Armed, chip
<1>5. ~InCall'
  BY <1>2 DEF InCall
<1>6. CallInv'
  <2>1. call' \in {"asleep", "off"} /\ (call' = "asleep" => Sleeping)
    BY <1>2
  <2>2. (call = "asleep" /\ Brief => Armed)'
    BY <1>3, <1>4, <2>1 DEF Brief
  <2> QED
    BY <1>2, <1>5, <2>1, <2>2 DEF CallInv, Excused
<1>7. DueInv'
  BY <1>1, <1>2 DEF DueInv, chip
<1>8. Types'
  <2>1. Never \in 0..Never
    BY <1>1, TypeFacts
  <2> QED
    BY <1>1, <1>2, <1>5, <2>1 DEF Types, TypeOK, chip, inner
<1>9. TakesInOrder'
  BY <1>1, <1>2 DEF TakesInOrder, Cached, inner
<1> QED
  BY <1>6, <1>7, <1>8, <1>9 DEF Inv

\* The program makes a call.
LEMMA StepInvoke ==
  ASSUME Inv, NEW c \in Calls \ {"setup"}, NEW s \in ScriptsOf(c), Invoke(c, s),
         timed' \in BOOLEAN, timed => timed', c = "set_timer" => timed'
  PROVE  Inv'
<1>1. Types /\ TakesInOrder /\ DueInv /\ CallInv
  BY DEF Inv
<1>2. /\ power = "on" /\ Powered /\ ~InCall /\ calls < MaxCalls /\ clock <= LastCall
      /\ call' = c /\ todo' = s /\ calls' = calls + 1 /\ calm' = TRUE /\ ticked' = 0
      /\ UNCHANGED <<supply, lines, power, hold, chip, inner, driver, due, touched, woken>>
  BY DEF Invoke, Idle, Running, user
<1>3. At(todo', s, 1, 1) /\ 1 \in 1..Len(s) /\ 1 \in 1..Len(s[1].ops) /\ s[1].ops[1].do # "save"
  BY <1>2, BeginsWell
<1>4. Excused'
  <2>1. Excused
    BY <1>1, <1>2, PoweredExcused, Zenon
  <2> QED
    BY <1>2, <2>1 DEF Excused, chip
<1>5. Marks(c, 1, 1)'
  <2>1. clock' <= LastCall + ticked'
    BY <1>1, <1>2, TypeFacts DEF chip
  <2> QED
    BY <1>2, <1>4, <2>1 DEF Marks, InSetup, InQuiet, InRtc, InCut, InSleep, InTimer, QuietAt
<1>6. until' = Never /\ ReasonKnown'
  BY <1>1, <1>2 DEF CallInv, ReasonKnown, driver, inner
<1>7. InOp(s[1].ops[1])'
  BY <1>3, <1>6 DEF InOp
<1>8. CallInv' /\ BlockHasOps'
  <2>1. c \in Calls /\ power' = "on" /\ call' = c
    BY <1>2
  <2> QED
    BY <1>3, <1>5, <1>6, <1>7, <2>1, StepTo, Zenon
<1>9. DueInv'
  BY <1>1, <1>2 DEF DueInv, chip, driver
<1>10. Types'
  <2>1. 0 \in Nat /\ 0 <= TicksPerCall
    BY <1>1, TypeFacts
  <2>2. calls' \in Nat /\ calls' <= MaxCalls
    BY <1>1, <1>2, BoundsAssumption DEF Types
  <2> QED
    BY <1>1, <1>2, <1>8, <2>1, <2>2 DEF Types, TypeOK, BlockHasOps, chip, driver, inner
<1>11. TakesInOrder'
  BY <1>1, <1>2 DEF TakesInOrder, Cached, inner
<1> QED
  BY <1>8, <1>9, <1>10, <1>11 DEF Inv

\* The calls of the program on the power and the clock chip.
LEMMA StepCalls ==
  ASSUME Inv, CallWake \/ CallSleep \/ CallPowerOff \/ CallTimer
  PROVE  Inv'
<1>1. timed \in BOOLEAN
  BY DEF Inv, Types
<1>2. CASE CallWake
  <2>1. PICK n \in Naps : Invoke("set_rtc_wake", <<SetRtcWake(n)>>) /\ timed' = timed
    BY <1>2, Zenon DEF CallWake
  <2>2. <<SetRtcWake(n)>> \in ScriptsOf("set_rtc_wake") /\ "set_rtc_wake" \in Calls \ {"setup"}
    BY DEF ScriptsOf, Calls
  <2> QED
    BY <1>1, <2>1, <2>2, StepInvoke
<1>3. CASE CallSleep
  <2>1. PICK n \in Naps : Invoke("deep_sleep", DeepSleep(n)) /\ timed' = timed
    BY <1>3, Zenon DEF CallSleep
  <2>2. DeepSleep(n) \in ScriptsOf("deep_sleep") /\ "deep_sleep" \in Calls \ {"setup"}
    BY DEF ScriptsOf, Calls
  <2> QED
    BY <1>1, <2>1, <2>2, StepInvoke
<1>4. CASE CallPowerOff
  <2>1. Invoke("power_off", <<Try(PowerOff)>>) /\ timed' = timed
    BY <1>4, Zenon DEF CallPowerOff
  <2>2. <<Try(PowerOff)>> \in ScriptsOf("power_off") /\ "power_off" \in Calls \ {"setup"}
    BY DEF ScriptsOf, Calls
  <2> QED
    BY <1>1, <2>1, <2>2, StepInvoke
<1>5. CASE CallTimer
  <2>1. Invoke("set_timer", Timer) /\ timed' = TRUE
    BY <1>5, Zenon DEF CallTimer, Timer
  <2>2. Timer \in ScriptsOf("set_timer") /\ "set_timer" \in Calls \ {"setup"}
    BY DEF ScriptsOf, Calls
  <2> QED
    BY <2>1, <2>2, StepInvoke
<1> QED
  BY <1>2, <1>3, <1>4, <1>5

\* A call on the buttons touches only what is cached of them.
LEMMA StepButtons ==
  ASSUME Inv, NEW q, NEW g \in Seq(Signals), NEW l, q \subseteq Signals \union {Busy}, l \subseteq Signals,
         OnButtons(q, g, l), TakesInOrder'
  PROVE  Inv'
<1>1. Types /\ DueInv /\ CallInv
  BY DEF Inv
<1>2. /\ power = "on" /\ ~InCall /\ calls < MaxCalls
      /\ state' = q /\ got' = g /\ latched' = l /\ calls' = calls + 1
      /\ UNCHANGED <<supply, lines, power, hold, chip, wake, call, todo, driver, ticked, calm, due, timed, touched, woken>>
  BY DEF OnButtons, Idle, Running, user, history
<1>3. ~InCall'
  BY <1>2 DEF InCall
<1>4. CallInv'
  <2>1. Excused => Excused'
    BY <1>2 DEF Excused, chip
  <2>2. Armed => Armed'
    BY <1>2 DEF Armed, chip, driver
  <2>3. until' = until /\ wake' = wake /\ woken' = woken /\ call' = call /\ power' = power
    BY <1>2 DEF driver
  <2>4. (call = "asleep" /\ Brief => Armed)' /\ (call \in {"power_off", "deep_sleep"} => Excused)'
    BY <1>1, <1>2, <2>1, <2>2, <2>3 DEF CallInv
  <2> QED
    BY <1>1, <1>2, <1>3, <2>3, <2>4 DEF CallInv
<1>5. DueInv'
  BY <1>1, <1>2 DEF DueInv, chip, driver
<1>6. Types'
  <2>1. calls' \in Nat /\ calls' <= MaxCalls
    BY <1>1, <1>2, BoundsAssumption DEF Types
  <2> QED
    BY <1>1, <1>2, <1>3, <2>1 DEF Types, TypeOK, chip, driver
<1> QED
  BY <1>4, <1>5, <1>6 DEF Inv

\* The first button that was read and not yet handed out is handed out.
LEMMA StepTake ==
  ASSUME Inv, Take
  PROVE  Inv'
<1>1. Types /\ TakesInOrder
  BY DEF Inv
<1> DEFINE f == First(Cached)
           g == Append(got, f)
<1>2. Cached # {} /\ OnButtons(state \ {f}, g, latched)
  BY Zenon DEF Take
<1>3. /\ state \subseteq Signals \union {Busy} /\ Cached \subseteq Signals
      /\ latched \subseteq Signals /\ got \in Seq(Signals)
  BY <1>1 DEF Types, TypeOK, Cached
<1>4. f \in Cached /\ \A b \in Cached : b # f => Rank(f) < Rank(b)
  BY <1>2, <1>3, FirstOf
<1>5. state' = state \ {f} /\ got' = g /\ latched' = latched
  BY <1>2, Zenon DEF OnButtons
<1> HIDE DEF f
<1>6. /\ g \in Seq(Signals) /\ Len(got) \in Nat /\ DOMAIN got = 1..Len(got)
      /\ DOMAIN g = 1..(Len(got) + 1) /\ g[Len(got) + 1] = f
      /\ \A i \in DOMAIN got : g[i] = got[i]
  BY <1>3, <1>4
<1> HIDE DEF g
<1>7. /\ {got[i] : i \in DOMAIN got} \union Cached = latched
      /\ \A i \in DOMAIN got : \A b \in Cached : Rank(got[i]) < Rank(b)
      /\ \A i, j \in DOMAIN got : i < j => Rank(got[i]) < Rank(got[j])
  BY <1>1, Zenon DEF TakesInOrder
<1>8. \A i \in DOMAIN g : (i \in DOMAIN got /\ g[i] = got[i]) \/ (i = Len(got) + 1 /\ g[i] = f)
  BY <1>6
<1>9. {g[i] : i \in DOMAIN g} \union (Cached \ {f}) = latched
  <2>1. Len(got) + 1 \in DOMAIN g /\ \A i \in DOMAIN got : i \in DOMAIN g
    BY <1>6
  <2>2. {g[i] : i \in DOMAIN g} = {got[i] : i \in DOMAIN got} \union {f}
    BY <1>6, <1>8, <2>1
  <2> QED
    BY <1>4, <1>7, <2>2
<1>10. \A i \in DOMAIN g : \A b \in Cached \ {f} : Rank(g[i]) < Rank(b)
  BY <1>4, <1>7, <1>8
<1>11. ASSUME NEW i \in DOMAIN g, NEW j \in DOMAIN g, i < j
       PROVE  Rank(g[i]) < Rank(g[j])
  <2>1. i \in DOMAIN got /\ g[i] = got[i]
    BY <1>6, <1>8, <1>11
  <2>2. CASE j \in DOMAIN got /\ g[j] = got[j]
    BY <1>7, <1>11, <2>1, <2>2, Zenon
  <2>3. CASE g[j] = f
    BY <1>4, <1>7, <2>1, <2>3, Zenon
  <2> QED
    BY <1>8, <2>2, <2>3
<1>12. TakesInOrder'
  <2>1. Cached' = Cached \ {f}
    BY <1>5 DEF Cached
  <2> QED
    BY <1>5, <1>9, <1>10, <1>11, <2>1 DEF TakesInOrder
<1>13. state \ {f} \subseteq Signals \union {Busy} /\ latched \subseteq Signals /\ g \in Seq(Signals)
  BY <1>3, <1>6
<1>14. OnButtons(state \ {f}, g, latched)
  BY <1>2
<1> QED
  BY <1>12, <1>13, <1>14, StepButtons

\* The buttons are read, cleared or set.
LEMMA StepCached ==
  ASSUME Inv, Read \/ Clear \/ SetPressed
  PROVE  Inv'
<1>1. PICK q : q \subseteq Signals /\ OnButtons(q, <<>>, q)
  <2>1. CASE Read
    <3>1. Asserted \subseteq Signals
      BY AssertedSignals DEF Inv
    <3> QED
      BY <2>1, <3>1, Zenon DEF Read
  <2>2. CASE Clear
    <3>1. {} \subseteq Signals
      OBVIOUS
    <3> QED
      BY <2>2, <3>1, Zenon DEF Clear
  <2>3. CASE SetPressed
    <3>1. PICK b \in Presses : OnButtons({b}, <<>>, {b})
      BY <2>3, Zenon DEF SetPressed
    <3>2. {b} \subseteq Signals
      BY PressesAssumption
    <3> QED
      BY <3>1, <3>2, Zenon
  <2> QED
    BY <2>1, <2>2, <2>3
<1>2. <<>> \in Seq(Signals) /\ state' = q /\ got' = <<>> /\ latched' = q
  BY <1>1 DEF OnButtons
<1>3. TakesInOrder'
  <2>1. Cached' = q
    BY <1>1, <1>2, BusyIsNoSignal DEF Cached
  <2> QED
    BY <1>2, <2>1 DEF TakesInOrder
<1> QED
  BY <1>1, <1>2, <1>3, StepButtons

\* A second goes by: what becomes due interrupts, and no place is left behind.
LEMMA StepTick ==
  ASSUME Inv, Tick
  PROVE  Inv'
<1>1. Types /\ TakesInOrder /\ DueInv /\ CallInv
  BY DEF Inv
<1>2. /\ UNCHANGED <<supply, lines, power, hold, alarm, inner, call, todo, driver, calls, due, timed, touched, woken>>
      /\ clock < Horizon /\ clock' = clock + 1
      /\ InCall => (IF Waiting THEN clock < until ELSE ticked < TicksPerCall)
      /\ ticked' = (IF InCall /\ ~Waiting THEN ticked + 1 ELSE ticked)
  BY DEF Tick, user, history
<1>3. \/ alarm = clock' /\ reg' = [reg EXCEPT !["ctrl2"] = @ \union {"AF"}] /\ calm' = (calm /\ ~InCall)
      \/ alarm # clock' /\ reg' = reg /\ calm' = calm
  <2>1. CASE alarm = clock'
    BY <2>1, Zenon DEF Tick
  <2>2. CASE alarm # clock'
    BY <2>2, Zenon DEF Tick
  <2> QED
    BY <2>1, <2>2
<1>4. /\ clock \in Nat /\ Horizon \in Nat /\ Never = Horizon + 1 /\ due \in Nat /\ alarm \in Nat
      /\ LastCall \in Nat /\ ticked \in Nat /\ ticked <= TicksPerCall /\ TicksPerCall \in Nat
      /\ target \in Nat /\ until \in Nat /\ \A n \in Naps : n \in Nat
  BY <1>1, TypeFacts
<1>5. reg \in [Registers -> SUBSET Bits]
  BY <1>1 DEF Types, TypeOK, Registers
<1>6. /\ reg' \in [Registers -> SUBSET Bits] /\ reg'["mode"] = reg["mode"]
      /\ reg["ctrl2"] \subseteq reg'["ctrl2"]
      /\ reg'["ctrl2"] \subseteq reg["ctrl2"] \union {"AF"}
      /\ alarm = clock' => "AF" \in reg'["ctrl2"]
      /\ alarm # clock' => reg'["ctrl2"] = reg["ctrl2"]
  <2>1. CASE alarm = clock' /\ reg' = [reg EXCEPT !["ctrl2"] = @ \union {"AF"}]
    BY <1>5, <2>1 DEF Registers, Bits
  <2>2. CASE alarm # clock' /\ reg' = reg
    BY <1>5, <2>2
  <2> QED
    BY <1>3, <2>1, <2>2
<1>7. DueInv'
  <2>1. "AF" \in reg'["ctrl2"] => due <= clock'
    <3>1. CASE alarm = clock'
      <4>1. alarm # Never
        BY <1>2, <1>4, <3>1
      <4> QED
        BY <1>1, <3>1, <4>1 DEF DueInv
    <3>2. CASE alarm # clock'
      <4>1. "AF" \in reg'["ctrl2"] => due <= clock
        BY <1>1, <1>6, <3>2 DEF DueInv
      <4> QED
        BY <1>2, <1>4, <4>1
    <3> QED
      BY <3>1, <3>2
  <2>2. "TIE" \notin reg'["ctrl2"]
    BY <1>1, <1>6 DEF DueInv
  <2> QED
    BY <1>1, <1>2, <1>6, <2>1, <2>2 DEF DueInv, driver
<1>8. Excused => Excused'
  <2>1. due <= clock => due <= clock'
    BY <1>2, <1>4
  <2> QED
    BY <1>2, <2>1 DEF Excused
<1>9. Armed => Armed'
  <2> SUFFICES ASSUME Armed PROVE Armed'
    OBVIOUS
  <2>1. alarm = target /\ "AIE" \in reg["ctrl2"] /\ (clock < target \/ "AF" \in reg["ctrl2"])
    BY DEF Armed
  <2>2. alarm' = alarm /\ target' = target
    BY <1>2 DEF driver
  <2>3. clock' < target \/ "AF" \in reg'["ctrl2"]
    <3>1. CASE alarm = clock'
      BY <1>6, <3>1
    <3>2. CASE alarm # clock'
      BY <1>2, <1>4, <1>6, <2>1, <3>2
    <3> QED
      BY <3>1, <3>2
  <2> QED
    BY <1>6, <2>1, <2>2, <2>3 DEF Armed
<1>10. calm' \in BOOLEAN /\ (calm' => calm) /\ (calm' /\ InCall => reg' = reg)
  <2>1. calm \in BOOLEAN
    BY <1>1 DEF Types
  <2>2. CASE alarm = clock' /\ calm' = (calm /\ ~InCall)
    BY <2>1, <2>2, Zenon
  <2>3. CASE reg' = reg /\ calm' = calm
    BY <2>1, <2>3, Zenon
  <2> QED
    BY <1>3, <2>2, <2>3
<1>11. ASSUME InCall PROVE CallInv' /\ BlockHasOps'
  <2>1. power = "on"
    BY <1>1, <1>11 DEF CallInv, Types, TypeOK
  <2>2. PICK c, s, i, p : Placed(c, s, i, p)
    BY <1>1, <1>11, <2>1, Place
  <2> DEFINE o == s[i].ops[p]
  <2>3. /\ Op = o /\ Kind(c, i, p, o, Len(s[i].ops)) /\ Marks(c, i, p) /\ InOp(o) /\ c = call
        /\ i \in Nat /\ p \in Nat
    BY <2>2, PlaceOp DEF Placed
  <2> HIDE DEF o
  <2>4. SetsAlarm(c, i) => ~Waiting
    <3>1. SetsAlarm(c, i) => ~IsWait(c, i, p, o, Len(s[i].ops))
      BY DEF SetsAlarm, IsWait
    <3> QED
      BY <2>3, <3>1 DEF Waiting, Kind
  <2>5. ~Waiting /\ clock <= LastCall + ticked => clock' <= LastCall + ticked'
    BY <1>2, <1>4, <1>11
  <2>6. ~Waiting /\ clock <= LastCall + ticked + 1 => clock' <= LastCall + ticked' + 1
    BY <1>2, <1>4, <1>11
  <2>7. InRtc(c, i, p)'
    <3> SUFFICES ASSUME SetsAlarm(c, i) PROVE InRtc(c, i, p)'
      BY DEF InRtc, SetsAlarm
    <3>1. /\ clock <= LastCall + ticked
          /\ p >= 2 => due <= target /\ \E n \in Naps : clock + n <= target + ticked
          /\ p >= 5 => alarm = target
      BY <2>3 DEF Marks, InRtc, SetsAlarm
    <3>2. clock' <= LastCall + ticked'
      BY <2>4, <2>5, <3>1
    <3>3. ASSUME NEW n \in Naps, clock + n <= target + ticked PROVE clock' + n <= target + ticked'
      BY <1>2, <1>4, <1>11, <2>4, <3>3
    <3>4. p >= 2 => \E n \in Naps : clock' + n <= target + ticked'
      BY <3>1, <3>3, Zenon
    <3>5. target' = target /\ alarm' = alarm /\ due' = due
      BY <1>2 DEF driver
    <3> QED
      BY <3>1, <3>2, <3>4, <3>5 DEF InRtc
  <2>8. InCut(c, i, p)'
    <3> SUFFICES ASSUME c = "power_off" \/ (c = "deep_sleep" /\ i = 2) PROVE InCut(c, i, p)'
      BY DEF InCut
    <3>1. /\ p <= 2 /\ until = Never => clock <= LastCall + ticked
          /\ p = 2 /\ until # Never => clock <= until /\ until <= LastCall + ticked + 1
          /\ p = 3 /\ until = Never => clock <= LastCall + ticked + 1
      BY <2>3 DEF Marks, InCut
    <3>2. until' = until
      BY <1>2 DEF driver
    <3>3. until = Never => ~Waiting
      BY DEF Waiting
    <3>4. p = 2 /\ until # Never => Waiting
      <4>1. until # Never => o.do = "wait"
        BY <2>3 DEF InOp
      <4> QED
        BY <1>11, <2>3, <4>1 DEF Waiting
    <3>5. Waiting => clock < until /\ ticked' = ticked
      BY <1>2, <1>11
    <3>6. p = 2 /\ until # Never => clock' <= until /\ until <= LastCall + ticked' + 1
      BY <1>2, <1>4, <3>1, <3>4, <3>5
    <3>7. p <= 2 /\ until = Never => clock' <= LastCall + ticked'
      BY <2>5, <3>1, <3>3
    <3>8. p = 3 /\ until = Never => clock' <= LastCall + ticked' + 1
      BY <2>6, <3>1, <3>3
    <3> QED
      BY <3>2, <3>6, <3>7, <3>8 DEF InCut
  <2>9. InQuiet(c, i, p)'
    <3>1. ~calm' => InQuiet(c, i, p)'
      BY DEF InQuiet
    <3>2. calm' => calm /\ reg' = reg
      BY <1>10, <1>11
    <3>3. calm /\ reg' = reg => InQuiet(c, i, p)'
      BY <1>2, <2>3 DEF Marks, InQuiet
    <3> QED
      BY <3>1, <3>2, <3>3
  <2>10. InSetup(c, i)'
    <3>1. Interrupt => Interrupt'
      BY <1>6 DEF Interrupt
    <3> QED
      BY <1>2, <2>3, <3>1 DEF Marks, InSetup, inner
  <2>11. InSleep(c, i)' /\ InTimer(c)'
    BY <1>2, <1>8, <1>9, <2>3 DEF Marks, InSleep, InTimer, Brief
  <2>12. Marks(c, i, p)'
    BY <2>7, <2>8, <2>9, <2>10, <2>11 DEF Marks
  <2>13. InOp(o)'
    BY <1>2, <2>3 DEF InOp, driver
  <2>14. c # "setup" => ReasonKnown'
    BY <1>1, <1>2, <2>1, <2>3 DEF CallInv, ReasonKnown, inner
  <2>15. power' = "on" /\ call' = call /\ todo' = todo
    BY <1>2, <2>1
  <2>16. CallInv' /\ BlockHasOps'
    BY <2>2, <2>12, <2>13, <2>14, <2>15, StepHere, Zenon DEF o
  <2> QED
    BY <2>16
<1>12. ASSUME ~InCall PROVE CallInv' /\ BlockHasOps'
  <2>1. ~InCall'
    BY <1>2, <1>12 DEF InCall
  <2>2. (call \in {"power_off", "deep_sleep"} => Excused)' /\ (call = "asleep" /\ Brief => Armed)'
    BY <1>1, <1>2, <1>8, <1>9, <1>12 DEF CallInv, Brief
  <2>3. /\ until' = until /\ wake' = wake /\ woken' = woken /\ call' = call /\ power' = power
    BY <1>2 DEF driver, inner
  <2> QED
    BY <1>1, <1>12, <2>1, <2>2, <2>3 DEF CallInv, BlockHasOps
<1>13. CallInv' /\ BlockHasOps'
  BY <1>11, <1>12
<1>14. Types'
  <2>1. clock' \in Start..Horizon
    BY <1>1, <1>2, TypeFacts
  <2>2. ticked' \in Nat /\ ticked' <= TicksPerCall
    BY <1>2, <1>4
  <2> QED
    BY <1>1, <1>2, <1>6, <1>10, <1>13, <2>1, <2>2 DEF Types, TypeOK, BlockHasOps, inner, driver, Registers
<1>15. TakesInOrder'
  BY <1>1, <1>2 DEF TakesInOrder, Cached, inner
<1> QED
  BY <1>7, <1>13, <1>14, <1>15 DEF Inv

\* The world changes nothing but the triggers and the flag of the timer.  In the last
\* block of an undisturbed deep sleep the timer is silent, for it is what keeps a
\* board up that nobody touched.
LEMMA StepWorld ==
  ASSUME Inv,
         UNCHANGED <<supply, power, hold, clock, alarm, inner, call, todo, driver, ticked, calls, calm,
                     due, timed, woken>>,
         lines' \subseteq Presses, touched' \in BOOLEAN, touched => touched', lines' # {} => touched',
         reg' \in [Registers -> SUBSET Bits], reg'["mode"] = reg["mode"],
         reg["ctrl2"] \subseteq reg'["ctrl2"], reg'["ctrl2"] \subseteq reg["ctrl2"] \union {"TF"},
         "TF" \in reg["ctrl2"] \/ "TF" \notin reg'["ctrl2"] \/ Settled
  PROVE  Inv'
<1>1. Types /\ TakesInOrder /\ DueInv /\ CallInv
  BY DEF Inv
<1>2. Excused => Excused'
  BY DEF Excused
<1>3. Armed => Armed'
  BY DEF Armed, driver
<1>4. Interrupt => Interrupt'
  BY DEF Interrupt
<1>5. DueInv'
  BY <1>1 DEF DueInv, driver
<1>6. ASSUME InCall PROVE CallInv' /\ BlockHasOps'
  <2>1. power = "on"
    BY <1>1, <1>6 DEF CallInv, Types, TypeOK
  <2>2. PICK c, s, i, p : Placed(c, s, i, p)
    BY <1>1, <1>6, <2>1, Place
  <2> DEFINE o == s[i].ops[p]
  <2>3. Marks(c, i, p) /\ InOp(o) /\ c = call /\ i \in Nat /\ p \in Nat
    BY <2>2, PlaceOp DEF Placed
  <2> HIDE DEF o
  <2>4. InRtc(c, i, p)' /\ InCut(c, i, p)'
    BY <2>3 DEF Marks, InRtc, InCut, driver
  <2>5. InQuiet(c, i, p)'
    <3> SUFFICES ASSUME c \in {"setup", "deep_sleep"}, calm PROVE InQuiet(c, i, p)'
      BY DEF InQuiet
    <3>1. /\ i >= QuietAt(c) + 2 => "AF" \notin reg["ctrl2"]
          /\ i >= QuietAt(c) + 3 => alarm = Never
          /\ c = "deep_sleep" /\ i = 5 /\ p >= 3 /\ supply = "battery" /\ ~hold /\ ~touched =>
               "TF" \notin reg["ctrl2"]
      BY <2>3 DEF Marks, InQuiet
    <3>2. i >= QuietAt(c) + 2 => "AF" \notin reg'["ctrl2"]
      BY <3>1
    <3>3. ASSUME c = "deep_sleep", i = 5, p >= 3, supply = "battery", ~hold, ~touched'
          PROVE  "TF" \notin reg'["ctrl2"]
      <4>1. "TF" \notin reg["ctrl2"] /\ "AF" \notin reg["ctrl2"]
        BY <3>1, <3>3 DEF QuietAt
      <4>2. lines = {}
        BY <1>1, <3>3 DEF DueInv
      <4>3. ~Interrupt
        BY <4>1, Zenon DEF Interrupt
      <4>4. Asserted = {}
        BY <4>2, <4>3 DEF Asserted
      <4>5. ~Powered
        <5>1. supply # "usb"
          BY <3>3
        <5> QED
          BY <3>3, <4>4, <5>1, Zenon DEF Powered
      <4>6. ~Settled
        BY <2>1, <4>5, Zenon DEF Settled
      <4> QED
        BY <4>1, <4>6
    <3> QED
      BY <3>1, <3>2, <3>3 DEF InQuiet
  <2>6. InSetup(c, i)'
    BY <1>4, <2>3 DEF Marks, InSetup, inner
  <2>7. InSleep(c, i)' /\ InTimer(c)'
    BY <1>2, <1>3, <2>3 DEF Marks, InSleep, InTimer, Brief
  <2>8. Marks(c, i, p)'
    BY <2>4, <2>5, <2>6, <2>7 DEF Marks
  <2>9. InOp(o)'
    BY <2>3 DEF InOp, driver
  <2>10. c # "setup" => ReasonKnown'
    BY <1>1, <2>1, <2>3 DEF CallInv, ReasonKnown, inner
  <2>11. power' = "on" /\ call' = call /\ todo' = todo
    BY <2>1
  <2> QED
    BY <2>2, <2>8, <2>9, <2>10, <2>11, StepHere, Zenon DEF o
<1>7. ASSUME ~InCall PROVE CallInv' /\ BlockHasOps'
  <2>1. ~InCall'
    BY <1>7 DEF InCall
  <2>2. (call \in {"power_off", "deep_sleep"} => Excused)' /\ (call = "asleep" /\ Brief => Armed)'
    BY <1>1, <1>2, <1>3, <1>7 DEF CallInv, Brief
  <2>3. /\ until' = until /\ wake' = wake /\ woken' = woken /\ call' = call /\ power' = power
    BY DEF driver, inner
  <2> QED
    BY <1>1, <1>7, <2>1, <2>2, <2>3 DEF CallInv, BlockHasOps
<1>8. CallInv' /\ BlockHasOps'
  BY <1>6, <1>7
<1>9. Types'
  BY <1>1, <1>8 DEF Types, TypeOK, BlockHasOps, inner, driver, Registers
<1>10. TakesInOrder'
  BY <1>1 DEF TakesInOrder, Cached, inner
<1> QED
  BY <1>5, <1>8, <1>9, <1>10 DEF Inv

\* The timer of the clock chip fires.
LEMMA StepTimerFires ==
  ASSUME Inv, TimerFires
  PROVE  Inv'
<1>1. /\ Settled /\ reg' = [reg EXCEPT !["ctrl2"] = @ \union {"TF"}]
      /\ UNCHANGED <<supply, lines, power, hold, clock, alarm, inner, call, todo, driver, ticked, calls, calm,
                     due, timed, touched, woken>>
  BY DEF TimerFires, user, history
<1>2. /\ reg \in [Registers -> SUBSET Bits] /\ lines \subseteq Presses /\ touched \in BOOLEAN
      /\ lines # {} => touched
  BY DEF Inv, Types, TypeOK, Registers, DueInv
<1>3. /\ reg' \in [Registers -> SUBSET Bits] /\ reg'["mode"] = reg["mode"]
      /\ reg["ctrl2"] \subseteq reg'["ctrl2"] /\ reg'["ctrl2"] \subseteq reg["ctrl2"] \union {"TF"}
  BY <1>1, <1>2 DEF Registers, Bits
<1> QED
  BY <1>1, <1>2, <1>3, StepWorld

\* Somebody presses or releases a button, or nothing happens at all.
LEMMA StepUser ==
  ASSUME Inv, Press \/ Release \/ UNCHANGED vars
  PROVE  Inv'
<1>1. /\ reg \in [Registers -> SUBSET Bits] /\ lines \subseteq Presses /\ touched \in BOOLEAN
      /\ lines # {} => touched
  BY DEF Inv, Types, TypeOK, Registers, DueInv
<1>2. /\ UNCHANGED <<supply, power, hold, clock, alarm, inner, call, todo, driver, ticked, calls, calm,
                     due, timed, woken>>
      /\ reg' = reg
  BY DEF Press, Release, vars, user, chip, history
<1>3. lines' \subseteq Presses /\ touched' \in BOOLEAN /\ (touched => touched') /\ (lines' # {} => touched')
  <2>1. CASE Press
    <3>1. touched' = TRUE /\ \E b \in Presses \ lines : lines' = lines \union {b}
      BY <2>1, Zenon DEF Press
    <3> QED
      BY <1>1, <3>1
  <2>2. CASE Release
    <3>1. touched' = touched /\ \E b \in lines : lines' = lines \ {b}
      BY <2>2 DEF Release, history
    <3> QED
      BY <1>1, <3>1
  <2>3. CASE UNCHANGED vars
    BY <1>1, <2>3 DEF vars, user, history
  <2> QED
    BY <2>1, <2>2, <2>3
<1> QED
  BY <1>1, <1>2, <1>3, StepWorld

\* Before the first boot nothing is set and nothing runs.
LEMMA InvInit == Init => Inv
<1> SUFFICES ASSUME Init PROVE Inv
  OBVIOUS
<1>1. /\ supply \in {"usb", "battery"} /\ power = "off" /\ call = "off" /\ hold = FALSE /\ lines = {}
      /\ clock = Start /\ alarm = Never /\ reg = [r \in {"ctrl2", "mode"} |-> {}]
      /\ wake = "None" /\ state = {} /\ latched = {} /\ got = <<>>
      /\ todo = <<>> /\ seen = {} /\ target = Never /\ until = Never /\ ticked = 0 /\ calls = 0
      /\ calm = TRUE /\ due = Never /\ timed = FALSE /\ touched = FALSE
  BY DEF Init
<1>2. Start \in Nat /\ Horizon \in Nat /\ Start <= Horizon /\ MaxCalls \in Nat /\ TicksPerCall \in Nat
  BY BoundsAssumption
<1>3. ~InCall
  BY <1>1 DEF InCall
<1>4. Types
  <2>1. Start \in Start..Horizon /\ Never \in 0..Never /\ 0 <= TicksPerCall /\ 0 <= MaxCalls
    BY <1>2 DEF Never
  <2>2. clock \in Start..Horizon /\ {alarm, target, until, due} \subseteq 0..Never
    BY <1>1, <2>1
  <2>3. reg \in [{"ctrl2", "mode"} -> SUBSET Bits] /\ hold \in BOOLEAN /\ {timed, touched, calm} \subseteq BOOLEAN
    BY <1>1
  <2>4. ticked <= TicksPerCall /\ calls <= MaxCalls /\ ticked \in Nat /\ calls \in Nat
    BY <1>1, <2>1
  <2>5. got \in Seq(Signals)
    BY <1>1
  <2> QED
    BY <1>1, <1>3, <2>2, <2>3, <2>4, <2>5 DEF Types, TypeOK
<1>5. TakesInOrder
  BY <1>1 DEF TakesInOrder, Cached
<1>6. DueInv
  BY <1>1 DEF DueInv
<1>7. CallInv
  BY <1>1, <1>3 DEF CallInv
<1> QED
  BY <1>4, <1>5, <1>6, <1>7 DEF Inv

\* Every step keeps the invariant.
LEMMA InvNext == Inv /\ [Next]_vars => Inv'
<1> SUFFICES ASSUME Inv, [Next]_vars PROVE Inv'
  OBVIOUS
<1>1. CASE Boot
  BY <1>1, StepBoot
<1>2. CASE Drop
  BY <1>2, StepDrop
<1>3. CASE Driver
  BY <1>3, StepSetPin, StepReadShift, StepReadNow, StepLoadReg, StepSaveReg, StepWriteAlarm,
     StepStartWait, StepEndWait, Zenon DEF Driver
<1>4. CASE Fails
  BY <1>4, StepFails
<1>5. CASE CallWake \/ CallSleep \/ CallPowerOff \/ CallTimer
  BY <1>5, StepCalls
<1>6. CASE Take
  BY <1>6, StepTake
<1>7. CASE Read \/ Clear \/ SetPressed
  BY <1>7, StepCached
<1>8. CASE Tick
  BY <1>8, StepTick
<1>9. CASE TimerFires
  BY <1>9, StepTimerFires
<1>10. CASE Press \/ Release \/ UNCHANGED vars
  BY <1>10, StepUser
<1> QED
  BY <1>1, <1>2, <1>3, <1>4, <1>5, <1>6, <1>7, <1>8, <1>9, <1>10, Zenon DEF Next

\* The invariant holds in every state of the board.
THEOREM Invariant == Spec => []Inv
BY InvInit, InvNext, PTL DEF Spec

-----------------------------------------------------------------------------
(* What follows from it.                                                   *)

\* The board is well-typed, no press that was read is lost or handed out twice, and
\* the reason of a boot is known (setup reads it before it clears the clock chip,
\* inky.rs 83-95), whatever fails and whoever presses what.
THEOREM SpecConsistent == Spec => []Consistent
<1>1. Inv => Consistent
  <2> SUFFICES ASSUME Inv PROVE Consistent
    OBVIOUS
  <2>1. WakeIsKnown
    BY DEF WakeIsKnown, Inv, CallInv
  <2> QED
    BY <2>1 DEF Consistent, Inv, Types
<1> QED
  BY <1>1, Invariant, PTL

\* When the transfers of a call take less time than the shortest nap, a deep sleep is
\* armed for as long as it waits, with or without power, and power_off cuts the power
\* unless there is a reason to be up (inky.rs 182-236).
THEOREM SleepSafe == ASSUME Brief PROVE Spec => []SleepIsSafe
<1>1. Inv => SleepIsSafe
  <2> SUFFICES ASSUME Inv PROVE SleepIsSafe
    OBVIOUS
  <2>1. Types /\ DueInv /\ CallInv
    BY DEF Inv
  <2>2. ASSUME InCall, call = "deep_sleep"
        PROVE  (Op.do = "wait" => Armed) /\ (~(Op.do \in {"wait", "pin"}) => Excused)
    <3>1. power = "on"
      BY <2>1, <2>2 DEF CallInv, Types, TypeOK
    <3>2. PICK c, s, i, p : Placed(c, s, i, p)
      BY <2>1, <2>2, <3>1, Place
    <3> DEFINE o == s[i].ops[p]
    <3>3. Op = o /\ Kind(c, i, p, o, Len(s[i].ops)) /\ Marks(c, i, p) /\ c = call
      BY <3>2, PlaceOp DEF Placed
    <3> HIDE DEF o
    <3>4. (i = 2 => Armed) /\ (i # 2 => Excused)
      BY <2>2, <3>3 DEF Marks, InSleep
    <3>5. o.do = "wait" => i = 2
      BY <2>2, <3>3 DEF Kind, IsWait
    <3>6. ~(o.do \in {"wait", "pin"}) => i # 2
      <4> SUFFICES ASSUME i = 2 PROVE o.do \in {"wait", "pin"}
        OBVIOUS
      <4>1. c = "deep_sleep" /\ ~SetsAlarm(c, i)
            /\ ~Cancels(c, i, 1) /\ ~Cancels(c, i, 2) /\ ~Cancels(c, i, 3)
        BY <2>2, <3>3 DEF SetsAlarm, Cancels, QuietAt
      <4>2. ~IsLoad(c, i, p, o, Len(s[i].ops)) /\ ~IsSave(c, i, p, o, Len(s[i].ops))
        BY <4>1 DEF IsLoad, IsSave
      <4>3. ~IsAlarm(c, i, p, o, Len(s[i].ops))
        BY <4>1, Zenon DEF IsAlarm
      <4> QED
        BY <3>3, <4>1, <4>2, <4>3, Zenon DEF Kind
    <3>7. Op.do = o.do
      BY <3>3, Zenon
    <3>8. (o.do = "wait" => Armed) /\ (~(o.do \in {"wait", "pin"}) => Excused)
      <4>1. CASE i = 2
        BY <3>4, <3>6, <4>1
      <4>2. CASE i # 2
        BY <3>4, <3>5, <4>2
      <4> QED
        BY <4>1, <4>2
    <3> QED
      BY <3>7, <3>8
  <2>3. SleepArmed
    <3>1. power \in {"on", "off"}
      BY <2>1 DEF Types, TypeOK
    <3>2. call = "asleep" => ~InCall
      BY <2>1, <3>1 DEF CallInv, Calls
    <3>3. Sleeping => Armed
      BY <2>1, <2>2, <3>2 DEF Sleeping, CallInv
    <3> QED
      BY <3>3 DEF SleepArmed, Armed
  <2>4. PowerOffCuts
    BY <2>1, <2>2 DEF PowerOffCuts, CallInv, Excused
  <2> QED
    BY <2>3, <2>4 DEF SleepIsSafe
<1> QED
  BY <1>1, Invariant, PTL

\* The clock chip switches the board on only for a wake-up that was asked for and is
\* due (inky.rs 83-95 and 182-236), or for a timer the program uses.
THEOREM WakesOnlyWhenAsked == Spec => WakesWhenAsked
<1> DEFINE Asked == woken' = "rtc" /\ power = "off" /\ power' = "on" => timed \/ due <= clock
<1>1. Inv /\ [Next]_vars => [Asked]_vars
  <2> SUFFICES ASSUME Inv, Next, woken' = "rtc", power = "off", power' = "on"
               PROVE  timed \/ due <= clock
    OBVIOUS
  <2>1. Boot
    BY DEF Next, Driver, SetPin, ReadShift, ReadNow, LoadReg, SaveReg, WriteAlarm, StartWait, EndWait,
       Do, Running, Fails, CallWake, CallSleep, CallPowerOff, CallTimer, Invoke, Take, Read, Clear,
       SetPressed, OnButtons, Idle, Drop, Tick, TimerFires, Press, Release
  <2>2. Interrupt
    BY <2>1 DEF Boot
  <2> QED
    BY <2>2, Roused DEF Inv
<1>2. [][Asked]_vars => WakesWhenAsked
  BY DEF WakesWhenAsked
<1> QED
  BY <1>1, <1>2, Invariant, PTL DEF Spec
=============================================================================
