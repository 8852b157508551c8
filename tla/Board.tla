--------------------------------- MODULE Board ---------------------------------
(***************************************************************************)
(* Power of the board: boot, the wake reason, the alarm and the timer of   *)
(* the PCF85063A clock, power_off and deep_sleep (src/src/inky.rs, pcf.rs, *)
(* hw/buttons.rs, frame/shift.rs).  A call is a list of blocks, a block a  *)
(* list of operations, and each operation one transfer to a chip: the      *)
(* seconds go by, and a user presses and releases, between any two.        *)
(***************************************************************************)
EXTENDS Naturals, Sequences, FiniteSetsExt

CONSTANTS
  Presses,       \* the buttons and triggers a user works
  Naps,          \* the seconds a program asks to sleep
  Start,         \* what the clock shows at first, in seconds
  LastCall,      \* bound: no call starts after it
  Horizon,       \* bound: the clock stops here
  MaxCalls,      \* bound: calls of the program
  TicksPerCall,  \* bound: seconds that go by in the transfers of one call
  MayFail        \* TRUE: a transfer to the clock chip may fail

ASSUME BoundsAssumption ==
  /\ {Start, LastCall, Horizon, MaxCalls, TicksPerCall} \subseteq Nat
  /\ Naps \subseteq Nat \ {0} /\ Start <= Horizon /\ MayFail \in BOOLEAN
  /\ \A n \in Naps : LastCall + TicksPerCall + n + 10 <= Horizon + 1

VARIABLES
  supply,  \* "usb" or "battery"
  power,   \* "on" or "off"
  hold,    \* Inner.pwr: the pin that keeps the battery connected
  lines,   \* the buttons and triggers that are pressed
  clock,   \* the time of the clock chip
  alarm,   \* its alarm registers
  reg,     \* its control 2 and timer mode registers, as sets of bits
  wake,    \* Inner.wake
  state,   \* Buttons.state
  call,    \* the running or the last call; "asleep" or "off" without power
  todo,    \* the blocks the call has left
  seen,    \* the register value it read last
  target,  \* the wake-up time it computed
  until,   \* when the running wait is over
  ticked,  \* seconds that went by in its transfers
  calls,   \* number of calls so far
  calm,    \* history: nothing failed and no alarm went off in this call
  due,     \* history: no wake-up was asked for before this time
  timed,   \* history: the program uses the timer
  woken,   \* history: what switched the board on
  touched, \* history: something was pressed since the pin went low
  latched, \* history: what the last read of the buttons saw
  got      \* history: the buttons taken since

chip == <<clock, alarm, reg>>
user == <<supply, lines>>
inner == <<wake, state, latched, got>>
driver == <<seen, target, until>>
history == <<due, timed, touched>>
vars == <<user, power, hold, chip, inner, call, todo, driver, ticked, calls, calm, history, woken>>

-----------------------------------------------------------------------------
(* The hardware.                                                           *)

Flags == {"AF", "TF"}
Never == Horizon + 1

\* The interrupt line of the clock chip.
Interrupt ==
  \/ {"AF", "AIE"} \subseteq reg["ctrl2"]
  \/ "TF" \in reg["ctrl2"] /\ "TIE" \in reg["mode"]

Asserted == lines \union (IF Interrupt THEN {"RTC"} ELSE {})
Powered  == supply = "usb" \/ hold \/ Asserted # {}

\* Power never stays on without a source.
Settled == power = "on" => Powered

\* What a register holds after a write of w: a flag is cleared by a 0 and kept by
\* a 1.
Stored(r, w) == IF r = "ctrl2" THEN (w \ Flags) \union (reg[r] \intersect w) ELSE w

-----------------------------------------------------------------------------
(* The calls.                                                              *)

Pin(h)           == [do |-> "pin", high |-> h]
Shift            == [do |-> "shift"]
Now(n)           == [do |-> "now", secs |-> n]
Load(r)          == [do |-> "load", r |-> r]
Save(r, on, off) == [do |-> "save", r |-> r, on |-> on, off |-> off]
Alarm(on)        == [do |-> "alarm", on |-> on]
Wait(n)          == [do |-> "wait", secs |-> n]

\* A block whose failure ends the call (the ? operator), and one whose failure is
\* ignored (let _ =).
Must(ops) == [must |-> TRUE, ops |-> ops]
Try(ops)  == [must |-> FALSE, ops |-> ops]

AlarmClearState   == <<Load("ctrl2"), Save("ctrl2", {}, {"AF"})>>
TimerClearState   == <<Load("ctrl2"), Save("ctrl2", {}, {"TF"})>>
AlarmDisable      == <<Alarm(FALSE)>>
SetAlarm          == <<Alarm(TRUE)>>
SetAlarmInterrupt == <<Load("ctrl2"), Save("ctrl2", {"AIE"}, {"AF"})>>
SetTimer          == <<Load("mode"), Save("mode", {"TE"}, {})>>
SetTimerInterrupt(en) ==
  TimerClearState \o
  <<Load("mode"), IF en THEN Save("mode", {"TIE"}, {}) ELSE Save("mode", {}, {"TIE"})>>

\* Mutant: the alarm stays set.
QuietKeepsAlarm == <<Try(AlarmClearState), Try(SetTimerInterrupt(FALSE))>>

\* What a boot and the end of a deep sleep cancel.
Quiet == <<Try(AlarmClearState), Try(AlarmDisable), Try(SetTimerInterrupt(FALSE))>>

\* Mutant: the clock chip is silenced before the wake reason is read.
SetupQuietFirst == <<Must(<<Pin(TRUE)>>)>> \o Quiet \o <<Must(<<Shift>>)>>

Setup == <<Must(<<Pin(TRUE), Shift>>)>> \o Quiet

\* Mutant: the errors of the clock chip are ignored.
SetRtcWakeIgnored(n) == Try(<<Now(n)>> \o AlarmClearState \o SetAlarm \o SetAlarmInterrupt)

SetRtcWake(n) == Must(<<Now(n)>> \o AlarmClearState \o SetAlarm \o SetAlarmInterrupt)
PowerOff == <<Pin(FALSE), Wait(1)>>

DeepSleep(n) == <<SetRtcWake(n), Try(PowerOff \o <<Wait(n)>>)>> \o Quiet

\* Mutant: the minute is not moved on.
AdjustBack(t)  == IF t % 60 >= 55 /\ (t \div 60) % 60 <= 58 THEN t - (t % 60) + 5 ELSE t

\* The wake-up time, moved out of the last seconds of a minute.
Adjust(t) ==
  IF t % 60 >= 55 /\ (t \div 60) % 60 <= 58 THEN t - (t % 60) + 65 ELSE t

-----------------------------------------------------------------------------
(* The buttons.                                                            *)

Order == <<"ButtonA", "ButtonB", "ButtonC", "ButtonD", "ButtonE", "RTC", "External">>
Signals == {Order[i] : i \in DOMAIN Order}
Rank(b) == CHOOSE i \in DOMAIN Order : Order[i] = b
ASSUME PressesAssumption == Presses \subseteq Signals

\* Bit 7 of the register is the display's: no button, but boot keeps it in the state.
Busy == "DisplayBusy"
Cached == state \ {Busy}

\* WakeReason::from, and pressed.
First(s) == IF s = {} THEN "None" ELSE Order[Min({Rank(b) : b \in s})]

-----------------------------------------------------------------------------
Init ==
  /\ supply \in {"usb", "battery"}
  /\ power = "off" /\ call = "off" /\ hold = FALSE /\ lines = {}
  /\ clock = Start /\ alarm = Never /\ reg = [r \in {"ctrl2", "mode"} |-> {}]
  /\ wake = "None" /\ state = {} /\ latched = {} /\ got = <<>>
  /\ todo = <<>> /\ seen = {} /\ target = Never /\ until = Never
  /\ ticked = 0 /\ calls = 0
  /\ calm = TRUE /\ due = Never /\ timed = FALSE /\ woken = "none" /\ touched = FALSE

\* The board gets power and the program calls InkyBoard::get, which finds its
\* memory zeroed and sets it up.
Boot ==
  /\ power = "off" /\ Powered
  /\ power' = "on"
  /\ woken' = IF lines # {} \/ ~Interrupt THEN "other" ELSE "rtc"
  /\ call' = "setup" /\ todo' = Setup /\ calm' = TRUE /\ ticked' = 0
  /\ wake' = "None" /\ state' = {} /\ latched' = {} /\ got' = <<>>
  /\ seen' = {} /\ target' = Never /\ until' = Never
  /\ UNCHANGED <<user, hold, chip, calls, history>>

Running == power = "on" /\ Powered
Op == Head(Head(todo).ops)
InCall == todo # <<>>
Do(what) == Running /\ InCall /\ Op.do = what

Sleeping == call = "asleep" \/ (call = "deep_sleep" /\ InCall /\ ~hold /\ Op.do = "wait")

\* Nothing keeps the board on any longer.
Drop ==
  /\ power = "on" /\ ~Powered
  /\ power' = "off"
  /\ call' = IF Sleeping THEN "asleep" ELSE "off"
  /\ todo' = <<>> /\ seen' = {} /\ until' = Never
  /\ UNCHANGED <<user, hold, chip, inner, target, ticked, calls, calm, history, woken>>

-----------------------------------------------------------------------------
(* The operations of a call.                                               *)

Rest ==
  LET b == Head(todo)
  IN IF Len(b.ops) > 1 THEN <<[b EXCEPT !.ops = Tail(b.ops)]>> \o Tail(todo) ELSE Tail(todo)

\* A boot or a deep sleep that ends undisturbed has cancelled every wake-up.
Cancelled == Rest = <<>> /\ calm /\ call \in {"setup", "deep_sleep"}

\* The next operation; asked is the time of the wake-up asked for by this one.
ProceedWith(asked) ==
  /\ todo' = Rest
  /\ due' = IF Cancelled THEN Never ELSE asked
  /\ timed' = (timed /\ ~Cancelled)
  /\ UNCHANGED <<user, power, call, ticked, calls, calm, woken>>

Proceed == ProceedWith(due)

SetPin ==
  /\ Do("pin")
  /\ hold' = Op.high
  /\ touched' = (lines # {})
  /\ Proceed
  /\ UNCHANGED <<chip, inner, driver>>

\* setup hands the register to Buttons as it is; only Buttons::read masks it.
ReadShift ==
  /\ Do("shift")
  /\ wake' = First(Asserted)
  /\ state' \in {Asserted, Asserted \union {Busy}} /\ latched' = Asserted /\ got' = <<>>
  /\ Proceed
  /\ UNCHANGED <<hold, chip, driver, touched>>

ReadNow ==
  /\ Do("now")
  /\ target' = Adjust(clock + Op.secs)
  /\ ProceedWith(Min({due, target'}))
  /\ UNCHANGED <<hold, chip, inner, seen, until, touched>>

LoadReg ==
  /\ Do("load")
  /\ seen' = reg[Op.r]
  /\ Proceed
  /\ UNCHANGED <<hold, chip, inner, target, until, touched>>

\* A register is written back from the value read before.
Written == reg' = [reg EXCEPT ![Op.r] = Stored(Op.r, (seen \union Op.on) \ Op.off)]

\* The wake-up that was asked for last replaces those before it.
SaveReg ==
  /\ Do("save")
  /\ Written
  /\ seen' = {}
  /\ ProceedWith(IF "AIE" \in Op.on THEN target ELSE due)
  /\ UNCHANGED <<hold, clock, alarm, inner, target, until, touched>>

\* An alarm for this very second may or may not go off.
AlarmSet ==
  /\ alarm' = IF Op.on THEN target ELSE Never
  /\ \/ UNCHANGED reg
     \/ alarm' = clock /\ reg' = [reg EXCEPT !["ctrl2"] = @ \union {"AF"}]

WriteAlarm ==
  /\ Do("alarm")
  /\ AlarmSet
  /\ Proceed
  /\ UNCHANGED <<hold, clock, inner, driver, touched>>

\* A transfer fails; a write may have reached the chip all the same.
Fails ==
  /\ MayFail /\ Running /\ InCall
  /\ \/ Op.do \in {"now", "load", "save", "alarm"} /\ UNCHANGED <<reg, alarm>>
     \/ Op.do = "save" /\ Written /\ UNCHANGED alarm
     \/ Op.do = "alarm" /\ AlarmSet
  /\ todo' = IF Head(todo).must THEN <<>> ELSE Tail(todo)
  /\ calm' = FALSE /\ seen' = {}
  /\ UNCHANGED <<user, power, hold, clock, inner, call, target, until, ticked, calls, history, woken>>

StartWait ==
  /\ Do("wait") /\ until = Never
  /\ until' = clock + Op.secs
  /\ UNCHANGED <<user, power, hold, chip, inner, call, todo, seen, target, ticked, calls, calm, history, woken>>

EndWait ==
  /\ Do("wait") /\ clock >= until
  /\ until' = Never
  /\ Proceed
  /\ UNCHANGED <<hold, chip, inner, seen, target, touched>>

Driver ==
  \/ SetPin \/ ReadShift \/ ReadNow \/ LoadReg \/ SaveReg \/ WriteAlarm
  \/ StartWait \/ EndWait

-----------------------------------------------------------------------------
(* The program.                                                            *)

Idle == Running /\ ~InCall /\ calls < MaxCalls /\ clock <= LastCall

Invoke(name, blocks) ==
  /\ Idle
  /\ call' = name /\ todo' = blocks /\ calls' = calls + 1
  /\ calm' = TRUE /\ ticked' = 0
  /\ UNCHANGED <<user, power, hold, chip, inner, driver, due, touched, woken>>

CallWake     == \E n \in Naps : Invoke("set_rtc_wake", <<SetRtcWake(n)>>) /\ UNCHANGED timed
CallSleep    == \E n \in Naps : Invoke("deep_sleep", DeepSleep(n)) /\ UNCHANGED timed
CallPowerOff == Invoke("power_off", <<Try(PowerOff)>>) /\ UNCHANGED timed
CallTimer ==
  /\ Invoke("set_timer", <<Must(SetTimer \o SetTimerInterrupt(TRUE))>>)
  /\ timed' = TRUE

\* The calls on the buttons change only what is cached of them.
OnButtons(cached, taken, ofRead) ==
  /\ Idle
  /\ state' = cached /\ got' = taken /\ latched' = ofRead
  /\ calls' = calls + 1
  /\ UNCHANGED <<user, power, hold, chip, wake, call, todo, driver, ticked, calm, history, woken>>

Take == Cached # {} /\ OnButtons(state \ {First(Cached)}, Append(got, First(Cached)), latched)
Read == OnButtons(Asserted, <<>>, Asserted)
Clear == OnButtons({}, <<>>, {})
SetPressed == \E b \in Presses : OnButtons({b}, <<>>, {b})

-----------------------------------------------------------------------------
(* The world.                                                              *)

Waiting == InCall /\ Op.do = "wait" /\ until # Never

\* A second goes by: not more than TicksPerCall of them between the transfers of a
\* call, and a wait ends as soon as it is over.
Tick ==
  /\ Settled /\ clock < Horizon
  /\ InCall => (IF Waiting THEN clock < until ELSE ticked < TicksPerCall)
  /\ clock' = clock + 1
  /\ ticked' = IF InCall /\ ~Waiting THEN ticked + 1 ELSE ticked
  /\ IF alarm = clock'
       THEN /\ reg' = [reg EXCEPT !["ctrl2"] = @ \union {"AF"}]
            /\ calm' = (calm /\ ~InCall)
       ELSE UNCHANGED <<reg, calm>>
  /\ UNCHANGED <<user, power, hold, alarm, inner, call, todo, driver, calls, history, woken>>

TimerFires ==
  /\ Settled /\ "TE" \in reg["mode"] /\ "TF" \notin reg["ctrl2"]
  /\ reg' = [reg EXCEPT !["ctrl2"] = @ \union {"TF"}]
  /\ UNCHANGED <<user, power, hold, clock, alarm, inner, call, todo, driver, ticked, calls, calm, history, woken>>

Press ==
  /\ Settled
  /\ \E b \in Presses \ lines : lines' = lines \union {b}
  /\ touched' = TRUE
  /\ UNCHANGED <<supply, power, hold, chip, inner, call, todo, driver, ticked, calls, calm, due, timed, woken>>

Release ==
  /\ Settled
  /\ \E b \in lines : lines' = lines \ {b}
  /\ UNCHANGED <<supply, power, hold, chip, inner, call, todo, driver, ticked, calls, calm, history, woken>>

Next ==
  \/ Boot \/ Drop
  \/ Driver \/ Fails
  \/ CallWake \/ CallSleep \/ CallPowerOff \/ CallTimer
  \/ Take \/ Read \/ Clear \/ SetPressed
  \/ Tick \/ TimerFires \/ Press \/ Release

Spec == Init /\ [][Next]_vars

\* Time goes by, a board with power boots and a program that runs goes on.
FairSpec == Spec /\ WF_vars(Tick) /\ WF_vars(Boot) /\ WF_vars(Driver)

-----------------------------------------------------------------------------
(* Properties.                                                             *)

Bits == {"AF", "TF", "AIE", "TE", "TIE"}

\* Every variable has its type.
TypeOK ==
  /\ supply \in {"usb", "battery"} /\ power \in {"on", "off"} /\ hold \in BOOLEAN
  /\ lines \subseteq Presses
  /\ clock \in Start..Horizon /\ {alarm, target, until, due} \subseteq 0..Never
  /\ reg \in [{"ctrl2", "mode"} -> SUBSET Bits]
  /\ wake \in Signals \union {"None"} /\ state \subseteq Signals \union {Busy}
  /\ InCall => Len(Head(todo).ops) > 0
  /\ seen \subseteq Bits
  /\ ticked <= TicksPerCall /\ calls <= MaxCalls

\* While deep_sleep waits with the power pin low, on the board or without power,
\* the clock chip will wake it or already tries to (inky.rs 223-227).
SleepArmed ==
  Sleeping =>
    /\ alarm = target /\ "AIE" \in reg["ctrl2"]
    /\ clock < target \/ "AF" \in reg["ctrl2"]

\* "On battery power, the next lines will NOT run" (inky.rs 226): what follows
\* power_off runs only when somebody pressed something, a wake-up is due or the
\* program uses the timer.
PowerOffCuts ==
  supply = "battery" /\ power = "on" /\ ~hold
    /\ \/ call = "power_off" /\ ~InCall
       \/ call = "deep_sleep" /\ (InCall => ~(Op.do \in {"wait", "pin"}))
    => touched \/ timed \/ due <= clock

\* A board the clock chip switched on says so, or names the button that was pressed
\* as well: setup reads the reason before it clears it (inky.rs 83-95).
WakeIsKnown ==
  power = "on" /\ woken = "rtc" /\ (call = "setup" => ~InCall) => wake # "None"

\* The clock chip switches the board on only for a wake-up the program asked for, not
\* before its time, and for none that was set before the last boot.
WakesWhenAsked == [][woken' = "rtc" /\ power = "off" /\ power' = "on" => timed \/ due <= clock]_vars

\* Repeated takes hand out what the last read saw, each once and in order.
TakesInOrder ==
  /\ {got[i] : i \in DOMAIN got} \union Cached = latched
  /\ \A i \in DOMAIN got : \A b \in Cached : Rank(got[i]) < Rank(b)
  /\ \A i, j \in DOMAIN got : i < j => Rank(got[i]) < Rank(got[j])

\* The board is well-typed, no alarm is set past what the clock can reach, no press
\* that was read is lost or handed out twice (buttons.rs 92-149), and the reason of a
\* boot is known (inky.rs 83-95).
Consistent == TypeOK /\ TakesInOrder /\ WakeIsKnown

\* A sleep is safe: what waits for the clock chip is armed, and the power is cut when
\* nothing keeps it up (inky.rs 182-236).
SleepIsSafe == SleepArmed /\ PowerOffCuts

\* A board in deep sleep wakes up: "The device will wake up after the specified
\* number of seconds" (inky.rs 219-221).
SleepEnds == call = "asleep" ~> power = "on"
=============================================================================
