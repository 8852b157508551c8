--------------------------------- MODULE SdCard ---------------------------------
(***************************************************************************)
(* The SD card driver of src/src/sd.rs and the card it talks to: the       *)
(* initialisation, the block calls, and the bus both share with the        *)
(* display.  One step is one command or one data packet and what the card  *)
(* answers; the checksums are on, as Card::new sets them.  The card is an  *)
(* environment: it answers late, oddly or not at all when MayFail is set.  *)
(***************************************************************************)
EXTENDS Integers, Sequences

CONSTANTS
  Kinds,       \* the cards that may be in the slot
  NBlocks,     \* blocks of the card
  BlockBytes,  \* bytes of a block, the factor of a byte address
  Values,      \* contents of a block
  Attempts,    \* Counter::ATTEMPTS
  ResetTries,  \* silent resets before the driver gives up
  OddTries,    \* odd answers to a reset before the driver accepts one
  MaxBlocks,   \* bound: blocks of one call
  MaxCalls,    \* bound: calls
  MayFail      \* TRUE: the card may fail

ASSUME KindsAssumption == Kinds \subseteq {"sd1", "sd2", "sdhc"}
ASSUME CountAssumption ==
  /\ {NBlocks, ResetTries, OddTries, MaxCalls} \subseteq Nat
  /\ {Attempts, MaxBlocks} \subseteq Nat \ {0}
  /\ BlockBytes \in Nat \ {0, 1} /\ MayFail \in BOOLEAN
ASSUME ValuesAssumption == Values # {}

VARIABLES
  ver,       \* Card.ver
  selected,  \* the devices whose select line is low
  pc,        \* "idle" or the place in the running call
  job,       \* the running or the last call; clean: no transfer was open before
  left,      \* Counter.c of the running loop
  again,     \* _init: silent resets left
  odd,       \* _init: odd answers left
  moved,     \* the blocks read or sent so far
  res,       \* how the last call returned
  calls,     \* number of calls so far
  card,      \* the card: its kind, whether it is initialised, the open transfer
  mem        \* its contents

driver == <<ver, left, again, odd>>
vars == <<driver, selected, pc, job, moved, res, calls, card, mem>>

Blocks == 0..(NBlocks - 1)

\* What a call that writes nothing holds.
Blank == CHOOSE v \in Values : TRUE

-----------------------------------------------------------------------------
(* The card.                                                               *)

\* Mutants of ArgOf: one unit for every card.
AlwaysBytes(s) == s * BlockBytes
AlwaysBlocks(s) == s

\* Card::index, and the block the card takes the argument for.
ArgOf(s)  == IF ver = "SDHC" THEN s ELSE s * BlockBytes
BlockAt(a) == IF card.kind = "sdhc" THEN a ELSE a \div BlockBytes
Target == BlockAt(ArgOf(job.at))

Ready == card.phase = "ready" /\ card.xfer = "none"

\* A data command opens a transfer, unless the card refuses it: it is not ready,
\* the address is out of range, or it is still in the middle of another transfer.
OpenTransfer(x) ==
  card' = IF Ready /\ Target \in Blocks THEN [card EXCEPT !.xfer = x, !.ptr = Target] ELSE card

Sending == card.xfer \in {"one", "many"} /\ card.ptr \in Blocks
Listening(x) == card.xfer = x /\ card.ptr \in Blocks

\* A transfer of one block is over after it, one of many goes on.
NextBlock ==
  [card EXCEPT !.ptr = @ + 1,
               !.xfer = IF @ \in {"many", "wmany"} THEN @ ELSE "none"]

-----------------------------------------------------------------------------
Init ==
  /\ ver = "none" /\ selected = {} /\ pc = "idle"
  /\ job = [op |-> "none", at |-> 0, n |-> 0, val |-> Blank, clean |-> TRUE]
  /\ left = 0 /\ again = 0 /\ odd = 0
  /\ moved = <<>> /\ res = "none" /\ calls = 0
  /\ \E k \in Kinds : card = [kind |-> k, phase |-> "off", xfer |-> "none", ptr |-> 0]
  /\ mem \in [Blocks -> Values]

\* info, read_block(s) and write_block(s): the card is selected, and initialised
\* by the first call.
Call(op, s, n, v) ==
  /\ pc = "idle" /\ calls < MaxCalls
  /\ s + n <= NBlocks
  /\ calls' = calls + 1
  /\ job' = [op |-> op, at |-> s, n |-> n, val |-> v, clean |-> card.xfer = "none"]
  /\ selected' = selected \union {"card"}
  /\ moved' = <<>>
  /\ IF ver = "none"
       THEN pc' = "reset" /\ left' = Attempts /\ again' = ResetTries /\ odd' = OddTries
       ELSE pc' = "command" /\ UNCHANGED <<left, again, odd>>
  /\ UNCHANGED <<ver, res, card, mem>>

Goto(l) == pc' = l /\ UNCHANGED <<selected, res>>
Return(r) == pc' = "idle" /\ res' = r /\ selected' = selected \ {"card"}

Keep == UNCHANGED <<job, calls>>

(* _init *)

\* Counter::wait, at the end of a turn of a loop that starts at "left".
Wait(here) ==
  IF left = 0 THEN Return("err") /\ UNCHANGED left
  ELSE Goto(here) /\ left' = left - 1

\* The next loop starts with a full counter.
Proceed(l) == Goto(l) /\ left' = Attempts

\* CMD0 is answered with IDLE.
ResetIdle ==
  /\ pc = "reset"
  /\ card' = [card EXCEPT !.phase = "idle", !.xfer = "none"]
  /\ Proceed("crc")
  /\ Keep /\ UNCHANGED <<ver, again, odd, moved, mem>>

\* Mutant: the counter is reset without a limit.
ResetSilentForever ==
  /\ MayFail /\ pc = "reset"
  /\ \E p \in {card.phase, "idle"} : card' = [card EXCEPT !.phase = p]
  /\ Goto("reset") /\ left' = Attempts - 1
  /\ Keep /\ UNCHANGED <<ver, again, odd, moved, mem>>

\* No answer: the counter is reset, a limited number of times.
ResetSilent ==
  /\ MayFail /\ pc = "reset"
  /\ \E p \in {card.phase, "idle"} : card' = [card EXCEPT !.phase = p]
  /\ IF again = 0
       THEN Return("err") /\ UNCHANGED <<left, again>>
       ELSE Goto("reset") /\ again' = again - 1 /\ left' = Attempts - 1
  /\ Keep /\ UNCHANGED <<ver, odd, moved, mem>>

\* READY or UNKNOWN, which some cards answer for ever: accepted in the end.
ResetOdd ==
  /\ MayFail /\ pc = "reset"
  /\ card' = [card EXCEPT !.phase = "idle", !.xfer = "none"]
  /\ IF odd = 0
       THEN Proceed("crc") /\ UNCHANGED odd
       ELSE odd' = odd - 1 /\ Wait("reset")
  /\ Keep /\ UNCHANGED <<ver, again, moved, mem>>

\* Any other answer.
ResetOther ==
  /\ MayFail /\ pc = "reset"
  /\ Wait("reset")
  /\ Keep /\ UNCHANGED <<ver, again, odd, moved, card, mem>>

\* CMD59 turns the checksums on; anything but IDLE is an error.
CrcOn ==
  /\ pc = "crc"
  /\ Goto("version") \/ (MayFail /\ Return("err"))
  /\ Keep /\ UNCHANGED <<driver, moved, card, mem>>

\* CMD8: an old card rejects it, a new one echoes the pattern.
Version ==
  /\ pc = "version"
  /\ ver' = IF card.kind = "sd1" THEN "SD1" ELSE "SD2"
  /\ Proceed("start")
  /\ Keep /\ UNCHANGED <<again, odd, moved, card, mem>>

VersionFails ==
  /\ MayFail /\ pc = "version"
  /\ Wait("version") \/ (Return("err") /\ UNCHANGED left)
  /\ Keep /\ UNCHANGED <<ver, again, odd, moved, card, mem>>

\* ACMD41: the card is initialised; a new one is asked for its capacity class.
Start ==
  /\ pc = "start"
  /\ card' = [card EXCEPT !.phase = "ready"]
  /\ Goto(IF ver = "SD2" THEN "ocr" ELSE "command")
  /\ Keep /\ UNCHANGED <<driver, moved, mem>>

\* Still idle, or no answer, of which the card may know nothing.
StartFails ==
  /\ MayFail /\ pc = "start"
  /\ \/ Wait("start") /\ UNCHANGED card
     \/ /\ \E p \in {card.phase, "ready"} : card' = [card EXCEPT !.phase = p]
        /\ Return("err") /\ UNCHANGED left
  /\ Keep /\ UNCHANGED <<ver, again, odd, moved, mem>>

\* CMD58: the CCS bit says that addresses are block numbers.
Ocr ==
  /\ pc = "ocr"
  /\ \/ ver' = (IF card.kind = "sdhc" THEN "SDHC" ELSE ver) /\ Goto("command")
     \/ MayFail /\ Return("err") /\ UNCHANGED ver
  /\ Keep /\ UNCHANGED <<left, again, odd, moved, card, mem>>

(* info *)

\* CMD9, whose answer has to be READY.
InfoCommand ==
  /\ pc = "command" /\ job.op = "info"
  /\ \/ (Ready \/ card.xfer # "none") /\ Goto("csd")
     \/ (~Ready \/ MayFail) /\ Return("err")
  /\ Keep /\ UNCHANGED <<driver, moved, card, mem>>

\* The register follows as a data packet; when it does not, info returns at once,
\* with the card still selected.
Csd ==
  /\ pc = "csd"
  /\ \/ Ready /\ Return("ok")
     \/ /\ ~Ready \/ MayFail
        /\ pc' = "idle" /\ res' = "err" /\ UNCHANGED selected
  /\ Keep /\ UNCHANGED <<driver, moved, card, mem>>

(* _read_block, _read_blocks *)

\* CMD17 or CMD18: whatever the card answers, a data packet is expected.
ReadCommand ==
  /\ pc = "command" /\ job.op = "read"
  /\ \/ OpenTransfer(IF job.n > 1 THEN "many" ELSE "one") /\ Goto("data")
     \/ /\ MayFail
        /\ OpenTransfer(IF job.n > 1 THEN "many" ELSE "one") \/ UNCHANGED card
        /\ Return("err")
  /\ Keep /\ UNCHANGED <<driver, moved, mem>>

\* A data packet whose checksum is right.
Data ==
  /\ pc = "data" /\ Sending
  /\ moved' = Append(moved, mem[card.ptr])
  /\ card' = NextBlock
  /\ IF Len(moved') < job.n THEN Goto("data")
     ELSE IF job.n > 1 THEN Goto("stop") ELSE Return("ok")
  /\ Keep /\ UNCHANGED <<driver, mem>>

\* No packet, an error token or a wrong checksum: the call returns, without the
\* CMD12 that ends a transfer of many blocks.
DataFails ==
  /\ pc = "data" /\ (~Sending \/ MayFail)
  /\ card' \in {card, IF Sending THEN NextBlock ELSE card}
  /\ card'.xfer # "one"
  /\ Return("err")
  /\ Keep /\ UNCHANGED <<driver, moved, mem>>

\* A mutant of Stop: CMD12 is not sent.
StopUnsent == pc = "stop" /\ Return("ok") /\ Keep /\ UNCHANGED <<driver, moved, card, mem>>

\* CMD12.
Stop ==
  /\ pc = "stop"
  /\ \/ card' = [card EXCEPT !.xfer = "none"] /\ Return("ok")
     \/ /\ MayFail /\ Return("err")
        /\ card' \in {card, [card EXCEPT !.xfer = "none"]}
  /\ Keep /\ UNCHANGED <<driver, moved, mem>>

(* _write_block, _write_blocks *)

\* CMD24, or ACMD23 and CMD25.
WriteCommand ==
  /\ pc = "command" /\ job.op = "write"
  /\ \/ OpenTransfer(IF job.n > 1 THEN "wmany" ELSE "wone") /\ Goto("packet")
     \/ /\ MayFail
        /\ OpenTransfer(IF job.n > 1 THEN "wmany" ELSE "wone") \/ UNCHANGED card
        /\ Return("err")
  /\ Keep /\ UNCHANGED <<driver, moved, mem>>

Kind == IF job.n > 1 THEN "wmany" ELSE "wone"
Programmed == [mem EXCEPT ![card.ptr] = job.val]

\* A packet the card accepts.  One block: it is programmed, or the status that is
\* asked for afterwards says that it was not.  Many blocks: nobody asks.
Packet ==
  /\ pc = "packet" /\ Listening(Kind)
  /\ moved' = Append(moved, job.val)
  /\ \/ mem' = Programmed /\ card' = NextBlock
     \/ /\ MayFail /\ mem' = mem
        /\ card' = IF job.n > 1 THEN NextBlock ELSE [NextBlock EXCEPT !.xfer = "failed"]
  /\ Goto(IF job.n = 1 THEN "status" ELSE IF Len(moved') < job.n THEN "packet" ELSE "finish")
  /\ Keep /\ UNCHANGED driver

\* A packet the card does not accept, or a card that stays busy after it.
PacketFails ==
  /\ pc = "packet"
  /\ \/ ~Listening(Kind) /\ UNCHANGED <<card, mem>>
     \/ /\ MayFail /\ Listening(Kind)
        /\ mem' \in {mem, Programmed}
        /\ card' = NextBlock
  /\ Return("err")
  /\ Keep /\ UNCHANGED <<driver, moved>>

\* CMD13.
Status ==
  /\ pc = "status"
  /\ card' = [card EXCEPT !.xfer = "none"]
  /\ \/ card.xfer # "failed" /\ Return("ok")
     \/ (card.xfer = "failed" \/ MayFail) /\ Return("err")
  /\ Keep /\ UNCHANGED <<driver, moved, mem>>

\* The stop token, unless the card stays busy.
FinishWrite ==
  /\ pc = "finish"
  /\ \/ card' = [card EXCEPT !.xfer = "none"] /\ Return("ok")
     \/ MayFail /\ UNCHANGED card /\ Return("err")
  /\ Keep /\ UNCHANGED <<driver, moved, mem>>

(* The display, on the same bus. *)

\* Display::cmd between two calls of the card.
DisplaySelect ==
  /\ pc = "idle" /\ "display" \notin selected
  /\ selected' = selected \union {"display"} /\ pc' = "display"
  /\ UNCHANGED <<driver, job, moved, res, calls, card, mem>>

DisplayDone ==
  /\ pc = "display"
  /\ selected' = selected \ {"display"} /\ pc' = "idle"
  /\ UNCHANGED <<driver, job, moved, res, calls, card, mem>>

-----------------------------------------------------------------------------
Initialise == ResetIdle \/ ResetSilent \/ ResetOdd \/ ResetOther \/ CrcOn
              \/ Version \/ VersionFails \/ Start \/ StartFails \/ Ocr
Transfer == InfoCommand \/ Csd \/ ReadCommand \/ Data \/ DataFails \/ Stop
            \/ WriteCommand \/ Packet \/ PacketFails \/ Status \/ FinishWrite

Next ==
  \/ \E s \in Blocks, n \in 1..MaxBlocks :
       Call("read", s, n, Blank) \/ \E v \in Values : Call("write", s, n, v)
  \/ Call("info", 0, 1, Blank)
  \/ Initialise
  \/ Transfer
  \/ DisplaySelect \/ DisplayDone

Spec == Init /\ [][Next]_vars

\* A call that started goes on.
FairSpec == Spec /\ WF_vars(Initialise \/ Transfer \/ DisplayDone)

-----------------------------------------------------------------------------
(* Properties.                                                             *)

Places == {"idle", "reset", "crc", "version", "start", "ocr", "command", "csd", "data", "stop",
           "packet", "status", "finish", "display"}

\* Every variable has its type.
TypeOK ==
  /\ ver \in {"none", "SD1", "SD2", "SDHC"}
  /\ selected \subseteq {"card", "display"}
  /\ pc \in Places
  /\ job \in [op : {"none", "info", "read", "write"}, at : Nat, n : 0..MaxBlocks, val : Values, clean : BOOLEAN]
  /\ left \in 0..Attempts /\ again \in 0..ResetTries /\ odd \in 0..OddTries
  /\ moved \in Seq(Values) /\ Len(moved) <= job.n
  /\ res \in {"none", "ok", "err"}
  /\ calls \in 0..MaxCalls
  /\ card \in [kind : Kinds, phase : {"off", "idle", "ready"},
               xfer : {"none", "one", "many", "wone", "wmany", "failed"}, ptr : Nat]
  /\ mem \in [Blocks -> Values]

\* The driver knows how the card counts.  It does not after an initialisation
\* that failed when the version was known and the capacity class was not: the
\* version stays, and no later call initialises the card again.
RightUnit == card.kind = "sdhc" => ver # "SD2"

Answered == pc = "idle" /\ res = "ok" /\ job.clean /\ RightUnit

\* A call that succeeds did what it was asked, if the driver knows how the card
\* counts and no transfer of an earlier call was left open: a read returns the
\* blocks it names (sd.rs 367 checks the data, nothing checks where it comes from),
\* and a write of one block, whose status is asked for, is on the card.
Answers ==
  Answered =>
    /\ job.op = "read" => moved = [i \in 1..job.n |-> mem[job.at + i - 1]]
    /\ job.op = "write" /\ job.n = 1 => mem[job.at] = job.val

\* No call, failed or not, changes another block than those it was given.
OnlyAsked ==
  [][job.clean /\ RightUnit =>
       \A b \in Blocks : mem'[b] # mem[b] => b \in job.at..(job.at + job.n - 1)]_vars

\* Between calls the card is off the bus, unless reading its register failed.
BusFreed == pc = "idle" /\ "card" \in selected => job.op = "info" /\ res = "err"

\* Only a call of many blocks that failed leaves a transfer open.
TransfersEnd ==
  pc = "idle" /\ job.clean /\ card.xfer \in {"many", "wmany"} => job.n > 1 /\ res = "err"

\* The driver's state is well-typed, its counters stay in their ranges, and a call
\* that returns has given the bus back and ended its transfer (sd.rs 213-272, 421-451).
Consistent == TypeOK /\ BusFreed /\ TransfersEnd

\* Every call returns, whatever the card answers.
CallsEnd == []<>(pc = "idle")
=============================================================================
