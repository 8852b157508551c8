----------------------------- MODULE SdCard_proofs -----------------------------
(***************************************************************************)
(* What a call of the SD card driver promises, for every set of cards, any *)
(* number of blocks and of bytes in one, every limit of the loops and any  *)
(* number of calls, whatever the card answers.                             *)
(***************************************************************************)
EXTENDS SdCard, TLAPS

USE KindsAssumption, CountAssumption, ValuesAssumption

Between == {"idle", "display"}
Initialising == {"reset", "crc", "version", "start", "ocr"}
Before == Initialising \union {"command"}
After == Places \ (Between \union Before)

\* The driver's version is the card's, and it is known before the first block.
VerInv ==
  /\ ver = "SD1" => card.kind = "sd1"
  /\ ver = "SDHC" => card.kind = "sdhc"
  /\ pc \in {"reset", "crc", "version"} => ver = "none"
  /\ pc \in {"start", "ocr", "command"} \union After => ver # "none"
  /\ pc = "ocr" => ver = "SD2"

\* Where a call is says which call it is and how far it got.
JobInv ==
  /\ pc \notin Between => job.op # "none" /\ job.n > 0
  /\ job.op = "info" => job.n = 1
  /\ pc = "csd" => job.op = "info"
  /\ pc \in {"data", "stop"} => job.op = "read"
  /\ pc \in {"packet", "status", "finish"} => job.op = "write"
  /\ pc \in Before => moved = <<>>
  /\ pc \in {"data", "packet"} => Len(moved) < job.n
  /\ pc \in {"stop", "finish"} => job.n > 1
  /\ pc = "stop" => Len(moved) = job.n
  /\ pc = "status" => job.n = 1

ReadKind == IF job.n > 1 THEN "many" ELSE "one"

\* A call that found no transfer open has none but its own.
XferInv ==
  job.clean =>
    /\ pc \in Before \union {"csd"} => card.xfer = "none"
    /\ pc = "data" => card.xfer \in {"none", ReadKind}
    /\ pc = "packet" => card.xfer \in {"none", Kind}
    /\ pc = "status" => card.xfer \in {"none", "failed"}

\* The card is where the call is, and what was moved so far is right.
PlaceInv ==
  job.clean /\ RightUnit =>
    /\ pc \in {"data", "packet"} /\ card.xfer # "none" => card.ptr = job.at + Len(moved)
    /\ pc \in {"data", "stop"} => \A i \in 1..Len(moved) : moved[i] = mem[job.at + i - 1]
    /\ pc = "status" => card.xfer = "failed" \/ mem[job.at] = job.val

\* What a call that returned promises, also while the display is at work.
ReturnInv ==
  pc \in Between =>
    /\ "card" \in selected => job.op = "info" /\ res = "err"
    /\ job.clean /\ card.xfer \in {"many", "wmany"} => job.n > 1 /\ res = "err"
    /\ res = "ok" /\ job.clean /\ RightUnit =>
         /\ job.op = "read" => moved = [i \in 1..job.n |-> mem[job.at + i - 1]]
         /\ job.op = "write" /\ job.n = 1 => mem[job.at] = job.val

Inv == TypeOK /\ VerInv /\ JobInv /\ XferInv /\ PlaceInv /\ ReturnInv

Phases == {"off", "idle", "ready"}
Xfers == {"none", "one", "many", "wone", "wmany", "failed"}
Cards == [kind : Kinds, phase : Phases, xfer : Xfers, ptr : Nat]

-----------------------------------------------------------------------------
(* Operators.                                                              *)

\* A call that writes nothing holds a value.
LEMMA BlankType == Blank \in Values
BY DEF Blank

\* The byte address of a block leads back to the block.
LEMMA AddressOfBlock == ASSUME NEW s \in Nat PROVE (s * BlockBytes) \div BlockBytes = s
<1> DEFINE a == s * BlockBytes
           q == a \div BlockBytes
<1>1. BlockBytes \in Nat /\ BlockBytes > 0 /\ a \in Nat
  OBVIOUS
<1>2. q \in Nat /\ a % BlockBytes \in 0..(BlockBytes - 1) /\ a = BlockBytes * q + (a % BlockBytes)
  BY <1>1
<1>3. a = BlockBytes * s
  BY <1>1
<1> HIDE DEF a, q
<1>4. ASSUME q < s PROVE FALSE
  <2>1. BlockBytes * (q + 1) <= BlockBytes * s
    BY <1>1, <1>2, <1>4
  <2>2. BlockBytes * (q + 1) = BlockBytes * q + BlockBytes
    BY <1>1, <1>2
  <2> QED
    BY <1>1, <1>2, <1>3, <2>1, <2>2
<1>5. ASSUME s < q PROVE FALSE
  <2>1. BlockBytes * (s + 1) <= BlockBytes * q
    BY <1>1, <1>2, <1>5
  <2>2. BlockBytes * (s + 1) = BlockBytes * s + BlockBytes
    BY <1>1
  <2> QED
    BY <1>1, <1>2, <1>3, <2>1, <2>2
<1> QED
  BY <1>2, <1>4, <1>5 DEF a, q

\* A driver that knows how the card counts is understood.
LEMMA Understood ==
  ASSUME TypeOK, VerInv, RightUnit, ver # "none" PROVE Target = job.at
<1>1. job.at \in Nat /\ card.kind \in {"sd1", "sd2", "sdhc"}
  BY DEF TypeOK
<1>2. (job.at * BlockBytes) \div BlockBytes = job.at
  BY <1>1, AddressOfBlock
<1>3. card.kind = "sdhc" <=> ver = "SDHC"
  BY DEF TypeOK, VerInv, RightUnit
<1> QED
  BY <1>1, <1>2, <1>3 DEF Target, BlockAt, ArgOf

\* A card that changes stays a card of its kind.
LEMMA WithXfer ==
  ASSUME NEW c \in Cards, NEW x \in Xfers, NEW d, d = [c EXCEPT !.xfer = x]
  PROVE  d \in Cards /\ d.kind = c.kind /\ d.xfer = x /\ d.ptr = c.ptr
BY DEF Cards

\* A card in another phase is still a card.
LEMMA WithPhase ==
  ASSUME NEW c \in Cards, NEW h \in Phases, NEW d, d = [c EXCEPT !.phase = h]
  PROVE  d \in Cards /\ d.kind = c.kind /\ d.xfer = c.xfer
BY DEF Cards

\* A typed card is a card.
LEMMA CardType == ASSUME TypeOK PROVE card \in Cards
BY DEF TypeOK, Cards, Phases, Xfers

\* What the card does with a data command and with a packet.
LEMMA OpenType ==
  ASSUME TypeOK, NEW x \in {"one", "many", "wone", "wmany"}, OpenTransfer(x)
  PROVE  /\ card' \in Cards /\ card'.kind = card.kind
         /\ card' = card \/ (Ready /\ card'.xfer = x /\ card'.ptr = Target)
<1>1. card \in Cards /\ x \in Xfers
  BY CardType DEF Xfers
<1>2. CASE Ready /\ Target \in Blocks
  <2>1. Target \in Nat
    BY <1>2 DEF Blocks
  <2>2. card' = [card EXCEPT !.xfer = x, !.ptr = Target]
    BY <1>2 DEF OpenTransfer
  <2> QED
    BY <1>1, <1>2, <2>1, <2>2 DEF Cards
<1>3. CASE ~(Ready /\ Target \in Blocks)
  BY <1>1, <1>3 DEF OpenTransfer
<1> QED
  BY <1>2, <1>3

\* The card after a block.
LEMMA NextBlockType ==
  ASSUME TypeOK
  PROVE  /\ NextBlock \in Cards /\ NextBlock.kind = card.kind /\ NextBlock.ptr = card.ptr + 1
         /\ NextBlock.xfer = IF card.xfer \in {"many", "wmany"} THEN card.xfer ELSE "none"
<1> DEFINE x == IF card.xfer \in {"many", "wmany"} THEN card.xfer ELSE "none"
           p == card.ptr + 1
<1>1. card \in Cards /\ x \in Xfers /\ p \in Nat
  BY CardType DEF Cards, Xfers
<1>2. NextBlock = [card EXCEPT !.ptr = p, !.xfer = x]
  BY DEF NextBlock
<1> HIDE DEF x, p
<1>3. NextBlock \in Cards /\ NextBlock.kind = card.kind /\ NextBlock.ptr = p /\ NextBlock.xfer = x
  BY <1>1, <1>2 DEF Cards
<1> QED
  BY <1>3 DEF x, p

-----------------------------------------------------------------------------
(* The invariant.                                                          *)

\* Before the first command nothing is known of the card.
LEMMA InitInv == Init => Inv
<1> SUFFICES ASSUME Init PROVE Inv
  OBVIOUS
<1>1. TypeOK
  BY BlankType DEF Init, TypeOK, Places
<1> QED
  BY <1>1 DEF Init, Inv, VerInv, JobInv, XferInv, PlaceInv, ReturnInv, Before, Initialising, Between, After

\* What a step of the initialisation does: it goes on with the card's version in
\* mind and no transfer open, or gives up.
LEMMA InitialiseShape ==
  ASSUME TypeOK, VerInv, Initialise
  PROVE  /\ pc \in Initialising
         /\ UNCHANGED <<job, calls, moved, mem>>
         /\ left' \in 0..Attempts /\ again' \in 0..ResetTries /\ odd' \in 0..OddTries
         /\ ver' \in {"none", "SD1", "SD2", "SDHC"}
         /\ card' \in Cards /\ card'.kind = card.kind /\ card'.xfer \in {card.xfer, "none"}
         /\ \/ pc' \in Before /\ UNCHANGED <<selected, res>>
            \/ pc' = "idle" /\ res' = "err" /\ selected' = selected \ {"card"}
         /\ VerInv'
<1>c. card \in Cards /\ "none" \in Xfers /\ "idle" \in Phases /\ Phases = {"off", "idle", "ready"}
  BY CardType DEF Phases, Xfers
<1>x. ASSUME NEW d, d = [card EXCEPT !.phase = "idle", !.xfer = "none"]
      PROVE  d \in Cards /\ d.kind = card.kind /\ d.xfer = "none"
  BY <1>c, <1>x DEF Cards
<1>p. ASSUME NEW h \in Phases, NEW d, d = [card EXCEPT !.phase = h]
      PROVE  d \in Cards /\ d.kind = card.kind /\ d.xfer = card.xfer
  BY <1>c, <1>p, WithPhase
<1>q. card.phase \in Phases /\ card.kind \in {"sd1", "sd2", "sdhc"}
  BY <1>c DEF Cards
<1> USE DEF TypeOK, VerInv, Before, Initialising, Between, After, Places, Keep,
            Goto, Return, Wait, Proceed, driver
<1>1. CASE ResetIdle
  BY <1>1, <1>c, <1>x, <1>q DEF ResetIdle
<1>2. CASE ResetSilent
  <2>1. PICK h \in {card.phase, "idle"} : card' = [card EXCEPT !.phase = h]
    BY <1>2 DEF ResetSilent
  <2>2. card' \in Cards /\ card'.kind = card.kind /\ card'.xfer = card.xfer
    BY <1>c, <1>p, <1>q, <2>1
  <2>3. pc = "reset" /\ UNCHANGED <<job, calls, ver, odd, moved, mem>>
    BY <1>2 DEF ResetSilent
  <2>4. CASE again = 0
    BY <1>2, <1>c, <1>q, <2>2, <2>3, <2>4 DEF ResetSilent
  <2>5. CASE again # 0
    BY <1>2, <1>c, <1>q, <2>2, <2>3, <2>5 DEF ResetSilent
  <2> QED
    BY <2>4, <2>5
<1>3. CASE ResetOdd
  BY <1>3, <1>c, <1>x, <1>q DEF ResetOdd
<1>4. CASE ResetOther
  BY <1>4, <1>c, <1>p, <1>q DEF ResetOther
<1>5. CASE CrcOn
  BY <1>5, <1>c, <1>q DEF CrcOn
<1>6. CASE Version
  BY <1>6, <1>c, <1>q DEF Version
<1>7. CASE VersionFails
  BY <1>7, <1>c, <1>q DEF VersionFails
<1>8. CASE Start
  BY <1>8, <1>c, <1>p, <1>q DEF Start
<1>9. CASE StartFails
  BY <1>9, <1>c, <1>p, <1>q DEF StartFails
<1>10. CASE Ocr
  BY <1>10, <1>c, <1>q DEF Ocr
<1> QED
  BY <1>1, <1>2, <1>3, <1>4, <1>5, <1>6, <1>7, <1>8, <1>9, <1>10 DEF Initialise

\* A transfer that a running call left open so far is its own.
LEMMA OwnTransfer ==
  ASSUME Inv, pc \notin Between, job.clean, card.xfer \in {"many", "wmany"} PROVE job.n > 1
BY DEF Inv, TypeOK, JobInv, XferInv, ReadKind, Kind, Between, Before, Initialising, Places

\* A call that fails keeps the invariant, whatever it changed on the card.
LEMMA GivesUp ==
  ASSUME Inv, pc \notin Between, UNCHANGED <<job, calls, moved>>, VerInv',
         ver' \in {"none", "SD1", "SD2", "SDHC"},
         left' \in 0..Attempts, again' \in 0..ResetTries, odd' \in 0..OddTries,
         pc' = "idle", res' = "err",
         selected' = selected \ {"card"} \/ (selected' = selected /\ job.op = "info"),
         card' \in Cards, card'.xfer \in {"many", "wmany"} /\ job.clean => job.n > 1,
         mem' \in [Blocks -> Values]
  PROVE  Inv'
<1>1. TypeOK'
  BY DEF Inv, TypeOK, Cards, Phases, Xfers, Places
<1>2. JobInv' /\ XferInv' /\ PlaceInv'
  BY DEF Inv, JobInv, XferInv, PlaceInv, Between, Before, Initialising
<1>3. ReturnInv'
  BY DEF Inv, ReturnInv, TypeOK
<1> QED
  BY <1>1, <1>2, <1>3 DEF Inv

\* A call that succeeds keeps it when what it promises holds.
LEMMA Succeeds ==
  ASSUME Inv, pc \notin Between, UNCHANGED <<job, calls, driver>>, pc' = "idle", res' = "ok",
         selected' = selected \ {"card"},
         card' \in Cards, card'.kind = card.kind, job.clean => card'.xfer \notin {"many", "wmany"},
         mem' \in [Blocks -> Values], moved' \in Seq(Values), Len(moved') <= job.n,
         job.clean /\ RightUnit =>
           /\ job.op = "read" => moved' = [i \in 1..job.n |-> mem'[job.at + i - 1]]
           /\ job.op = "write" /\ job.n = 1 => mem'[job.at] = job.val
  PROVE  Inv'
<1>1. TypeOK'
  BY DEF Inv, TypeOK, Cards, Phases, Xfers, Places, driver
<1>2. VerInv' /\ JobInv' /\ XferInv' /\ PlaceInv'
  BY DEF Inv, VerInv, JobInv, XferInv, PlaceInv, Between, Before, Initialising, After, driver
<1>3. ReturnInv'
  BY DEF Inv, ReturnInv, TypeOK, RightUnit, driver
<1> QED
  BY <1>1, <1>2, <1>3 DEF Inv

\* A call that goes on within the card's answers.
LEMMA GoesOn ==
  ASSUME Inv, pc \notin Between \union Initialising, UNCHANGED <<job, calls, driver, selected, res>>,
         pc' \in After, card' \in Cards, card'.kind = card.kind,
         mem' \in [Blocks -> Values], moved' \in Seq(Values), Len(moved') <= job.n,
         JobInv', XferInv', PlaceInv'
  PROVE  Inv'
<1>1. TypeOK'
  BY DEF Inv, TypeOK, Cards, Phases, Xfers, Places, driver, After
<1>2. VerInv' /\ ReturnInv'
  BY DEF Inv, TypeOK, VerInv, ReturnInv, Between, Before, Initialising, After, driver, Places
<1> QED
  BY <1>1, <1>2 DEF Inv

\* A new call.
LEMMA CallKeeps ==
  ASSUME Inv, NEW o \in {"info", "read", "write"}, NEW s \in Nat, NEW n \in 1..MaxBlocks,
         NEW v \in Values, o = "info" => n = 1, Call(o, s, n, v)
  PROVE  Inv'
<1> USE DEF Between, Before, Initialising, After, Places
<1>1. TypeOK'
  BY DEF Call, Inv, TypeOK
<1>2. VerInv' /\ JobInv' /\ ReturnInv'
  BY DEF Call, Inv, TypeOK, VerInv, JobInv, ReturnInv
<1>3. XferInv' /\ PlaceInv'
  BY DEF Call, Inv, TypeOK, XferInv, PlaceInv
<1> QED
  BY <1>1, <1>2, <1>3 DEF Inv

\* A step of the initialisation.
LEMMA InitialiseKeeps == ASSUME Inv, Initialise PROVE Inv'
<1> USE DEF Between, Before, Initialising, After
<1>1. /\ pc \in Initialising
      /\ UNCHANGED <<job, calls, moved, mem>>
      /\ left' \in 0..Attempts /\ again' \in 0..ResetTries /\ odd' \in 0..OddTries
      /\ ver' \in {"none", "SD1", "SD2", "SDHC"}
      /\ card' \in Cards /\ card'.kind = card.kind /\ card'.xfer \in {card.xfer, "none"}
      /\ \/ pc' \in Before /\ UNCHANGED <<selected, res>>
         \/ pc' = "idle" /\ res' = "err" /\ selected' = selected \ {"card"}
      /\ VerInv'
  BY InitialiseShape DEF Inv
<1>2. CASE pc' = "idle" /\ res' = "err" /\ selected' = selected \ {"card"}
  <2>1. card'.xfer \in {"many", "wmany"} /\ job.clean => job.n > 1
    BY <1>1, OwnTransfer
  <2>2. mem' \in [Blocks -> Values]
    BY <1>1 DEF Inv, TypeOK
  <2> QED
    BY <1>1, <1>2, <2>1, <2>2, GivesUp
<1>3. CASE pc' \in Before /\ UNCHANGED <<selected, res>>
  <2>1. TypeOK'
    BY <1>1, <1>3 DEF Inv, TypeOK, Cards, Phases, Xfers, Places
  <2>2. JobInv' /\ ReturnInv'
    BY <1>1, <1>3 DEF Inv, JobInv, ReturnInv
  <2>3. XferInv' /\ PlaceInv'
    BY <1>1, <1>3 DEF Inv, XferInv, PlaceInv
  <2> QED
    BY <1>1, <2>1, <2>2, <2>3 DEF Inv
<1> QED
  BY <1>1, <1>2, <1>3

\* The register of the card.
LEMMA InfoKeeps == ASSUME Inv, InfoCommand \/ Csd PROVE Inv'
<1> USE DEF Between, Before, Initialising, After, Places
<1>1. /\ pc \in {"command", "csd"} /\ job.op = "info"
      /\ UNCHANGED <<job, calls, driver, moved, card, mem>>
  BY DEF InfoCommand, Csd, Keep, Inv, JobInv
<1>2. card \in Cards /\ mem \in [Blocks -> Values] /\ moved \in Seq(Values) /\ Len(moved) <= job.n
  BY CardType DEF Inv, TypeOK
<1>3. CASE pc' = "csd" /\ UNCHANGED <<selected, res>>
  <2>1. JobInv' /\ XferInv' /\ PlaceInv'
    BY <1>1, <1>3 DEF Inv, JobInv, XferInv, PlaceInv, InfoCommand, Csd
  <2> QED
    BY <1>1, <1>2, <1>3, <2>1, GoesOn
<1>4. CASE pc' = "idle" /\ res' = "err" /\ (selected' = selected \ {"card"} \/ UNCHANGED selected)
  <2>1. card'.xfer \in {"many", "wmany"} /\ job.clean => job.n > 1
    BY <1>1, OwnTransfer
  <2>2. VerInv'
    BY <1>1, <1>4 DEF Inv, VerInv, driver
  <2>3. /\ ver' \in {"none", "SD1", "SD2", "SDHC"}
        /\ left' \in 0..Attempts /\ again' \in 0..ResetTries /\ odd' \in 0..OddTries
    BY <1>1 DEF Inv, TypeOK, driver
  <2> QED
    BY <1>1, <1>2, <1>4, <2>1, <2>2, <2>3, GivesUp
<1>5. CASE pc' = "idle" /\ res' = "ok" /\ selected' = selected \ {"card"} /\ Ready
  BY <1>1, <1>2, <1>5, Succeeds DEF Ready
<1> QED
  BY <1>3, <1>4, <1>5 DEF InfoCommand, Csd, Goto, Return

\* What a step of a transfer that fails leaves alone.
LEMMA FailsTyped ==
  ASSUME Inv, pc \notin Between \union Initialising, UNCHANGED driver, pc' = "idle", card'.kind = card.kind
  PROVE  /\ VerInv'
         /\ ver' \in {"none", "SD1", "SD2", "SDHC"}
         /\ left' \in 0..Attempts /\ again' \in 0..ResetTries /\ odd' \in 0..OddTries
<1> USE DEF Between, Before, Initialising, After, Places
<1>1. VerInv'
  BY DEF Inv, VerInv, driver
<1> QED
  BY <1>1 DEF Inv, TypeOK, driver

\* A command that opens a transfer.
LEMMA OpensAtBlock ==
  ASSUME Inv, pc = "command", NEW x \in {"one", "many", "wone", "wmany"}, OpenTransfer(x)
  PROVE  /\ card' \in Cards /\ card'.kind = card.kind
         /\ job.clean => card'.xfer \in {"none", x}
         /\ job.clean /\ RightUnit /\ card'.xfer # "none" => card'.ptr = job.at
<1> USE DEF Between, Before, Initialising, After, Places
<1>1. /\ card' \in Cards /\ card'.kind = card.kind
      /\ card' = card \/ (card'.xfer = x /\ card'.ptr = Target)
  BY OpenType DEF Inv
<1>2. job.clean => card.xfer = "none"
  BY DEF Inv, XferInv
<1>3. RightUnit => Target = job.at
  BY Understood DEF Inv, VerInv
<1> QED
  BY <1>1, <1>2, <1>3

\* A command that reads begins a transfer of its kind.
LEMMA ReadCommandKeeps == ASSUME Inv, ReadCommand PROVE Inv'
<1> USE DEF Between, Before, Initialising, After, Places
<1>1. /\ pc = "command" /\ job.op = "read" /\ ReadKind \in {"one", "many"} /\ moved = <<>>
      /\ UNCHANGED <<job, calls, driver, moved, mem>>
  BY DEF ReadCommand, Keep, ReadKind, Inv, JobInv
<1>2. card \in Cards /\ mem \in [Blocks -> Values] /\ moved \in Seq(Values) /\ Len(moved) = 0
      /\ job.n \in Nat /\ job.n > 0 /\ job.at \in Nat
  BY <1>1, CardType DEF Inv, TypeOK, JobInv
<1>3. CASE OpenTransfer(ReadKind) /\ pc' = "data" /\ UNCHANGED <<selected, res>>
  <2>1. /\ card' \in Cards /\ card'.kind = card.kind
        /\ job.clean => card'.xfer \in {"none", ReadKind}
        /\ job.clean /\ RightUnit /\ card'.xfer # "none" => card'.ptr = job.at
    BY <1>1, <1>3, OpensAtBlock
  <2>2. JobInv' /\ XferInv'
    BY <1>1, <1>2, <1>3, <2>1 DEF Inv, JobInv, XferInv, ReadKind
  <2>3. PlaceInv'
    BY <1>1, <1>2, <1>3, <2>1 DEF PlaceInv, RightUnit, driver
  <2> QED
    BY <1>1, <1>2, <1>3, <2>1, <2>2, <2>3, GoesOn
<1>4. CASE /\ OpenTransfer(ReadKind) \/ UNCHANGED card
           /\ pc' = "idle" /\ res' = "err" /\ selected' = selected \ {"card"}
  <2>1. card' \in Cards /\ card'.kind = card.kind
    BY <1>1, <1>2, <1>4, OpensAtBlock
  <2>2. card'.xfer \in {"many", "wmany"} /\ job.clean => job.n > 1
    <3>1. CASE UNCHANGED card
      BY <1>1, <3>1, OwnTransfer
    <3>2. CASE OpenTransfer(ReadKind)
      BY <1>1, <3>2, OpensAtBlock DEF ReadKind
    <3> QED
      BY <1>4, <3>1, <3>2
  <2> QED
    BY <1>1, <1>2, <1>4, <2>1, <2>2, GivesUp, FailsTyped
<1> QED
  BY <1>3, <1>4 DEF ReadCommand, Goto, Return, ReadKind

\* A command that writes begins a transfer of its kind.
LEMMA WriteCommandKeeps == ASSUME Inv, WriteCommand PROVE Inv'
<1> USE DEF Between, Before, Initialising, After, Places
<1>1. /\ pc = "command" /\ job.op = "write" /\ Kind \in {"wone", "wmany"} /\ moved = <<>>
      /\ UNCHANGED <<job, calls, driver, moved, mem>>
  BY DEF WriteCommand, Keep, Kind, Inv, JobInv
<1>2. card \in Cards /\ mem \in [Blocks -> Values] /\ moved \in Seq(Values) /\ Len(moved) = 0
      /\ job.n \in Nat /\ job.n > 0 /\ job.at \in Nat
  BY <1>1, CardType DEF Inv, TypeOK, JobInv
<1>3. CASE OpenTransfer(Kind) /\ pc' = "packet" /\ UNCHANGED <<selected, res>>
  <2>1. /\ card' \in Cards /\ card'.kind = card.kind
        /\ job.clean => card'.xfer \in {"none", Kind}
        /\ job.clean /\ RightUnit /\ card'.xfer # "none" => card'.ptr = job.at
    BY <1>1, <1>3, OpensAtBlock
  <2>2. JobInv' /\ XferInv'
    BY <1>1, <1>2, <1>3, <2>1 DEF Inv, JobInv, XferInv, Kind
  <2>3. PlaceInv'
    BY <1>1, <1>2, <1>3, <2>1 DEF PlaceInv, RightUnit, driver
  <2> QED
    BY <1>1, <1>2, <1>3, <2>1, <2>2, <2>3, GoesOn
<1>4. CASE /\ OpenTransfer(Kind) \/ UNCHANGED card
           /\ pc' = "idle" /\ res' = "err" /\ selected' = selected \ {"card"}
  <2>1. card' \in Cards /\ card'.kind = card.kind
    BY <1>1, <1>2, <1>4, OpensAtBlock
  <2>2. card'.xfer \in {"many", "wmany"} /\ job.clean => job.n > 1
    <3>1. CASE UNCHANGED card
      BY <1>1, <3>1, OwnTransfer
    <3>2. CASE OpenTransfer(Kind)
      BY <1>1, <3>2, OpensAtBlock DEF Kind
    <3> QED
      BY <1>4, <3>1, <3>2
  <2> QED
    BY <1>1, <1>2, <1>4, <2>1, <2>2, GivesUp, FailsTyped
<1> QED
  BY <1>3, <1>4 DEF WriteCommand, Goto, Return, Kind

\* A data packet.
LEMMA DataKeeps == ASSUME Inv, Data PROVE Inv'
<1> USE DEF Between, Before, Initialising, After, Places
<1> DEFINE v == mem[card.ptr]
<1>1. /\ pc = "data" /\ job.op = "read" /\ Sending
      /\ moved' = Append(moved, v) /\ card' = NextBlock
      /\ UNCHANGED <<job, calls, driver, mem>>
  BY DEF Data, Keep, Inv, JobInv
<1>2. /\ card \in Cards /\ mem \in [Blocks -> Values] /\ moved \in Seq(Values)
      /\ Len(moved) < job.n /\ job.n \in Nat /\ job.at \in Nat /\ v \in Values
  BY <1>1, CardType DEF Inv, TypeOK, JobInv, Sending
<1>3. /\ card' \in Cards /\ card'.kind = card.kind /\ card'.ptr = card.ptr + 1
      /\ card'.xfer = IF card.xfer \in {"many", "wmany"} THEN card.xfer ELSE "none"
  BY <1>1, NextBlockType DEF Inv
<1>4. /\ moved' \in Seq(Values) /\ Len(moved') = Len(moved) + 1 /\ Len(moved) \in Nat
      /\ moved'[Len(moved) + 1] = v /\ \A i \in 1..Len(moved) : moved'[i] = moved[i]
  BY <1>1, <1>2
<1>5. job.clean /\ RightUnit => \A i \in 1..Len(moved') : moved'[i] = mem'[job.at + i - 1]
  <2> SUFFICES ASSUME job.clean, RightUnit, NEW i \in 1..Len(moved')
               PROVE  moved'[i] = mem'[job.at + i - 1]
    OBVIOUS
  <2>1. CASE i \in 1..Len(moved)
    BY <1>1, <1>4, <2>1 DEF Inv, PlaceInv
  <2>2. CASE i = Len(moved) + 1
    <3>1. card.ptr = job.at + Len(moved)
      BY <1>1 DEF Inv, PlaceInv, Sending
    <3>2. job.at + i - 1 = card.ptr
      BY <1>2, <1>4, <2>2, <3>1
    <3> QED
      BY <1>1, <1>4, <2>2, <3>2
  <2> QED
    BY <1>4, <2>1, <2>2
<1>6. job.clean => card'.xfer \in {"none", ReadKind} /\ (job.n = 1 => card'.xfer = "none")
  BY <1>1, <1>2, <1>3 DEF Inv, XferInv, ReadKind
<1> HIDE DEF v
<1>7. CASE Len(moved') < job.n
  <2>1. pc' = "data" /\ UNCHANGED <<selected, res>>
    BY <1>7 DEF Data, Goto
  <2>2. JobInv' /\ XferInv'
    BY <1>1, <1>2, <1>4, <1>6, <1>7, <2>1 DEF Inv, JobInv, XferInv, ReadKind
  <2>3. PlaceInv'
    <3>1. job.clean /\ RightUnit /\ card'.xfer # "none" => card'.ptr = job.at + Len(moved')
      <4>1. job.clean /\ RightUnit => card.ptr = job.at + Len(moved)
        BY <1>1 DEF Inv, PlaceInv, Sending
      <4>2. card'.ptr = card.ptr + 1 /\ Len(moved') = Len(moved) + 1 /\ Len(moved) \in Nat /\ job.at \in Nat
        BY <1>2, <1>3, <1>4
      <4> QED
        BY <4>1, <4>2
    <3> QED
      BY <1>1, <1>3, <1>5, <2>1, <3>1 DEF PlaceInv, RightUnit, driver
  <2> QED
    BY <1>1, <1>2, <1>3, <1>4, <2>1, <2>2, <2>3, GoesOn
<1>8. CASE Len(moved') = job.n /\ job.n > 1
  <2>1. pc' = "stop" /\ UNCHANGED <<selected, res>>
    BY <1>2, <1>4, <1>8 DEF Data, Goto
  <2>2. JobInv' /\ XferInv'
    BY <1>1, <1>2, <1>4, <1>8, <2>1 DEF Inv, JobInv, XferInv
  <2>3. PlaceInv'
    BY <1>1, <1>3, <1>5, <2>1 DEF PlaceInv, RightUnit, driver
  <2> QED
    BY <1>1, <1>2, <1>3, <1>4, <2>1, <2>2, <2>3, GoesOn
<1>9. CASE Len(moved') = job.n /\ ~(job.n > 1)
  <2>1. pc' = "idle" /\ res' = "ok" /\ selected' = selected \ {"card"} /\ job.n = 1
    BY <1>2, <1>4, <1>9 DEF Data, Return
  <2>2. job.clean => card'.xfer \notin {"many", "wmany"}
    BY <1>6, <2>1
  <2>3. job.clean /\ RightUnit => moved' = [i \in 1..job.n |-> mem'[job.at + i - 1]]
    BY <1>4, <1>5, <1>9
  <2> QED
    BY <1>1, <1>2, <1>3, <1>4, <1>9, <2>1, <2>2, <2>3, Succeeds
<1> QED
  BY <1>2, <1>4, <1>7, <1>8, <1>9

\* What a call that fails may leave on the card.
LEMMA LeavesItsTransfer ==
  ASSUME Inv, pc \notin Between, card'.xfer \in {card.xfer, "none"}
  PROVE  card'.xfer \in {"many", "wmany"} /\ job.clean => job.n > 1
BY OwnTransfer

\* A failing block of a read leaves the transfer as it was.
LEMMA DataFailsKeeps == ASSUME Inv, DataFails PROVE Inv'
<1> USE DEF Between, Before, Initialising, After, Places
<1>1. /\ pc = "data" /\ pc' = "idle" /\ res' = "err" /\ selected' = selected \ {"card"}
      /\ UNCHANGED <<job, calls, driver, moved, mem>>
      /\ card' = card \/ card' = NextBlock
  BY DEF DataFails, Return, Keep
<1>2. card' \in Cards /\ card'.kind = card.kind /\ card'.xfer \in {card.xfer, "none"}
  BY <1>1, CardType, NextBlockType DEF Inv
<1>3. mem' \in [Blocks -> Values]
  BY <1>1 DEF Inv, TypeOK
<1> QED
  BY <1>1, <1>2, <1>3, LeavesItsTransfer, FailsTyped, GivesUp

\* The card without its transfer.
Ended == [card EXCEPT !.xfer = "none"]

\* The card after the end of a transfer.
LEMMA EndedType ==
  ASSUME Inv PROVE card \in Cards /\ Ended \in Cards /\ Ended.kind = card.kind /\ Ended.xfer = "none"
BY CardType, WithXfer DEF Inv, Ended, Xfers

\* CMD12: the blocks that were read are the ones asked for.
LEMMA StopKeeps == ASSUME Inv, Stop PROVE Inv'
<1> USE DEF Between, Before, Initialising, After, Places
<1>1. /\ pc = "stop" /\ job.op = "read" /\ job.n > 1 /\ Len(moved) = job.n
      /\ pc' = "idle" /\ selected' = selected \ {"card"}
      /\ UNCHANGED <<job, calls, driver, moved, mem>>
      /\ card' \in {card, Ended}
  BY DEF Stop, Return, Keep, Inv, JobInv, Ended
<1>2. card' \in Cards /\ card'.kind = card.kind /\ card'.xfer \in {card.xfer, "none"}
  BY <1>1, EndedType
<1>3. /\ mem' \in [Blocks -> Values] /\ moved \in Seq(Values) /\ job.n \in Nat
  BY <1>1 DEF Inv, TypeOK
<1>4. CASE res' = "err"
  BY <1>1, <1>2, <1>3, <1>4, LeavesItsTransfer, FailsTyped, GivesUp
<1>5. CASE res' = "ok" /\ card' = Ended
  <2>1. job.clean /\ RightUnit => moved' = [i \in 1..job.n |-> mem'[job.at + i - 1]]
    BY <1>1, <1>3 DEF Inv, PlaceInv
  <2>2. card'.xfer = "none"
    BY <1>5, EndedType
  <2> QED
    BY <1>1, <1>2, <1>3, <1>5, <2>1, <2>2, Succeeds
<1> QED
  BY <1>4, <1>5 DEF Stop, Return, Ended

\* The block a packet of the running call is written to.
LEMMA WritesItsBlock ==
  ASSUME Inv, pc = "packet", Listening(Kind), job.clean, RightUnit
  PROVE  /\ card.ptr = job.at + Len(moved) /\ Len(moved) \in Nat /\ Len(moved) < job.n
         /\ job.at \in Nat /\ job.n \in Nat /\ card.ptr \in Blocks
<1>1. card.xfer # "none" /\ card.ptr \in Blocks
  BY DEF Listening, Kind
<1>2. moved \in Seq(Values) /\ job.at \in Nat /\ job.n \in Nat
  BY DEF Inv, TypeOK
<1> QED
  BY <1>1, <1>2 DEF Inv, PlaceInv, JobInv

\* A packet the card accepts.
LEMMA PacketKeeps == ASSUME Inv, Packet PROVE Inv'
<1> USE DEF Between, Before, Initialising, After, Places
<1>1. /\ pc = "packet" /\ job.op = "write" /\ Listening(Kind)
      /\ moved' = Append(moved, job.val)
      /\ UNCHANGED <<job, calls, driver, selected, res>>
      /\ pc' = IF job.n = 1 THEN "status" ELSE IF Len(moved') < job.n THEN "packet" ELSE "finish"
  BY DEF Packet, Keep, Goto, Inv, JobInv
<1>2. /\ card \in Cards /\ mem \in [Blocks -> Values] /\ moved \in Seq(Values)
      /\ Len(moved) < job.n /\ job.n \in Nat /\ job.at \in Nat /\ job.val \in Values
      /\ card.ptr \in Blocks
  BY <1>1, CardType DEF Inv, TypeOK, JobInv, Listening
<1>3. /\ NextBlock \in Cards /\ NextBlock.kind = card.kind /\ NextBlock.ptr = card.ptr + 1
      /\ NextBlock.xfer = IF card.xfer \in {"many", "wmany"} THEN card.xfer ELSE "none"
  BY NextBlockType DEF Inv
<1>4. /\ moved' \in Seq(Values) /\ Len(moved') = Len(moved) + 1 /\ Len(moved) \in Nat
  BY <1>1, <1>2
<1>5. /\ card' \in Cards /\ card'.kind = card.kind /\ card'.ptr = card.ptr + 1
      /\ card'.xfer = NextBlock.xfer \/ (job.n = 1 /\ card'.xfer = "failed")
      /\ job.n = 1 => card'.xfer = "failed" \/ mem' = Programmed
  <2>1. CASE card' = NextBlock /\ (mem' = Programmed \/ job.n > 1)
    BY <1>1, <1>2, <1>3, <2>1
  <2>2. CASE ~(job.n > 1) /\ card' = [NextBlock EXCEPT !.xfer = "failed"]
    <3>1. job.n = 1
      BY <1>2, <1>4, <2>2
    <3>2. "failed" \in Xfers
      BY DEF Xfers
    <3>3. card' \in Cards /\ card'.kind = NextBlock.kind /\ card'.xfer = "failed" /\ card'.ptr = NextBlock.ptr
      BY <1>3, <2>2, <3>2, WithXfer
    <3> QED
      BY <1>3, <3>1, <3>3
  <2> QED
    BY <2>1, <2>2 DEF Packet
<1>6. mem' \in [Blocks -> Values]
  BY <1>2 DEF Packet, Programmed
<1>7. card.xfer = Kind
  BY <1>1 DEF Listening
<1>8. JobInv'
  BY <1>1, <1>2, <1>4 DEF Inv, JobInv
<1>9. XferInv'
  BY <1>1, <1>2, <1>3, <1>5, <1>7 DEF XferInv, Kind
<1>10. PlaceInv'
  <2> SUFFICES ASSUME job.clean, RightUnit PROVE PlaceInv'
    BY <1>1, <1>5 DEF PlaceInv, RightUnit, driver
  <2>1. /\ card.ptr = job.at + Len(moved)
    BY <1>1, WritesItsBlock
  <2>2. card'.ptr = job.at + Len(moved')
    BY <1>2, <1>4, <1>5, <2>1
  <2>3. pc' = "status" => card'.xfer = "failed" \/ mem'[job.at] = job.val
    <3>1. SUFFICES ASSUME job.n = 1, mem' = Programmed PROVE mem'[job.at] = job.val
      BY <1>1, <1>5
    <3>2. Len(moved) = 0 /\ card.ptr = job.at
      BY <1>2, <1>4, <2>1, <3>1
    <3> QED
      BY <1>2, <3>1, <3>2 DEF Programmed
  <2> QED
    BY <1>1, <2>2, <2>3 DEF PlaceInv
<1> QED
  BY <1>1, <1>2, <1>4, <1>5, <1>6, <1>8, <1>9, <1>10, GoesOn

\* A failing block of a write leaves the transfer as it was.
LEMMA PacketFailsKeeps == ASSUME Inv, PacketFails PROVE Inv'
<1> USE DEF Between, Before, Initialising, After, Places
<1>1. /\ pc = "packet" /\ pc' = "idle" /\ res' = "err" /\ selected' = selected \ {"card"}
      /\ UNCHANGED <<job, calls, driver, moved>>
      /\ card' = card \/ card' = NextBlock
  BY DEF PacketFails, Return, Keep
<1>2. card' \in Cards /\ card'.kind = card.kind /\ card'.xfer \in {card.xfer, "none"}
  BY <1>1, CardType, NextBlockType DEF Inv
<1>3. mem' \in [Blocks -> Values]
  BY DEF Inv, TypeOK, PacketFails, Programmed
<1> QED
  BY <1>1, <1>2, <1>3, LeavesItsTransfer, FailsTyped, GivesUp

\* CMD13 and the stop token.
LEMMA WriteEndsKeeps == ASSUME Inv, Status \/ FinishWrite PROVE Inv'
<1> USE DEF Between, Before, Initialising, After, Places
<1>1. /\ pc \in {"status", "finish"} /\ job.op = "write"
      /\ pc = "status" => job.n = 1
      /\ pc = "finish" => job.n > 1
      /\ pc' = "idle" /\ selected' = selected \ {"card"}
      /\ UNCHANGED <<job, calls, driver, moved, mem>>
      /\ card' \in {card, Ended}
  BY DEF Status, FinishWrite, Return, Keep, Inv, JobInv, Ended
<1>2. card' \in Cards /\ card'.kind = card.kind /\ card'.xfer \in {card.xfer, "none"}
  BY <1>1, EndedType
<1>3. mem' \in [Blocks -> Values] /\ moved \in Seq(Values) /\ job.n \in Nat /\ Len(moved) <= job.n
  BY <1>1 DEF Inv, TypeOK
<1>4. CASE res' = "err"
  BY <1>1, <1>2, <1>3, <1>4, LeavesItsTransfer, FailsTyped, GivesUp
<1>5. CASE res' = "ok" /\ card' = Ended /\ (pc = "status" => card.xfer # "failed")
  <2>1. job.clean /\ RightUnit /\ job.n = 1 => mem'[job.at] = job.val
    BY <1>1, <1>3, <1>5 DEF Inv, PlaceInv
  <2>2. card'.xfer = "none"
    BY <1>5, EndedType
  <2> QED
    BY <1>1, <1>2, <1>3, <1>5, <2>1, <2>2, Succeeds
<1> QED
  BY <1>4, <1>5 DEF Status, FinishWrite, Return, Ended

\* The display between two calls.
LEMMA DisplayKeeps == ASSUME Inv, DisplaySelect \/ DisplayDone PROVE Inv'
<1> USE DEF Between, Before, Initialising, After, Places
<1>1. /\ pc \in Between /\ pc' \in Between
      /\ UNCHANGED <<driver, job, moved, res, calls, card, mem>>
      /\ selected' \subseteq {"card", "display"}
      /\ "card" \in selected' => "card" \in selected
  BY DEF DisplaySelect, DisplayDone, Inv, TypeOK
<1>2. TypeOK'
  BY <1>1 DEF Inv, TypeOK, driver
<1>3. VerInv' /\ JobInv' /\ XferInv' /\ PlaceInv'
  BY <1>1 DEF Inv, VerInv, JobInv, XferInv, PlaceInv, driver
<1>4. ReturnInv'
  BY <1>1 DEF Inv, ReturnInv, RightUnit, driver
<1> QED
  BY <1>2, <1>3, <1>4 DEF Inv

\* Every step preserves the invariant.
LEMMA StepInv == Inv /\ [Next]_vars => Inv'
<1> SUFFICES ASSUME Inv, [Next]_vars PROVE Inv'
  OBVIOUS
<1>1. ASSUME NEW s \in Blocks, NEW n \in 1..MaxBlocks, Call("read", s, n, Blank) PROVE Inv'
  BY <1>1, CallKeeps, BlankType DEF Blocks
<1>2. ASSUME NEW s \in Blocks, NEW n \in 1..MaxBlocks, NEW v \in Values, Call("write", s, n, v)
      PROVE  Inv'
  BY <1>2, CallKeeps DEF Blocks
<1>3. CASE Call("info", 0, 1, Blank)
  <2>1. 1 \in 1..MaxBlocks
    OBVIOUS
  <2> QED
    BY <1>3, <2>1, CallKeeps, BlankType
<1>4. CASE UNCHANGED vars
  BY <1>4 DEF vars, driver, Inv, TypeOK, VerInv, JobInv, XferInv, PlaceInv, ReturnInv,
              ReadKind, Kind, RightUnit
<1>5. CASE Transfer
  BY <1>5, InfoKeeps, ReadCommandKeeps, DataKeeps, DataFailsKeeps, StopKeeps, WriteCommandKeeps,
     PacketKeeps, PacketFailsKeeps, WriteEndsKeeps DEF Transfer
<1> QED
  BY <1>1, <1>2, <1>3, <1>4, <1>5, InitialiseKeeps, DisplayKeeps DEF Next

\* The invariant holds in every state.
LEMMA Invariant == Spec => []Inv
BY InitInv, StepInv, PTL DEF Spec

-----------------------------------------------------------------------------
\* The types, and what a call leaves behind: the card is off the bus unless
\* reading its register failed, and only a failed call of many blocks leaves a
\* transfer open (sd.rs 213-272, 421-451).
THEOREM SpecConsistent == Spec => []Consistent
<1>1. Inv => Consistent
  BY DEF Inv, ReturnInv, Between, Consistent, BusFreed, TransfersEnd
<1> QED
  BY <1>1, Invariant, PTL

\* A read that succeeds returns the blocks it names, and a write of one block that
\* succeeds is on the card, when no earlier transfer was open and the driver knows
\* how the card counts (sd.rs 199-272, 345-451).
THEOREM CallsAnswer == Spec => []Answers
<1>1. Inv => Answers
  BY DEF Inv, ReturnInv, Between, Answers, Answered
<1> QED
  BY <1>1, Invariant, PTL

\* No call, failed or not, changes another block than those it was given, under
\* the same two conditions (sd.rs 239-272, 407-451).
THEOREM WritesOnlyAsked == Spec => OnlyAsked
<1> DEFINE Stays == job.clean /\ RightUnit =>
                      \A b \in Blocks : mem'[b] # mem[b] => b \in job.at..(job.at + job.n - 1)
<1>1. Inv /\ [Next]_vars => [Stays]_vars
  <2> SUFFICES ASSUME Inv, Next, job.clean, RightUnit, NEW b \in Blocks, mem'[b] # mem[b]
               PROVE  b \in job.at..(job.at + job.n - 1)
    OBVIOUS
  <2>1. CASE (Packet \/ PacketFails) /\ mem' = Programmed /\ pc = "packet" /\ Listening(Kind)
    <3>1. /\ card.ptr = job.at + Len(moved) /\ Len(moved) \in Nat /\ Len(moved) < job.n
          /\ job.at \in Nat /\ job.n \in Nat
      BY <2>1, WritesItsBlock
    <3>2. b = card.ptr
      BY <2>1 DEF Programmed, Inv, TypeOK
    <3> QED
      BY <3>1, <3>2 DEF Blocks
  <2>2. CASE UNCHANGED mem
    BY <2>2
  <2> QED
    BY <2>1, <2>2
    DEF Next, Call, Initialise, ResetIdle, ResetSilent, ResetOdd, ResetOther, CrcOn, Version,
        VersionFails, Start, StartFails, Ocr, Transfer, InfoCommand, Csd, ReadCommand, Data,
        DataFails, Stop, WriteCommand, Packet, PacketFails, Status, FinishWrite,
        DisplaySelect, DisplayDone
<1>2. [][Stays]_vars => OnlyAsked
  BY DEF OnlyAsked
<1> QED
  BY <1>1, <1>2, Invariant, PTL DEF Spec
=============================================================================
