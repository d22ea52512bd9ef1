-------------------------- MODULE SharedBusProofs --------------------------
(***************************************************************************)
(* Proofs about SharedBus, for any widths and sizes and any transactions   *)
(* that keep to the protocols of the two parts (Spoken).  The invariant    *)
(* says, at every edge, where the transaction under way has brought the    *)
(* part it is for (FlashInBytes, CardInBytes), and that the other part is  *)
(* asleep but for the one edge of its clock it may have counted            *)
(* (FlashQuiet, CardQuiet).                                                *)
(***************************************************************************)
EXTENDS SharedBus, SequenceTheorems, TLAPS

(* The phases that a write enable is for. *)
Writing == {"Programming", "ProgramAddress", "EraseAddress"}

(* What the flash is while nobody speaks to it: an edge of its clock that    *)
(* belongs to the card's select may have reached it, and no more than one.   *)
FlashQuiet(f) ==
  /\ f.phase = "Command" /\ f.have = 0 /\ ~f.loaded /\ ~f.driving
  /\ f.shift.out = FF /\ f.shift.shown = f.shift.count /\ f.shift.count \in {0, 1}

CardIdle(c) ==
  /\ c.phase = "Command" /\ c.frame = <<>> /\ c.out = <<>> /\ ~c.app
  /\ c.pending = NoBlock /\ c.multiWrite = NoBlock /\ c.multiRead = NoBlock

CardQuiet(w) ==
  /\ CardIdle(w.card) /\ w.outByte = FF /\ w.shown = w.count /\ w.count \in {0, 1}
  /\ w.dout \in {Released, <<FF, 0>>, <<FF, 1>>}

Folded(n) == IF n = W THEN 0 ELSE n

FlashPhase(o, k) ==
  CASE k = 0 -> "Command"
    [] k > 0 /\ o.kind \in {"Status", "Jedec"} -> o.kind
    [] 0 < k /\ k <= AddressBytes /\ o.kind = "Read" -> "Address"
    [] 0 < k /\ k <= AddressBytes /\ o.kind = "Program" -> "ProgramAddress"
    [] 0 < k /\ k <= AddressBytes /\ o.kind = "Erase" -> "EraseAddress"
    [] k > AddressBytes /\ o.kind = "Read" -> "Reading"
    [] k > AddressBytes /\ o.kind = "Program" -> "Programming"
    [] OTHER -> "Command"

(* Where k bytes of a transaction leave the flash: its instruction, what it   *)
(* has of the address, and the place it is at, which `ahead` is one past the  *)
(* byte that is on its way out.                                               *)
FlashSpot(o, k, f, ahead) ==
  /\ f.phase = FlashPhase(o, k)
  /\ k = 0 => f.have = 0
  /\ 0 < k /\ k <= AddressBytes /\ o.kind \in {"Read", "Program", "Erase"} => f.have = k - 1
  /\ k > 0 /\ o.kind = "Jedec" => f.at = k - 1 + ahead
  /\ k > AddressBytes /\ o.kind = "Read" => f.at = Target(o) + k - AddressBytes - 1 + ahead
  /\ k > AddressBytes /\ o.kind = "Program" /\ f.wel
       => f.at = InPage(Target(o), k - AddressBytes - 1)

(* And what became of the write enable the master believes in.                *)
FlashGrant(o, k, f, held) ==
  /\ k = 0 => held # "using"
  /\ k > 0 /\ o.kind = "Enable" => held = "yes"
  /\ k > 0 /\ o.kind = "Disable" => held = "no"
  /\ k > 0 /\ o.kind \in {"Program", "Erase"} => held # "yes"
  /\ held = "using" /\ f.phase \in Writing => f.wel

FlashAfter(o, k, f) ==
  FlashSpot(o, k, f, 1) /\ FlashGrant(o, k, f, armed) /\ (f.loaded <=> Outputs(f.phase))

EnableOK ==
  /\ armed = "no" => ~flash.wel
  /\ armed = "yes" => flash.wel /\ flash.phase \notin Writing
  /\ armed = "using" => /\ op # NoOp /\ op.dev = "flash" /\ op.kind \in {"Program", "Erase"}
                        /\ flash.wel => flash.phase \in Writing

(* What the card still has to send of block b, n bytes of it being out.      *)
Streamed(c, b, n) == [i \in 1..((1 + BlockBytes + CrcBytes) - n) |-> BlockOut(c, b)[i + n]]
(* The last n of the first k bytes of a transaction.                          *)
Payload(o, k, n) == [i \in 1..n |-> o.bytes[k - n + i]]
Prior(o, k) == IF k = 0 THEN Rest ELSE o.due[k]

Ran(l) == l.stage = "frame" /\ l.at = FrameBytes
Framing(l) == l.stage = "frame" /\ l.at # FrameBytes
Sealed(l) == l.stage = "seal" /\ l.at = CrcBytes

(* The labels a transaction can come to.                                      *)
Sensible(l) ==
  /\ l \in Labels
  /\ l.stage \in {"idle", "frame", "reply", "ocr", "refused", "gap", "token", "block", "check",
                  "waiting", "start", "data", "seal", "accepted", "busy", "stop", "stopped"}
  /\ l.stage = "frame" => l.cmd \in Commands /\ l.at \in 1..FrameBytes
  /\ l.stage = "reply" => l.cmd \in Commands
  /\ l.stage = "ocr" => l.cmd = "CMD58"
  /\ l.stage = "refused" => l.cmd = "CMD17"
  /\ l.stage = "gap" => l.cmd = "CMD18"
  /\ l.stage \in {"gap", "token", "block", "check"}
       => l.cmd \in {"CMD17", "CMD18"} /\ l.arg < BlockCount
  /\ l.stage \in {"waiting", "start", "data", "seal", "accepted", "busy"}
       => l.cmd \in {"CMD24", "CMD25"}
  /\ l.stage \in {"stop", "stopped"} => l.cmd = "CMD25"
  /\ l.stage \in {"token", "start"} => l.at = 0
  /\ l.stage \in {"block", "data"} => l.at \in 1..BlockBytes
  /\ l.stage \in {"check", "seal"} => l.at \in 1..CrcBytes

(* What each leaves the card with.                                            *)
CardPhase(l) ==
  CASE AtRest(l) \/ Framing(l) -> "Command"
    [] Streams(l) -> "MultiRead"
    [] Awaits(l) \/ l.stage \in {"start", "data"} \/ (l.stage = "seal" /\ ~Sealed(l)) -> "Receiving"
    [] OTHER -> "Responding"

Replied(l, c) ==
  CASE l.cmd = "CMD0" -> <<"R1idle">>
    [] l.cmd = "CMD17" -> <<"R1">> \o BlockOut(c, l.arg)
    [] l.cmd = "CMD58" -> <<"R1", "Ocr">>
    [] OTHER -> <<"R1">>

Queued(l, c) ==
  CASE Ran(l) -> Replied(l, c)
    [] l.stage = "gap" \/ (l.stage = "reply" /\ l.cmd = "CMD17") -> BlockOut(c, l.arg)
    [] l.stage = "reply" /\ l.cmd = "CMD58" -> <<"Ocr">>
    [] l.stage = "token" -> Streamed(c, l.arg, 1)
    [] l.stage = "block" -> Streamed(c, l.arg, 1 + l.at)
    [] l.stage = "check" /\ l.at # CrcBytes -> Streamed(c, l.arg, 1 + BlockBytes + l.at)
    [] Sealed(l) -> <<"Accepted", FF>>
    [] l.stage \in {"accepted", "stop"} -> <<FF>>
    [] OTHER -> <<>>

Application(l) == (l.cmd = "CMD55" /\ ~Framing(l)) \/ (l.cmd = "CMD41" /\ Framing(l))
PendingOf(l) == IF Ran(l) /\ l.cmd = "CMD24" THEN l.arg ELSE NoBlock
MultiReadOf(l) ==
  CASE l.cmd = "CMD18" /\ (Ran(l) \/ l.stage = "reply") -> l.arg
    [] l.cmd = "CMD18" /\ l.stage \in {"gap", "token", "block", "check"} -> l.arg + 1
    [] OTHER -> NoBlock
MultiWriteOf(l) ==
  CASE l.cmd = "CMD25" /\ (\/ Ran(l) \/ l.stage \in {"reply", "waiting", "start", "data"}
                           \/ l.stage = "seal" /\ ~Sealed(l)) -> l.arg
    [] l.cmd = "CMD25" /\ (l.stage \in {"accepted", "busy"} \/ Sealed(l)) -> l.arg + 1
    [] OTHER -> NoBlock

Aimed(l, c) ==
  /\ c.pending = PendingOf(l) /\ c.multiRead = MultiReadOf(l) /\ c.multiWrite = MultiWriteOf(l)
  /\ Streams(l) \/ Awaits(l) => c.addr = BlockAt(l)
  /\ Awaits(l) => ~c.started
  /\ l.stage \in {"start", "data", "seal"} /\ ~Sealed(l) => c.addr = l.arg /\ c.started

FrameIs(l, c) ==
  IF Framing(l) THEN /\ Len(c.frame) = l.at /\ c.frame[1] = l.cmd
                     /\ l.at >= 2 => AddressOf(c.frame[2]) = l.arg
  ELSE c.frame = <<>>

CardAt(l, c) ==
  /\ Sensible(l) /\ c.phase = CardPhase(l) /\ c.out = Queued(l, c)
  /\ (c.app <=> Application(l)) /\ Aimed(l, c) /\ FrameIs(l, c)

Collected(o, k, c) ==
  LET l == Prior(o, k) IN
  /\ l.stage = "start" => c.incoming = <<>>
  /\ l.stage = "data" => c.incoming = Payload(o, k, l.at)
  /\ l.stage = "seal" /\ ~Sealed(l) => c.incoming = Payload(o, k, BlockBytes + l.at)

CardAfter(o, k, c) == CardAt(Prior(o, k), c) /\ Collected(o, k, c)

(* A transaction of the flash. *)
FlashOpens ==
  /\ pos.half \in 1..2 /\ p61 /\ (pos.half = 2 => ~p60) /\ FlashQuiet(flash) /\ flash.shift.count = 0
  /\ CardQuiet(card) /\ (p60 => card.count = 0) /\ got.n = 0 /\ bits = <<>> /\ armed # "using"

(* Amid byte b, at its bit i: the part has taken n bits of it, and k bytes,   *)
(* and what the master has read of it so far is what was promised.            *)
FlashInBytes(o, b, i, h) ==
  LET n == IF h = 2 THEN i + 1 ELSE i
      k == IF n = W THEN b ELSE b - 1
  IN /\ ~p61 /\ (p60 <=> h = 2) /\ CardQuiet(card)
     /\ b # 1 \/ i # 0 \/ h # 1 => card.count = 0
     /\ flash.shift.count = Folded(n) /\ flash.shift.shown = Folded(n)
     /\ n # 0 => flash.shift.whole
     /\ FlashAfter(o, k, flash)
     /\ flash.loaded /\ k < Len(o.bytes) => flash.shift.out = Answer(o, k + 1)
     /\ h = 2 => IF flash.driving THEN flash.shift.dout = <<Answer(o, b), i>>
                 ELSE Answer(o, b) = FF
     /\ bits = [j \in 1..i |-> <<Answer(o, b), j - 1>>] /\ got.n = b - 1

FlashCloses == pos.half = 1 /\ ~p61 /\ CardQuiet(card) /\ card.count = 0

(* A transaction of the card. *)
CardOpens ==
  /\ pos.half \in 1..3 /\ FlashQuiet(flash) /\ flash.shift.count = 0
  /\ CardQuiet(card) /\ got.n = 0 /\ bits = <<>>
  /\ pos.half = 1 => p61
  /\ pos.half = 2 => p60 /\ p61
  /\ pos.half = 3 => p60 /\ (p61 <=> op.mode = 3)

(* k bytes and n bits of the next are out, and what the card has of them.     *)
CardMid(o, k, n) ==
  /\ ~p60 /\ FlashQuiet(flash) /\ flash.shift.count = 0
  /\ card.count = n /\ card.shown = n /\ (n # 0 => card.whole)
  /\ CardAfter(o, k, card.card)
  /\ k < Len(o.bytes) => card.outByte = Answer(o, k + 1)
  /\ ~greeted => /\ o.kind = "Greet"
                 /\ k = 0 \/ (Framing(Prior(o, k)) /\ Prior(o, k).cmd = "CMD0")
  /\ o.kind # "Ready" => ~card.card.app
  /\ bits = [j \in 1..n |-> <<Answer(o, k + 1), j - 1>>] /\ got.n = k

CardInBytes(o, b, i, h) ==
  LET n == IF h = 2 /\ o.mode # 3 THEN i + 1 ELSE i
  IN /\ CardMid(o, IF n = W THEN b ELSE b - 1, Folded(n))
     /\ p61 <=> (o.mode = 3 <=> h = 1)
     /\ ~p61 => card.dout = IF greeted THEN <<Answer(o, b), i>> ELSE Released

CardCloses ==
  /\ pos.half \in 1..2 /\ FlashQuiet(flash) /\ ~card.card.app
  /\ pos.half = 1 => ~p60 /\ flash.shift.count = 0
  /\ pos.half = 2 => /\ p60 /\ CardQuiet(card) /\ card.count = 0
                     /\ p61 => flash.shift.count = 0

Idling ==
  /\ p61 /\ FlashQuiet(flash) /\ flash.shift.count = 0 /\ CardQuiet(card)
  /\ p60 => card.count = 0

Talking ==
  /\ op = NoOp => Idling
  /\ op # NoOp /\ op.dev = "flash" =>
       /\ pos.byte = 0 => FlashOpens
       /\ pos.byte \in 1..Len(op.bytes)
            => pos.half \in 1..2 /\ FlashInBytes(op, pos.byte, pos.bit, pos.half)
       /\ pos.byte \notin 0..Len(op.bytes) => FlashCloses /\ pos = Shut(op)
  /\ op # NoOp /\ op.dev = "card" =>
       /\ pos.byte = 0 => CardOpens
       /\ pos.byte \in 1..Len(op.bytes)
            => pos.half \in 1..2 /\ CardInBytes(op, pos.byte, pos.bit, pos.half)
       /\ pos.byte \notin 0..Len(op.bytes)
            => CardCloses /\ pos.byte = Len(op.bytes) + 1 /\ pos.bit = 0

Wires ==
  /\ flash.clk = p60 /\ flash.sel = ~p61 /\ card.clk = p61 /\ card.sel = ~p60
  /\ card.driven = greeted /\ card.card.spi = greeted

Introduced == op # NoOp /\ op.dev = "card" /\ op.kind # "Greet" => greeted

BusInv == TypeOK /\ Wires /\ Introduced /\ EnableOK /\ Talking /\ HoldsWhatWasWritten /\ AnswersInPlace

-----------------------------------------------------------------------------
(* The flash, edge by edge.                                                 *)

(* A place in a byte and the next one.                                      *)
LEMMA OneMoreBit ==
  ASSUME NEW n \in 0..W - 1
  PROVE  (n + 1) % W = IF n + 1 = W THEN 0 ELSE n + 1
  BY BusAssumption

(* Addresses are numbers.                                                   *)
LEMMA Addressed == ASSUME NEW byte PROVE AddressOf(byte) \in Nat
  BY BusAssumption DEF AddressOf

(* A select that does not move leaves the flash alone.                      *)
LEMMA FlashSelectStays ==
  ASSUME NEW f, NEW s, f.sel = s
  PROVE  FlashSelect(f, s) = f
  BY DEF FlashSelect

(* A shifter that starts a byte.                                            *)
LEMMA Begun ==
  ASSUME NEW s \in Shifters, NEW t, t = Begin(s, FF)
  PROVE  t \in Shifters /\ t.count = 0 /\ t.shown = 0 /\ t.out = FF
<1>1. 0 \in 0..W - 1 /\ FF \in Codes /\ <<FF, 0>> \in Levels
  BY BusAssumption DEF FF, Levels, Codes
<1>2. t = [s EXCEPT !.count = 0, !.whole = TRUE, !.out = FF, !.shown = 0, !.dout = <<FF, 0>>]
  BY DEF Begin
<1> QED BY <1>1, <1>2 DEF Shifters

(* A select that moves starts the instruction over; released, the part ends *)
(* the program or the erase it was given.                                   *)
LEMMA FlashSelectMoves ==
  ASSUME NEW f \in Flashes, NEW s \in BOOLEAN, f.sel # s
  PROVE  LET g == FlashSelect(f, s) IN
         /\ g \in Flashes /\ g.sel = s /\ g.clk = f.clk /\ g.image = f.image
         /\ g.phase = "Command" /\ g.have = 0 /\ ~g.loaded /\ ~g.driving /\ g.at = f.at
         /\ g.shift.count = 0 /\ g.shift.shown = 0 /\ g.shift.out = FF
         /\ g.wel <=> (f.wel /\ (s \/ f.phase \notin Writing))
<1> DEFINE t == Begin(f.shift, FF)
           wel == f.wel /\ (s \/ f.phase \notin Writing)
           g == FlashSelect(f, s)
<1>1. t \in Shifters /\ t.count = 0 /\ t.shown = 0 /\ t.out = FF
  BY Begun DEF Flashes
<1>2. g = [f EXCEPT !.sel = s, !.wel = wel, !.phase = "Command", !.have = 0, !.loaded = FALSE,
                    !.driving = FALSE, !.shift = t]
  BY DEF FlashSelect, Writing
<1>3. wel \in BOOLEAN
  OBVIOUS
<1> HIDE DEF t, wel, g
<1>4. g \in Flashes
  BY ZenonT(40), <1>1, <1>2, <1>3 DEF Flashes
<1>5. g.sel = s /\ g.clk = f.clk /\ g.image = f.image /\ g.at = f.at
  BY <1>2 DEF Flashes
<1>6. g.phase = "Command" /\ g.have = 0 /\ g.shift = t
  BY <1>2 DEF Flashes
<1>7. g.loaded = FALSE /\ g.driving = FALSE /\ g.wel = wel
  BY <1>2 DEF Flashes
<1> QED BY <1>1, <1>4, <1>5, <1>6, <1>7 DEF wel, g

(* An edge it does not count only moves the clock.                          *)
LEMMA FlashClockIdles ==
  ASSUME NEW f \in Flashes, NEW high \in BOOLEAN, NEW di, ~f.sel \/ f.clk = high \/ ~high
  PROVE  FlashClock(f, high, di) = [f EXCEPT !.clk = high]
  BY DEF FlashClock

(* What a rising edge makes of the shifter.                                 *)
LEMMA Risen ==
  ASSUME NEW s \in Shifters, NEW di, s.shown = s.count
  PROVE  /\ Rise(s, di) \in Shifters /\ Rise(s, di).shown = Rise(s, di).count
         /\ Rise(s, di).count = (IF s.count + 1 = W THEN 0 ELSE s.count + 1)
         /\ Rise(s, di).out = s.out /\ Rise(s, di).dout = <<s.out, s.count>>
         /\ Rise(s, di).whole <=> ((s.whole \/ s.count = 0) /\ di.at = s.count)
<1> DEFINE n == IF s.count + 1 = W THEN 0 ELSE s.count + 1
           whole == (s.whole \/ s.count = 0) /\ di.at = s.count
           t == Rise(s, di)
<1>1. (s.count + 1) % W = n
  BY OneMoreBit DEF Shifters
<1>2. n \in 0..W - 1
  BY BusAssumption DEF Shifters
<1>3. <<s.out, s.count>> \in Levels
  BY BusAssumption DEF Shifters, Levels
<1>4. whole \in BOOLEAN
  OBVIOUS
<1>5. t = [s EXCEPT !.count = n, !.whole = whole, !.dout = <<s.out, s.count>>, !.shown = n]
  BY <1>1 DEF Rise
<1> HIDE DEF n, whole, t
<1>6. t \in Shifters
  BY <1>2, <1>3, <1>4, <1>5 DEF Shifters
<1>7. t.shown = n /\ t.count = n /\ t.out = s.out
  BY <1>5 DEF Shifters
<1>8. t.whole = whole /\ t.dout = <<s.out, s.count>>
  BY <1>5 DEF Shifters
<1> QED BY <1>6, <1>7, <1>8 DEF n, whole, t

(* A bit that completes no byte.                                            *)
LEMMA FlashBit ==
  ASSUME NEW f \in Flashes, NEW di, f.sel, ~f.clk, f.shift.shown = f.shift.count,
         f.shift.count + 1 # W
  PROVE  FlashClock(f, TRUE, di)
           = [f EXCEPT !.clk = TRUE, !.shift = Rise(f.shift, di), !.driving = f.loaded]
<1>1. f.shift \in Shifters
  BY DEF Flashes
<1> DEFINE s == Rise(f.shift, di)
<1>2. s.count = f.shift.count + 1 /\ s.shown = s.count
  BY <1>1, Risen
<1>3. s.count # 0 /\ s.shown # 0
  BY <1>1, <1>2, BusAssumption DEF Shifters
<1> HIDE DEF s
<1> QED BY <1>3 DEF FlashClock, s

(* The flash once it has taken a whole byte.                                *)
Fed(f, di) ==
  FlashConsumes([f EXCEPT !.clk = TRUE, !.shift = Rise(f.shift, di), !.driving = f.loaded],
                Taken(Rise(f.shift, di), di))

(* The bit that completes one.                                              *)
LEMMA FlashByte ==
  ASSUME NEW f \in Flashes, NEW di, f.sel, ~f.clk, f.shift.shown = f.shift.count,
         f.shift.count + 1 = W
  PROVE  FlashClock(f, TRUE, di)
           = [Onward(Fed(f, di)) EXCEPT !.loaded = Outputs(Fed(f, di).phase),
                                        !.shift.out = NextByte(Fed(f, di))]
<1>1. f.shift \in Shifters
  BY DEF Flashes
<1> DEFINE s == Rise(f.shift, di)
<1>2. s.count = 0 /\ s.shown = s.count
  BY ZenonT(40), <1>1, Risen, BusAssumption DEF Shifters
<1> HIDE DEF s
<1> QED BY <1>2 DEF FlashClock, Fed, s

-----------------------------------------------------------------------------
(* The flash, byte by byte.                                                 *)

(* A transaction of the flash, as its protocol has it.                      *)
LEMMA FlashSpoken ==
  ASSUME NEW o \in Ops, o.dev = "flash"
  PROVE  /\ FlashTransaction(o) /\ o.bytes \in Seq(STRING) /\ Len(o.bytes) >= 1
         /\ Len(o.bytes) \in Nat /\ DOMAIN o.bytes = 1..Len(o.bytes)
         /\ \A k \in 1..Len(o.bytes) : o.bytes[k] \in Codes /\ o.due[k] = FlashDue(o, k)
<1>1. o.bytes \in Seq(STRING) /\ o.bytes # <<>> /\ FlashTransaction(o)
  BY Spoken
<1>2. Len(o.bytes) \in Nat /\ Len(o.bytes) >= 1 /\ DOMAIN o.bytes = 1..Len(o.bytes)
  BY <1>1
<1>3. \A k \in 1..Len(o.bytes) : o.bytes[k] \in Codes
  BY <1>2 DEF Codes
<1>4. \A k \in 1..Len(o.bytes) : o.due[k] = FlashDue(o, k)
  BY <1>1, <1>2 DEF FlashTransaction
<1> QED BY <1>1, <1>2, <1>3, <1>4

(* What is programmed over what.                                            *)
LEMMA Anded == ASSUME NEW x \in Codes, NEW y \in Codes PROVE And(x, y) \in Codes
  BY DEF And, Codes

(* The first place of a page.                                               *)
LEMMA PageStart ==
  ASSUME NEW a \in Nat PROVE a \div PageSize \in Nat /\ (a \div PageSize) * PageSize \in Nat
<1>1. PageSize \in Nat \ {0}
  BY BusAssumption
<1>2. a \div PageSize \in Nat
  BY <1>1
<1> QED BY <1>1, <1>2

(* What a byte never changes: the wires and the shifter.                    *)
SameWires(f, g) ==
  f.sel = g.sel /\ f.clk = g.clk /\ f.loaded = g.loaded /\ f.driving = g.driving /\ f.shift = g.shift

(* An instruction.                                                          *)
LEMMA Instructed ==
  ASSUME NEW f \in Flashes, NEW byte
  PROVE  LET g == Instruction(f, byte) IN
         /\ g \in Flashes /\ SameWires(f, g) /\ g.image = f.image /\ g.have = f.have
         /\ g.phase = CASE byte = "Read" -> "Address" [] byte = "Status" -> "Status"
                        [] byte = "Jedec" -> "Jedec" [] byte = "Program" -> "ProgramAddress"
                        [] byte = "Erase" -> "EraseAddress" [] OTHER -> f.phase
         /\ g.at = IF byte = "Jedec" THEN 0 ELSE f.at
         /\ g.wel <=> CASE byte = "Enable" -> TRUE [] byte = "Disable" -> FALSE [] OTHER -> f.wel
<1>1. CASE byte = "Read"
  BY <1>1 DEF Instruction, Flashes, SameWires
<1>2. CASE byte = "Status"
  BY <1>2 DEF Instruction, Flashes, SameWires
<1>3. CASE byte = "Jedec"
  BY <1>3 DEF Instruction, Flashes, SameWires
<1>4. CASE byte = "Enable"
  BY <1>4 DEF Instruction, Flashes, SameWires
<1>5. CASE byte = "Disable"
  BY <1>5 DEF Instruction, Flashes, SameWires
<1>6. CASE byte = "Program"
  BY <1>6 DEF Instruction, Flashes, SameWires
<1>7. CASE byte = "Erase"
  BY <1>7 DEF Instruction, Flashes, SameWires
<1>8. CASE byte \notin {"Read", "Status", "Jedec", "Enable", "Disable", "Program", "Erase"}
  BY <1>8 DEF Instruction, Flashes, SameWires
<1> QED BY <1>1, <1>2, <1>3, <1>4, <1>5, <1>6, <1>7, <1>8

(* A page erased.                                                           *)
LEMMA ErasedArray ==
  ASSUME NEW f \in Flashes, NEW at
  PROVE  LET g == Erased(f, at) IN
         /\ g \in Flashes /\ SameWires(f, g) /\ g.have = f.have /\ g.phase = f.phase /\ g.at = f.at
         /\ ~g.wel
         /\ g.image = [a \in DOMAIN f.image |->
                         IF a \div PageSize = at \div PageSize THEN FF ELSE f.image[a]]
<1> DEFINE image == [a \in DOMAIN f.image |->
                       IF a \div PageSize = at \div PageSize THEN FF ELSE f.image[a]]
           g == Erased(f, at)
<1>1. f.image \in Arrays
  BY DEF Flashes
<1>2. FF \in Codes
  BY DEF FF, Codes
<1>3. image \in Arrays
  BY <1>1, <1>2 DEF Arrays
<1>4. g = [f EXCEPT !.image = image, !.wel = FALSE]
  BY DEF Erased
<1> HIDE DEF g, image
<1>5. g \in Flashes
  BY <1>3, <1>4 DEF Flashes
<1>6. SameWires(f, g) /\ g.have = f.have /\ g.phase = f.phase /\ g.at = f.at
  BY <1>4 DEF Flashes, SameWires
<1>7. g.wel = FALSE /\ g.image = image
  BY <1>4 DEF Flashes
<1> QED BY <1>5, <1>6, <1>7 DEF g, image

(* The last byte of an address.                                             *)
LEMMA AddressDone ==
  ASSUME NEW f \in Flashes, f.phase \in {"Address", "ProgramAddress", "EraseAddress"}
  PROVE  LET g == AddressTaken(f) IN
         /\ g \in Flashes /\ SameWires(f, g) /\ g.at = f.at /\ g.have = 0
         /\ g.phase = CASE f.phase = "Address" -> "Reading"
                        [] f.phase = "ProgramAddress" -> "Programming" [] OTHER -> "Command"
         /\ g.wel <=> (f.wel /\ f.phase # "EraseAddress")
         /\ g.image = IF f.phase = "EraseAddress" /\ f.wel
                      THEN [a \in DOMAIN f.image |->
                              IF a \div PageSize = f.at \div PageSize THEN FF ELSE f.image[a]]
                      ELSE f.image
<1>1. CASE f.phase = "Address"
  BY <1>1 DEF AddressTaken, Flashes, SameWires
<1>2. CASE f.phase = "ProgramAddress"
  BY <1>2 DEF AddressTaken, Flashes, SameWires
<1>3. CASE f.phase = "EraseAddress" /\ ~f.wel
  BY <1>3 DEF AddressTaken, Flashes, SameWires
<1>4. CASE f.phase = "EraseAddress" /\ f.wel
  <2> DEFINE e == Erased(f, f.at)
  <2>1. AddressTaken(f) = [e EXCEPT !.phase = "Command", !.have = 0]
    BY <1>4 DEF AddressTaken
  <2>2. /\ e \in Flashes /\ SameWires(f, e) /\ e.at = f.at /\ ~e.wel
        /\ e.image = [a \in DOMAIN f.image |->
                        IF a \div PageSize = f.at \div PageSize THEN FF ELSE f.image[a]]
    BY ErasedArray
  <2> DEFINE g == AddressTaken(f)
  <2> HIDE DEF e, g
  <2>3. g = [e EXCEPT !.phase = "Command", !.have = 0]
    BY <2>1 DEF g
  <2>4. g \in Flashes
    BY <2>2, <2>3 DEF Flashes
  <2>5. SameWires(e, g) /\ g.at = e.at /\ g.wel = e.wel /\ g.image = e.image
    BY <2>2, <2>3 DEF Flashes, SameWires
  <2>6. g.phase = "Command" /\ g.have = 0
    BY <2>2, <2>3 DEF Flashes
  <2>7. SameWires(f, g)
    BY <2>2, <2>5 DEF SameWires
  <2> QED BY <1>4, <2>2, <2>4, <2>5, <2>6, <2>7 DEF g
<1> QED BY <1>1, <1>2, <1>3, <1>4

(* A byte of an address.                                                    *)
LEMMA AddressByte ==
  ASSUME NEW f \in Flashes, NEW byte, f.have + 1 <= AddressBytes,
         f.phase \in {"Address", "ProgramAddress", "EraseAddress"}
  PROVE  LET g == FlashConsumes(f, byte)
             last == f.have + 1 = AddressBytes
         IN
         /\ g \in Flashes /\ SameWires(f, g) /\ g.at = AddressOf(byte)
         /\ g.have = IF last THEN 0 ELSE f.have + 1
         /\ g.phase = CASE last /\ f.phase = "Address" -> "Reading"
                        [] last /\ f.phase = "ProgramAddress" -> "Programming"
                        [] last /\ f.phase = "EraseAddress" -> "Command"
                        [] OTHER -> f.phase
         /\ g.wel <=> (f.wel /\ ~(last /\ f.phase = "EraseAddress"))
         /\ g.image = IF last /\ f.phase = "EraseAddress" /\ f.wel
                      THEN [a \in DOMAIN f.image |->
                              IF a \div PageSize = AddressOf(byte) \div PageSize THEN FF
                              ELSE f.image[a]]
                      ELSE f.image
<1> DEFINE e == [f EXCEPT !.have = @ + 1, !.at = AddressOf(byte)]
           g == FlashConsumes(f, byte)
           last == f.have + 1 = AddressBytes
<1>1. g = IF e.have = AddressBytes THEN AddressTaken(e) ELSE e
  BY DEF FlashConsumes
<1>2. AddressOf(byte) \in Nat /\ f.have + 1 \in Nat
  BY Addressed DEF Flashes
<1>3. e \in Flashes
  BY <1>2 DEF Flashes
<1>4. SameWires(f, e) /\ e.at = AddressOf(byte) /\ e.have = f.have + 1
  BY DEF Flashes, SameWires
<1>5. e.phase = f.phase /\ e.wel = f.wel /\ e.image = f.image
  BY DEF Flashes
<1> HIDE DEF e, g
<1>6. CASE ~last
  <2>1. g = e
    BY <1>1, <1>4, <1>6
  <2>2. /\ g.phase = f.phase /\ (g.wel <=> f.wel) /\ g.image = f.image /\ g.have = f.have + 1
        /\ g.at = AddressOf(byte) /\ g \in Flashes /\ SameWires(f, g)
    BY <1>3, <1>4, <1>5, <2>1
  <2> HIDE DEF last
  <2> QED BY <1>6, <2>2 DEF g, last
<1>7. CASE last
  <2>1. g = AddressTaken(e)
    BY <1>1, <1>4, <1>7
  <2> DEFINE h == AddressTaken(e)
  <2>2. /\ h \in Flashes /\ SameWires(e, h) /\ h.at = e.at /\ h.have = 0
        /\ h.phase = CASE e.phase = "Address" -> "Reading"
                       [] e.phase = "ProgramAddress" -> "Programming" [] OTHER -> "Command"
        /\ h.wel <=> (e.wel /\ e.phase # "EraseAddress")
        /\ h.image = IF e.phase = "EraseAddress" /\ e.wel
                     THEN [a \in DOMAIN e.image |->
                             IF a \div PageSize = e.at \div PageSize THEN FF ELSE e.image[a]]
                     ELSE e.image
    BY <1>3, <1>5, AddressDone
  <2> HIDE DEF h
  <2>3. SameWires(f, h)
    BY <1>4, <2>2 DEF SameWires
  <2>4. g = h
    BY <2>1 DEF h
  <2>5. h.phase = CASE f.phase = "Address" -> "Reading"
                    [] f.phase = "ProgramAddress" -> "Programming" [] OTHER -> "Command"
    BY <1>5, <2>2
  <2>6. h.wel <=> (f.wel /\ f.phase # "EraseAddress")
    BY <1>5, <2>2
  <2>7. h.image = IF f.phase = "EraseAddress" /\ f.wel
                  THEN [a \in DOMAIN f.image |->
                          IF a \div PageSize = AddressOf(byte) \div PageSize THEN FF
                          ELSE f.image[a]]
                  ELSE f.image
    BY <1>4, <1>5, <2>2
  <2> HIDE DEF last
  <2> QED BY <1>4, <1>7, <2>2, <2>3, <2>4, <2>5, <2>6, <2>7 DEF g, last
<1> QED BY <1>6, <1>7

(* A byte of data, and the next place of its page.                          *)
LEMMA DataByte ==
  ASSUME NEW f \in Flashes, NEW byte \in Codes, f.phase = "Programming"
  PROVE  LET g == FlashConsumes(f, byte) IN
         /\ g \in Flashes /\ SameWires(f, g) /\ g.have = f.have /\ g.phase = f.phase
         /\ g.wel = f.wel
         /\ g.at = IF ~f.wel THEN f.at
                   ELSE IF (f.at + 1) \div PageSize # f.at \div PageSize
                        THEN (f.at \div PageSize) * PageSize ELSE f.at + 1
         /\ g.image = IF ~f.wel THEN f.image
                      ELSE [a \in DOMAIN f.image |->
                              IF a = f.at THEN And(f.image[a], byte) ELSE f.image[a]]
<1> DEFINE g == FlashConsumes(f, byte)
           at == IF (f.at + 1) \div PageSize # f.at \div PageSize
                 THEN (f.at \div PageSize) * PageSize ELSE f.at + 1
           image == [a \in DOMAIN f.image |->
                       IF a = f.at THEN And(f.image[a], byte) ELSE f.image[a]]
<1>1. g = IF ~f.wel THEN f ELSE [f EXCEPT !.image = image, !.at = at]
  BY DEF FlashConsumes, Programmed
<1>2. f.at \in Nat /\ f.image \in Arrays
  BY DEF Flashes
<1>3. at \in Nat
  <2>1. (f.at \div PageSize) * PageSize \in Nat
    BY <1>2, PageStart
  <2> QED BY <1>2, <2>1
<1>4. image \in Arrays
  <2>1. \A a \in 0..Cells - 1 : And(f.image[a], byte) \in Codes
    BY <1>2, Anded DEF Arrays
  <2> QED BY <1>2, <2>1 DEF Arrays
<1> HIDE DEF at, image, g
<1>5. CASE ~f.wel
  BY <1>1, <1>5 DEF g, SameWires
<1>6. CASE f.wel
  <2>1. g = [f EXCEPT !.image = image, !.at = at]
    BY <1>1, <1>6
  <2>2. g \in Flashes
    BY <1>3, <1>4, <2>1 DEF Flashes
  <2>3. SameWires(f, g) /\ g.have = f.have /\ g.phase = f.phase /\ g.wel = f.wel
    BY <2>1 DEF Flashes, SameWires
  <2>4. g.at = at /\ g.image = image
    BY <2>1 DEF Flashes
  <2> QED BY <1>6, <2>2, <2>3, <2>4 DEF g, at, image
<1> QED BY <1>5, <1>6

(* A byte that says nothing to the part.                                    *)
LEMMA IdleByte ==
  ASSUME NEW f \in Flashes, NEW byte, f.phase \in {"Reading", "Status", "Jedec"}
  PROVE  FlashConsumes(f, byte) = f
  BY DEF FlashConsumes

(* A quotient and its remainder.                                            *)
LEMMA Divided ==
  ASSUME NEW v \in Int, NEW p \in Nat \ {0}, NEW q \in Int, NEW r \in 0..p - 1, v = q * p + r
  PROVE  v \div p = q /\ v % p = r
<1>1. q * p <= v /\ v < q * p + p
  OBVIOUS
<1>2. v \div p = q
  BY <1>1
<1>3. v = (v \div p) * p + (v % p)
  OBVIOUS
<1>4. v = q * p + (v % p)
  BY <1>2, <1>3
<1>5. q * p \in Int /\ v % p \in Int
  OBVIOUS
<1> QED BY <1>2, <1>4, <1>5

(* The places of a program, one after another, in closed form.              *)
LEMMA NextInPage ==
  ASSUME NEW a \in Nat, NEW n \in Nat, NEW at \in Nat, at = InPage(a, n)
  PROVE  InPage(a, n + 1) = IF (at + 1) \div PageSize # at \div PageSize
                            THEN (at \div PageSize) * PageSize ELSE at + 1
<1> DEFINE q == a \div PageSize
           r == (a + n) % PageSize
<1>1. PageSize \in Nat \ {0}
  BY BusAssumption
<1>2. q \in Nat /\ r \in 0..PageSize - 1
  BY <1>1
<1>3. at = q * PageSize + r
  BY DEF InPage
<1>4. (a + (n + 1)) % PageSize = IF r + 1 = PageSize THEN 0 ELSE r + 1
  <2> DEFINE m == (a + n) \div PageSize
             v == a + (n + 1)
  <2>1. m \in Int /\ a + n = m * PageSize + r
    BY <1>1
  <2>2. v \in Int /\ v = m * PageSize + r + 1
    BY <1>1, <2>1
  <2> HIDE DEF m, v, r
  <2>3. CASE r + 1 = PageSize
    <3>1. v = (m + 1) * PageSize + 0
      BY <1>1, <1>2, <2>1, <2>2, <2>3
    <3>2. 0 \in 0..PageSize - 1 /\ m + 1 \in Int
      BY <1>1, <2>1
    <3>3. v % PageSize = 0
      BY <1>1, <2>2, <3>1, <3>2, Divided
    <3> QED BY <2>3, <3>3 DEF v
  <2>4. CASE r + 1 # PageSize
    <3>1. v = m * PageSize + (r + 1) /\ r + 1 \in 0..PageSize - 1
      BY <1>1, <1>2, <2>1, <2>2, <2>4
    <3> QED BY ZenonT(40), <1>1, <2>1, <2>2, <2>4, <3>1, Divided DEF v
  <2> QED BY <2>3, <2>4
<1> HIDE DEF q, r
<1>5. at \div PageSize = q
  BY <1>1, <1>2, <1>3
<1>6. CASE r + 1 = PageSize
  <2>1. at + 1 = (q + 1) * PageSize
    BY <1>1, <1>2, <1>3, <1>6
  <2>2. (at + 1) \div PageSize = q + 1
    BY <1>1, <1>2, <2>1
  <2>3. InPage(a, n + 1) = q * PageSize
    BY <1>1, <1>2, <1>4, <1>6 DEF InPage, q
  <2> QED BY <1>2, <1>5, <2>2, <2>3
<1>7. CASE r + 1 # PageSize
  <2>1. at + 1 = q * PageSize + (r + 1) /\ r + 1 \in 0..PageSize - 1
    BY <1>1, <1>2, <1>3, <1>7
  <2>2. (at + 1) \div PageSize = q
    BY <1>1, <1>2, <2>1
  <2>3. InPage(a, n + 1) = q * PageSize + (r + 1)
    BY <1>4, <1>7 DEF InPage, q
  <2> QED BY <1>5, <2>1, <2>2, <2>3
<1> QED BY <1>6, <1>7

(* And the first.                                                           *)
LEMMA FirstInPage == ASSUME NEW a \in Nat PROVE InPage(a, 0) = a
<1>1. PageSize \in Nat \ {0}
  BY BusAssumption
<1>2. (a \div PageSize) * PageSize + (a % PageSize) = a
  BY <1>1
<1> QED BY <1>2 DEF InPage

(* A byte of a transaction: what it does to the write enable and the array. *)
Granted(o, k, wel) ==
  CASE o.kind = "Enable" /\ k = 0 -> TRUE
    [] o.kind = "Disable" /\ k = 0 -> FALSE
    [] o.kind = "Erase" /\ k = AddressBytes -> FALSE
    [] OTHER -> wel
Stored(o, k, f) ==
  CASE o.kind = "Program" /\ k > AddressBytes /\ f.wel ->
         [a \in DOMAIN f.image |-> IF a = InPage(Target(o), k - AddressBytes - 1)
                                   THEN And(f.image[a], o.bytes[k + 1]) ELSE f.image[a]]
    [] o.kind = "Erase" /\ k = AddressBytes /\ f.wel ->
         [a \in DOMAIN f.image |-> IF a \div PageSize = Target(o) \div PageSize
                                   THEN FF ELSE f.image[a]]
    [] OTHER -> f.image

Takes(o, k, f, h) ==
  /\ h \in Flashes /\ SameWires(f, h) /\ FlashSpot(o, k + 1, h, 0)
  /\ h.wel <=> Granted(o, k, f.wel)
  /\ h.image = Stored(o, k, f)

(* The kinds of a transaction, and how long some of them are.               *)
LEMMA FlashKinds ==
  ASSUME NEW o \in Ops, o.dev = "flash"
  PROVE  /\ o.kind \in {"Enable", "Disable", "Status", "Jedec", "Read", "Program", "Erase"}
         /\ o.bytes[1] = o.kind
         /\ o.kind \in {"Enable", "Disable"} => Len(o.bytes) = 1
         /\ o.kind = "Erase" => Len(o.bytes) <= AddressBytes + 1
  BY FlashSpoken DEF FlashTransaction

(* The widths as numbers.                                                   *)
LEMMA Widths ==
  /\ W \in Nat /\ W >= 2 /\ AddressBytes \in Nat /\ AddressBytes >= 1
  /\ FrameBytes \in Nat /\ FrameBytes >= 2 /\ BlockBytes \in Nat /\ BlockBytes >= 1
  /\ CrcBytes \in Nat /\ CrcBytes >= 1 /\ BlockCount \in Nat /\ Cells \in Nat
  BY BusAssumption

(* The first byte of a transaction is its instruction.                      *)
LEMMA TakesInstruction ==
  ASSUME NEW o \in Ops, o.dev = "flash", NEW f \in Flashes, FlashSpot(o, 0, f, 1)
  PROVE  Takes(o, 0, f, FlashConsumes(f, o.bytes[1]))
<1> DEFINE h == FlashConsumes(f, o.bytes[1])
           byte == o.kind
<1>1. FlashPhase(o, 0) = "Command"
  BY Widths DEF FlashPhase
<1>2. f.phase = "Command" /\ f.have = 0 /\ o.bytes[1] = byte
  BY <1>1, FlashKinds DEF FlashSpot
<1>3. h = Instruction(f, byte)
  BY <1>2 DEF FlashConsumes
<1> HIDE DEF h
<1>4. /\ h \in Flashes /\ SameWires(f, h) /\ h.image = f.image /\ h.have = 0
      /\ h.phase = CASE byte = "Read" -> "Address" [] byte = "Status" -> "Status"
                     [] byte = "Jedec" -> "Jedec" [] byte = "Program" -> "ProgramAddress"
                     [] byte = "Erase" -> "EraseAddress" [] OTHER -> "Command"
      /\ h.at = IF byte = "Jedec" THEN 0 ELSE f.at
      /\ h.wel <=> CASE byte = "Enable" -> TRUE [] byte = "Disable" -> FALSE [] OTHER -> f.wel
  <2> DEFINE i == Instruction(f, byte)
  <2>1. i \in Flashes /\ SameWires(f, i) /\ i.image = f.image /\ i.have = f.have
    BY Instructed
  <2>2. i.phase = CASE byte = "Read" -> "Address" [] byte = "Status" -> "Status"
                     [] byte = "Jedec" -> "Jedec" [] byte = "Program" -> "ProgramAddress"
                     [] byte = "Erase" -> "EraseAddress" [] OTHER -> f.phase
    BY Instructed
  <2>3. i.at = IF byte = "Jedec" THEN 0 ELSE f.at
    BY Instructed
  <2>4. i.wel <=> CASE byte = "Enable" -> TRUE [] byte = "Disable" -> FALSE [] OTHER -> f.wel
    BY Instructed
  <2> HIDE DEF i
  <2> QED BY <1>2, <1>3, <2>1, <2>2, <2>3, <2>4 DEF i
<1>5. h.phase = FlashPhase(o, 1)
  BY <1>4, Widths, FlashKinds DEF FlashPhase
<1>6. FlashSpot(o, 0 + 1, h, 0)
  BY <1>4, <1>5, Widths DEF FlashSpot
<1>7. h.wel <=> Granted(o, 0, f.wel)
  BY <1>4, Widths DEF Granted
<1>8. h.image = Stored(o, 0, f)
  BY <1>4, Widths DEF Stored
<1> QED BY <1>4, <1>6, <1>7, <1>8 DEF Takes, h

(* The bytes of an address.                                                 *)
LEMMA TakesAddress ==
  ASSUME NEW o \in Ops, o.dev = "flash", NEW f \in Flashes, NEW k \in 1..AddressBytes,
         FlashSpot(o, k, f, 1), o.kind \in {"Read", "Program", "Erase"}
  PROVE  Takes(o, k, f, FlashConsumes(f, o.bytes[k + 1]))
<1> DEFINE byte == o.bytes[k + 1]
           h == FlashConsumes(f, byte)
           last == f.have + 1 = AddressBytes
<1>1. f.have = k - 1 /\ f.phase = FlashPhase(o, k)
  BY Widths DEF FlashSpot
<1>2. f.phase = CASE o.kind = "Read" -> "Address" [] o.kind = "Program" -> "ProgramAddress"
                  [] OTHER -> "EraseAddress"
  BY <1>1, Widths DEF FlashPhase
<1>3. last <=> k = AddressBytes
  BY <1>1, Widths
<1>4. k = AddressBytes => AddressOf(byte) = Target(o)
  BY DEF Target
<1>5. f.have + 1 <= AddressBytes /\ f.phase \in {"Address", "ProgramAddress", "EraseAddress"}
  BY <1>1, <1>2, Widths
<1>6. /\ h \in Flashes /\ SameWires(f, h) /\ h.at = AddressOf(byte)
      /\ h.have = IF last THEN 0 ELSE f.have + 1
      /\ h.phase = CASE last /\ f.phase = "Address" -> "Reading"
                     [] last /\ f.phase = "ProgramAddress" -> "Programming"
                     [] last /\ f.phase = "EraseAddress" -> "Command"
                     [] OTHER -> f.phase
      /\ h.wel <=> (f.wel /\ ~(last /\ f.phase = "EraseAddress"))
      /\ h.image = IF last /\ f.phase = "EraseAddress" /\ f.wel
                   THEN [a \in DOMAIN f.image |->
                           IF a \div PageSize = AddressOf(byte) \div PageSize THEN FF
                           ELSE f.image[a]]
                   ELSE f.image
  BY <1>5, AddressByte
<1> HIDE DEF h, last
<1>7. h.phase = FlashPhase(o, k + 1)
  BY <1>2, <1>3, <1>6, Widths DEF FlashPhase
<1>8. k + 1 <= AddressBytes => h.have = k
  BY <1>1, <1>3, <1>6, Widths
<1>9. k + 1 > AddressBytes => h.at = Target(o)
  BY <1>4, <1>6, Widths
<1>10. Target(o) \in Nat
  BY Addressed DEF Target
<1>11. k = AddressBytes => InPage(Target(o), (k + 1) - AddressBytes - 1) = Target(o)
  <2>1. k = AddressBytes => (k + 1) - AddressBytes - 1 = 0
    BY Widths
  <2> QED BY <2>1, <1>10, FirstInPage
<1>12. FlashSpot(o, k + 1, h, 0)
  <2>1. k + 1 > AddressBytes => k = AddressBytes
    BY Widths
  <2>2. k + 1 > AddressBytes => Target(o) + (k + 1) - AddressBytes - 1 + 0 = Target(o)
    BY <2>1, <1>10, Widths
  <2> HIDE DEF byte
  <2> QED BY <1>7, <1>8, <1>9, <1>11, <2>1, <2>2, Widths DEF FlashSpot
<1>13. h.wel <=> Granted(o, k, f.wel)
  BY <1>2, <1>3, <1>6 DEF Granted
<1>14. h.image = Stored(o, k, f)
  <2>1. CASE o.kind = "Erase" /\ k = AddressBytes /\ f.wel
    BY <2>1, <1>2, <1>3, <1>4, <1>6 DEF Stored
  <2>2. CASE ~(o.kind = "Erase" /\ k = AddressBytes /\ f.wel)
    <3>1. h.image = f.image
      BY <2>2, <1>2, <1>3, <1>6
    <3> QED BY <2>2, <3>1, Widths DEF Stored
  <2> QED BY <2>1, <2>2
<1> QED BY <1>6, <1>12, <1>13, <1>14 DEF Takes, h

(* The bytes after an address, or after an instruction that has none.       *)
LEMMA TakesMore ==
  ASSUME NEW o \in Ops, o.dev = "flash", NEW f \in Flashes, NEW k \in Nat, k >= 1,
         k + 1 <= Len(o.bytes), FlashSpot(o, k, f, 1),
         o.kind \in {"Read", "Program", "Erase"} => k > AddressBytes
  PROVE  Takes(o, k, f, FlashConsumes(f, o.bytes[k + 1]))
<1> DEFINE byte == o.bytes[k + 1]
           h == FlashConsumes(f, byte)
<1>1. o.kind \in {"Status", "Jedec", "Read", "Program"}
  BY FlashKinds, FlashSpoken, Widths
<1>2. f.phase = FlashPhase(o, k)
  BY DEF FlashSpot
<1>3. CASE o.kind # "Program"
  <2>1. f.phase \in {"Reading", "Status", "Jedec"}
    BY <1>1, <1>2, <1>3, Widths DEF FlashPhase
  <2>2. h = f
    BY <2>1, IdleByte
  <2>3. FlashPhase(o, k + 1) = FlashPhase(o, k)
    BY <1>1, <1>3, Widths DEF FlashPhase
  <2>4. f.at \in Nat /\ Target(o) \in Nat
    BY Addressed DEF Flashes, Target
  <2>5. FlashSpot(o, k + 1, f, 0)
    BY <1>1, <1>3, <2>3, <2>4, Widths DEF FlashSpot
  <2> QED BY <1>1, <1>3, <2>2, <2>5, Widths DEF Takes, SameWires, Granted, Stored
<1>4. CASE o.kind = "Program"
  <2>1. f.phase = "Programming" /\ FlashPhase(o, k + 1) = "Programming"
    BY <1>2, <1>4, Widths DEF FlashPhase
  <2>2. byte \in Codes
    BY FlashSpoken
  <2>3. /\ h \in Flashes /\ SameWires(f, h) /\ h.have = f.have /\ h.phase = f.phase
        /\ h.wel = f.wel
        /\ h.at = IF ~f.wel THEN f.at
                  ELSE IF (f.at + 1) \div PageSize # f.at \div PageSize
                       THEN (f.at \div PageSize) * PageSize ELSE f.at + 1
        /\ h.image = IF ~f.wel THEN f.image
                     ELSE [a \in DOMAIN f.image |->
                             IF a = f.at THEN And(f.image[a], byte) ELSE f.image[a]]
    BY <2>1, <2>2, DataByte
  <2> HIDE DEF h
  <2> DEFINE n == k - AddressBytes - 1
  <2>4. n \in Nat /\ Target(o) \in Nat /\ f.at \in Nat /\ (k + 1) - AddressBytes - 1 = n + 1
    BY SMTT(30), <1>4, Addressed, Widths DEF Flashes, Target
  <2>5. f.wel => f.at = InPage(Target(o), n)
    BY <1>4 DEF FlashSpot
  <2> HIDE DEF n
  <2>6. f.wel => h.at = InPage(Target(o), n + 1)
    BY <2>3, <2>4, <2>5, NextInPage
  <2>7. FlashSpot(o, k + 1, h, 0)
    BY <1>4, <2>1, <2>3, <2>4, <2>6, Widths DEF FlashSpot
  <2>8. h.image = Stored(o, k, f)
    BY <1>4, <2>3, <2>5 DEF Stored, n
  <2> QED BY <1>4, <2>3, <2>7, <2>8 DEF Takes, Granted, h
<1> QED BY <1>3, <1>4

(* Any byte of a transaction.                                               *)
LEMMA TakesByte ==
  ASSUME NEW o \in Ops, o.dev = "flash", NEW f \in Flashes, NEW k \in Nat,
         k < Len(o.bytes), FlashSpot(o, k, f, 1)
  PROVE  Takes(o, k, f, FlashConsumes(f, o.bytes[k + 1]))
<1>1. CASE k = 0
  BY <1>1, TakesInstruction
<1>2. CASE k \in 1..AddressBytes /\ o.kind \in {"Read", "Program", "Erase"}
  BY <1>2, TakesAddress
<1>3. CASE k >= 1 /\ ~(k \in 1..AddressBytes /\ o.kind \in {"Read", "Program", "Erase"})
  <2>1. k + 1 <= Len(o.bytes)
    BY FlashSpoken
  <2> QED BY <1>3, <2>1, TakesMore, Widths
<1> QED BY <1>1, <1>2, <1>3

(* What the flash has to say at byte k of a transaction, if anything.       *)
Spoke(o, k, f) ==
  CASE o.kind = "Status" -> IF f.wel THEN "Wel" ELSE "00"
    [] o.kind = "Jedec" -> IF k <= Len(JedecId) THEN JedecId[k] ELSE "00"
    [] OTHER -> LET a == Target(o) + k - AddressBytes - 1
                IN IF a < Cells THEN f.image[a] ELSE FF

(* The three bytes of the identity.                                         *)
LEMMA Identity ==
  Len(JedecId) = 3 /\ JedecId[1] \in Codes /\ JedecId[2] \in Codes /\ JedecId[3] \in Codes
  BY DEF JedecId, Codes

(* The byte a part sends next is a byte.                                    *)
LEMMA NextIsByte == ASSUME NEW f \in Flashes PROVE NextByte(f) \in Codes
<1>1. f.at \in Nat /\ f.image \in Arrays
  BY DEF Flashes
<1>2. FF \in Codes /\ "Wel" \in Codes /\ "00" \in Codes
  BY DEF FF, Codes
<1>3. CASE f.phase = "Status"
  BY <1>2, <1>3 DEF NextByte
<1>4. CASE f.phase = "Jedec"
  <2>1. f.at < 3 => f.at = 0 \/ f.at = 1 \/ f.at = 2
    BY <1>1
  <2>2. f.at < 3 => JedecId[f.at + 1] \in Codes
    BY <2>1, Identity
  <2> QED BY <1>2, <1>4, <2>2, Identity DEF NextByte
<1>5. CASE f.phase = "Reading"
  <2>1. f.at < Cells => f.image[f.at] \in Codes
    BY <1>1, Widths DEF Arrays
  <2> QED BY <1>2, <1>5, <2>1 DEF NextByte
<1>6. CASE f.phase \notin {"Status", "Jedec", "Reading"}
  BY <1>2, <1>6 DEF NextByte
<1> QED BY <1>3, <1>4, <1>5, <1>6

(* Which phases a transaction speaks in.                                    *)
LEMMA SpeakingPhases ==
  ASSUME NEW o \in Ops, o.dev = "flash", NEW k \in Nat, k >= 1
  PROVE  /\ FlashPhase(o, k) = "Status" <=> o.kind = "Status"
         /\ FlashPhase(o, k) = "Jedec" <=> o.kind = "Jedec"
         /\ FlashPhase(o, k) = "Reading" <=> (o.kind = "Read" /\ k > AddressBytes)
  BY FlashKinds, Widths DEF FlashPhase

(* The place a part moves on to as it puts a byte in its shifter.           *)
LEMMA MovesOn ==
  ASSUME NEW o \in Ops, o.dev = "flash", NEW h \in Flashes, NEW k \in Nat, k >= 1,
         FlashSpot(o, k, h, 0)
  PROVE  /\ Onward(h) \in Flashes /\ SameWires(h, Onward(h)) /\ FlashSpot(o, k, Onward(h), 1)
         /\ Onward(h).wel = h.wel /\ Onward(h).image = h.image /\ Onward(h).phase = h.phase
<1>1. h.phase = FlashPhase(o, k)
  BY DEF FlashSpot
<1>2. h.at \in Nat /\ Target(o) \in Nat
  BY Addressed DEF Flashes, Target
<1>3. CASE h.phase \in {"Jedec", "Reading"}
  <2> DEFINE g == Onward(h)
  <2>1. g = [h EXCEPT !.at = @ + 1]
    BY <1>3 DEF Onward
  <2> HIDE DEF g
  <2>2. g \in Flashes
    BY <1>2, <2>1 DEF Flashes
  <2>3. /\ SameWires(h, g) /\ g.wel = h.wel /\ g.image = h.image /\ g.phase = h.phase
        /\ g.have = h.have /\ g.at = h.at + 1
    BY <2>1 DEF Flashes, SameWires
  <2>4. (o.kind = "Jedec") \/ (o.kind = "Read" /\ k > AddressBytes)
    BY <1>1, <1>3, SpeakingPhases
  <2>5. FlashSpot(o, k, g, 1)
    <3>1. CASE o.kind = "Jedec"
      BY <1>2, <2>3, <3>1 DEF FlashSpot
    <3>2. CASE o.kind = "Read" /\ k > AddressBytes
      BY <1>2, <2>3, <3>2, Widths DEF FlashSpot
    <3> QED BY <2>4, <3>1, <3>2
  <2> QED BY <2>2, <2>3, <2>5 DEF g
<1>4. CASE h.phase \notin {"Jedec", "Reading"}
  <2>1. Onward(h) = h
    BY <1>4 DEF Onward
  <2>2. o.kind # "Jedec" /\ ~(o.kind = "Read" /\ k > AddressBytes)
    BY <1>1, <1>4, SpeakingPhases
  <2>3. FlashSpot(o, k, h, 1)
    BY <2>2 DEF FlashSpot
  <2> QED BY <2>1, <2>3 DEF SameWires
<1> QED BY <1>3, <1>4

(* The last bit of a byte, and all that follows from it.                    *)
LEMMA FlashTakesByte ==
  ASSUME NEW o \in Ops, o.dev = "flash", NEW f \in Flashes, NEW k \in Nat, k < Len(o.bytes),
         FlashSpot(o, k, f, 1), f.sel, ~f.clk, f.shift.shown = f.shift.count,
         f.shift.count + 1 = W, f.shift.whole, NEW di,
         di.byte = o.bytes[k + 1], di.at = W - 1
  PROVE  LET g == FlashClock(f, TRUE, di) IN
         /\ g \in Flashes /\ g.sel /\ g.clk /\ (g.driving <=> f.loaded)
         /\ g.shift.count = 0 /\ g.shift.shown = 0 /\ g.shift.whole
         /\ g.shift.dout = <<f.shift.out, W - 1>>
         /\ FlashSpot(o, k + 1, g, 1) /\ (g.loaded <=> Outputs(g.phase))
         /\ g.wel <=> Granted(o, k, f.wel)
         /\ g.image = Stored(o, k, f)
         /\ g.loaded => g.shift.out = Spoke(o, k + 1, g)
<1> DEFINE s == Rise(f.shift, di)
           e == [f EXCEPT !.clk = TRUE, !.shift = s, !.driving = f.loaded]
           h == Fed(f, di)
           g == FlashClock(f, TRUE, di)
<1>1. g = [Onward(h) EXCEPT !.loaded = Outputs(h.phase), !.shift.out = NextByte(h)]
  BY FlashByte
<1>2. f.shift \in Shifters
  BY DEF Flashes
<1>3. f.shift.count = W - 1 /\ di.at = W - 1 /\ di.byte = o.bytes[k + 1]
  BY <1>2, Widths DEF Shifters
<1>4. s \in Shifters /\ s.count = 0 /\ s.shown = 0 /\ s.whole /\ s.dout = <<f.shift.out, W - 1>>
  <2>1. /\ s \in Shifters /\ s.count = 0 /\ s.shown = s.count
        /\ s.dout = <<f.shift.out, f.shift.count>>
    BY ZenonT(40), <1>2, <1>3, Risen
  <2>2. s.whole <=> ((f.shift.whole \/ f.shift.count = 0) /\ di.at = f.shift.count)
    BY <1>2, Risen
  <2> HIDE DEF s
  <2> QED BY <1>3, <2>1, <2>2
<1>5. Taken(s, di) = o.bytes[k + 1]
  BY <1>3, <1>4 DEF Taken
<1> HIDE DEF s
<1>6. e \in Flashes
  BY <1>4 DEF Flashes
<1>7. e.sel /\ e.clk /\ (e.driving <=> f.loaded) /\ e.shift = s
  BY DEF Flashes
<1>8. e.phase = f.phase /\ e.have = f.have /\ e.at = f.at /\ e.wel = f.wel /\ e.image = f.image
  BY DEF Flashes
<1> HIDE DEF e
<1>9. FlashSpot(o, k, e, 1)
  BY <1>8 DEF FlashSpot
<1>10. Takes(o, k, e, h)
  <2>1. h = FlashConsumes(e, Taken(s, di))
    BY DEF Fed, e, s
  <2>2. Takes(o, k, e, FlashConsumes(e, o.bytes[k + 1]))
    BY <1>6, <1>9, TakesByte
  <2> QED BY <1>5, <2>1, <2>2
<1> HIDE DEF h
<1> DEFINE j == Onward(h)
<1>11. /\ h \in Flashes /\ SameWires(e, h) /\ FlashSpot(o, k + 1, h, 0)
       /\ h.wel <=> Granted(o, k, e.wel)
       /\ h.image = Stored(o, k, e)
  BY <1>10 DEF Takes
<1>12. /\ j \in Flashes /\ SameWires(h, j) /\ FlashSpot(o, k + 1, j, 1)
       /\ j.wel = h.wel /\ j.image = h.image /\ j.phase = h.phase
  BY <1>11, MovesOn
<1> HIDE DEF j
<1> DEFINE loaded == Outputs(h.phase)
           soon == NextByte(h)
           t == [j.shift EXCEPT !.out = soon]
<1>13. loaded \in BOOLEAN /\ soon \in Codes
  BY <1>11, NextIsByte DEF Outputs
<1>14. g = [j EXCEPT !.loaded = loaded, !.shift = t]
  BY <1>1 DEF j
<1>15. j.shift = s
  BY <1>7, <1>11, <1>12 DEF SameWires
<1> HIDE DEF loaded, soon, g
<1>16. /\ t \in Shifters /\ t.count = 0 /\ t.shown = 0 /\ t.whole /\ t.out = soon
       /\ t.dout = <<f.shift.out, W - 1>>
  BY <1>4, <1>13, <1>15 DEF Shifters
<1> HIDE DEF t
<1>17. g \in Flashes
  BY <1>12, <1>13, <1>14, <1>16 DEF Flashes
<1>18. g.sel = j.sel /\ g.clk = j.clk /\ g.driving = j.driving /\ g.shift = t
  BY <1>12, <1>14 DEF Flashes
<1>19. g.phase = j.phase /\ g.have = j.have /\ g.at = j.at /\ g.wel = j.wel /\ g.image = j.image
  BY <1>12, <1>14 DEF Flashes
<1>20. g.loaded = loaded
  BY <1>12, <1>14 DEF Flashes
<1>21. g.sel /\ g.clk /\ (g.driving <=> f.loaded)
  BY <1>7, <1>11, <1>12, <1>18 DEF SameWires
<1>22. FlashSpot(o, k + 1, g, 1)
  BY <1>12, <1>19 DEF FlashSpot
<1>23. g.loaded <=> Outputs(g.phase)
  BY <1>12, <1>19, <1>20 DEF loaded
<1>24. g.wel <=> Granted(o, k, f.wel)
  BY <1>8, <1>11, <1>12, <1>19
<1>25. g.image = Stored(o, k, f)
  BY <1>8, <1>11, <1>12, <1>19 DEF Stored
<1>26. ASSUME g.loaded PROVE g.shift.out = Spoke(o, k + 1, g)
  <2>1. h.phase = FlashPhase(o, k + 1) /\ h.at \in Nat /\ g.shift.out = soon
    BY <1>11, <1>16, <1>18 DEF FlashSpot, Flashes
  <2>2. h.phase \in {"Reading", "Status", "Jedec"}
    BY <1>26, <1>20 DEF loaded, Outputs
  <2>3. CASE o.kind = "Status"
    <3>1. h.phase = "Status" /\ g.wel = h.wel
      BY <1>12, <1>19, <2>1, <2>3, SpeakingPhases
    <3> QED BY <2>1, <2>3, <3>1 DEF soon, NextByte, Spoke
  <2>4. CASE o.kind = "Jedec"
    <3>1. h.phase = "Jedec"
      BY <2>1, <2>4, SpeakingPhases
    <3>2. h.at = k
      BY <1>11, <2>4 DEF FlashSpot
    <3>3. k < 3 <=> k + 1 <= 3
      OBVIOUS
    <3> QED BY <2>1, <2>4, <3>1, <3>2, <3>3, Identity DEF soon, NextByte, Spoke
  <2>5. CASE o.kind = "Read" /\ k + 1 > AddressBytes
    <3>1. h.phase = "Reading" /\ h.image = g.image
      BY <1>12, <1>19, <2>1, <2>5, SpeakingPhases
    <3>2. h.at = Target(o) + (k + 1) - AddressBytes - 1
      <4>1. Target(o) \in Nat
        BY Addressed DEF Target
      <4> QED BY <1>11, <2>5, <4>1, Widths DEF FlashSpot
    <3> QED BY <2>1, <2>5, <3>1, <3>2 DEF soon, NextByte, Spoke
  <2> QED BY <2>1, <2>2, <2>3, <2>4, <2>5, SpeakingPhases
<1> QED BY <1>16, <1>17, <1>18, <1>21, <1>22, <1>23, <1>24, <1>25, <1>26 DEF g

-----------------------------------------------------------------------------
(* The card, edge by edge.                                                  *)

(* A select that does not move leaves the card alone.                       *)
LEMMA CardSelectStays ==
  ASSUME NEW w, NEW s, w.sel = s
  PROVE  CardSelect(w, s) = w
  BY DEF CardSelect

(* A byte's first bit, on the line or not.                                  *)
LEMMA Shown ==
  ASSUME NEW w \in Cards
  PROVE  /\ Present(w) \in Cards
         /\ Present(w) = [w EXCEPT !.dout = IF w.sel /\ w.driven THEN <<w.outByte, w.shown>>
                                            ELSE Released]
<1> DEFINE dout == IF w.sel /\ w.driven THEN <<w.outByte, w.shown>> ELSE Released
<1>1. dout \in Levels \cup {Released}
  BY Widths DEF Cards, Levels
<1>2. Present(w) = [w EXCEPT !.dout = dout]
  BY DEF Present
<1> HIDE DEF dout
<1>3. [w EXCEPT !.dout = dout] \in Cards
  BY <1>1 DEF Cards
<1> QED BY <1>2, <1>3 DEF dout

(* The protocol of a card that was released.                                *)
LEMMA Dropped ==
  ASSUME NEW c \in Protocols
  PROVE  LET d == Deselected(c) IN
         /\ d \in Protocols /\ d.phase = "Command" /\ d.frame = <<>> /\ d.out = <<>>
         /\ d.pending = NoBlock /\ d.multiWrite = NoBlock /\ d.multiRead = NoBlock
         /\ d.app = c.app /\ d.spi = c.spi /\ d.blocks = c.blocks
<1> DEFINE d == Deselected(c)
<1>1. d = [c EXCEPT !.phase = "Command", !.pending = NoBlock, !.multiWrite = NoBlock,
                    !.multiRead = NoBlock, !.incoming = <<>>, !.frame = <<>>, !.out = <<>>]
  BY DEF Deselected
<1> HIDE DEF d
<1>2. <<>> \in Seq(Codes)
  OBVIOUS
<1>3. d \in Protocols
  BY <1>1, <1>2 DEF Protocols
<1>4. d.phase = "Command" /\ d.frame = <<>> /\ d.out = <<>> /\ d.pending = NoBlock
  BY <1>1 DEF Protocols
<1>5. d.multiWrite = NoBlock /\ d.multiRead = NoBlock
  BY <1>1 DEF Protocols
<1>6. d.app = c.app /\ d.spi = c.spi /\ d.blocks = c.blocks
  BY <1>1 DEF Protocols
<1> QED BY <1>3, <1>4, <1>5, <1>6 DEF d

(* A select that moves starts the byte over; released, the card drops what   *)
(* it was about.                                                            *)
LEMMA CardSelectMoves ==
  ASSUME NEW w \in Cards, NEW s \in BOOLEAN, w.sel # s
  PROVE  LET x == CardSelect(w, s) IN
         /\ x \in Cards /\ x.sel = s /\ x.clk = w.clk /\ x.driven = w.driven
         /\ x.count = 0 /\ x.shown = 0 /\ x.whole = TRUE /\ x.outByte = FF
         /\ x.dout = IF s /\ w.driven THEN <<FF, 0>> ELSE Released
         /\ x.card = IF s THEN w.card ELSE Deselected(w.card)
<1> DEFINE c == IF s THEN w.card ELSE Deselected(w.card)
           v == [w EXCEPT !.sel = s, !.count = 0, !.whole = TRUE, !.shown = 0, !.card = c,
                          !.outByte = FF]
           x == CardSelect(w, s)
<1>1. x = Present(v)
  BY DEF CardSelect
<1>2. c \in Protocols
  <2>1. w.card \in Protocols
    BY DEF Cards
  <2> QED BY <2>1, Dropped
<1>3. 0 \in 0..W - 1 /\ FF \in Codes
  BY Widths DEF FF, Codes
<1> HIDE DEF c
<1>4. v \in Cards
  BY <1>2, <1>3 DEF Cards
<1>5. v.sel = s /\ v.clk = w.clk /\ v.driven = w.driven /\ v.count = 0 /\ v.shown = 0
  BY DEF Cards
<1>6. v.whole = TRUE /\ v.outByte = FF /\ v.card = c
  BY DEF Cards
<1> HIDE DEF v, x
<1>7. x \in Cards /\ x = [v EXCEPT !.dout = IF s /\ w.driven THEN <<FF, 0>> ELSE Released]
  BY <1>1, <1>4, <1>5, <1>6, Shown
<1>8. x.dout = IF s /\ w.driven THEN <<FF, 0>> ELSE Released
  BY <1>4, <1>7 DEF Cards
<1>9. /\ x.sel = v.sel /\ x.clk = v.clk /\ x.driven = v.driven /\ x.count = v.count
      /\ x.shown = v.shown
  BY <1>4, <1>7 DEF Cards
<1>10. x.whole = v.whole /\ x.outByte = v.outByte /\ x.card = v.card
  BY <1>4, <1>7 DEF Cards
<1> QED BY <1>5, <1>6, <1>7, <1>8, <1>9, <1>10 DEF c, x

(* An edge of a clock the card does not count.                              *)
LEMMA CardClockIdles ==
  ASSUME NEW w, NEW high, NEW di, ~w.sel \/ w.clk = high
  PROVE  CardClock(w, high, di) = [w EXCEPT !.clk = high]
  BY DEF CardClock

(* A falling edge puts the next bit on the line.                            *)
LEMMA CardFalls ==
  ASSUME NEW w \in Cards, NEW di, w.sel, w.clk
  PROVE  LET x == CardClock(w, FALSE, di) IN
         /\ x \in Cards /\ x.sel /\ ~x.clk /\ x.driven = w.driven /\ x.count = w.count
         /\ x.shown = w.shown /\ x.whole = w.whole /\ x.outByte = w.outByte /\ x.card = w.card
         /\ x.dout = IF w.driven THEN <<w.outByte, w.shown>> ELSE Released
<1> DEFINE v == [w EXCEPT !.clk = FALSE]
           x == CardClock(w, FALSE, di)
<1>1. w.clk = TRUE /\ w.sel = TRUE
  BY DEF Cards
<1>2. x = Present(v)
  BY <1>1 DEF CardClock
<1>3. v \in Cards
  BY DEF Cards
<1>4. v.sel = w.sel /\ v.clk = FALSE /\ v.driven = w.driven /\ v.count = w.count /\ v.shown = w.shown
  BY DEF Cards
<1>5. v.whole = w.whole /\ v.outByte = w.outByte /\ v.card = w.card
  BY DEF Cards
<1> HIDE DEF v, x
<1>6. x \in Cards /\ x = [v EXCEPT !.dout = IF w.driven THEN <<w.outByte, w.shown>> ELSE Released]
  BY ZenonT(40), <1>1, <1>2, <1>3, <1>4, <1>5, Shown
<1>7. x.dout = IF w.driven THEN <<w.outByte, w.shown>> ELSE Released
  BY <1>3, <1>6 DEF Cards
<1>8. /\ x.sel = v.sel /\ x.clk = v.clk /\ x.driven = v.driven /\ x.count = v.count
      /\ x.shown = v.shown
  BY <1>3, <1>6 DEF Cards
<1>9. x.whole = v.whole /\ x.outByte = v.outByte /\ x.card = v.card
  BY <1>3, <1>6 DEF Cards
<1> QED BY <1>4, <1>5, <1>6, <1>7, <1>8, <1>9 DEF x

(* A rising edge that completes no byte.                                    *)
LEMMA CardBit ==
  ASSUME NEW w \in Cards, NEW di, w.sel, ~w.clk, w.shown = w.count, w.count + 1 # W
  PROVE  LET x == CardClock(w, TRUE, di) IN
         /\ x \in Cards /\ x.sel /\ x.clk /\ x.driven = w.driven /\ x.count = w.count + 1
         /\ x.shown = w.count + 1 /\ x.outByte = w.outByte /\ x.card = w.card /\ x.dout = w.dout
         /\ x.whole <=> ((w.whole \/ w.count = 0) /\ di.at = w.count)
<1> DEFINE n == w.count + 1
           whole == (w.whole \/ w.count = 0) /\ di.at = w.count
           v == [w EXCEPT !.clk = TRUE, !.count = n, !.shown = n, !.whole = whole]
           x == CardClock(w, TRUE, di)
<1>1. w.clk = FALSE /\ w.sel = TRUE /\ w.count \in 0..W - 1
  BY DEF Cards
<1>2. (w.count + 1) % W = n /\ n \in 0..W - 1 /\ n # 0
  BY <1>1, OneMoreBit, Widths
<1>3. whole \in BOOLEAN
  OBVIOUS
<1>4. v = [w EXCEPT !.clk = TRUE, !.count = (@ + 1) % W, !.shown = (@ + 1) % W,
                    !.whole = (@ \/ w.count = 0) /\ di.at = w.count]
  BY <1>2
<1> HIDE DEF n, whole
<1>5. v \in Cards
  BY <1>2, <1>3 DEF Cards
<1>6. v.clk = TRUE /\ v.count = n /\ v.shown = n /\ v.whole = whole
  BY DEF Cards
<1>7. v.sel = w.sel /\ v.driven = w.driven /\ v.outByte = w.outByte /\ v.card = w.card
  BY DEF Cards
<1>8. v.dout = w.dout
  BY DEF Cards
<1> HIDE DEF v
<1>9. x = v
  BY <1>1, <1>2, <1>4, <1>6 DEF CardClock
<1> HIDE DEF x
<1> QED BY <1>1, <1>5, <1>6, <1>7, <1>8, <1>9 DEF x, n, whole

(* And one that does: the protocol takes the byte and has the next one.     *)
LEMMA CardByte ==
  ASSUME NEW w \in Cards, NEW di, w.sel, ~w.clk, w.shown = w.count, w.count + 1 = W,
         w.whole, di.at = w.count, NEW c \in Protocols, c = Xfer(w.card, di.byte),
         PeekMiso(c) \in Codes
  PROVE  LET x == CardClock(w, TRUE, di) IN
         /\ x \in Cards /\ x.sel /\ x.clk /\ x.driven = c.spi /\ x.count = 0 /\ x.shown = 0
         /\ x.whole = TRUE /\ x.outByte = PeekMiso(c) /\ x.card = c /\ x.dout = w.dout
<1> DEFINE v == [w EXCEPT !.clk = TRUE, !.count = 0, !.shown = 0, !.whole = TRUE]
           u == [v EXCEPT !.card = c, !.driven = c.spi]
           y == [u EXCEPT !.outByte = PeekMiso(c)]
           x == CardClock(w, TRUE, di)
<1>1. w.clk = FALSE /\ w.sel = TRUE /\ w.count \in 0..W - 1 /\ w.whole = TRUE
  BY DEF Cards
<1>2. (w.count + 1) % W = 0 /\ 0 \in 0..W - 1
  BY <1>1, OneMoreBit, Widths
<1>3. v = [w EXCEPT !.clk = TRUE, !.count = (@ + 1) % W, !.shown = (@ + 1) % W,
                    !.whole = (@ \/ w.count = 0) /\ di.at = w.count]
  BY <1>1, <1>2
<1>4. v \in Cards
  BY <1>2 DEF Cards
<1>5. v.sel = w.sel /\ v.clk = TRUE /\ v.count = 0 /\ v.shown = 0 /\ v.whole = TRUE
  BY DEF Cards
<1>6. v.dout = w.dout /\ v.card = w.card /\ v.outByte = w.outByte
  BY DEF Cards
<1> HIDE DEF v
<1>7. c.spi \in BOOLEAN
  BY DEF Protocols
<1>8. u \in Cards
  BY <1>4, <1>7 DEF Cards
<1>9. u.sel = v.sel /\ u.clk = v.clk /\ u.count = v.count /\ u.shown = v.shown
  BY <1>4 DEF Cards
<1>10. u.whole = v.whole /\ u.dout = v.dout /\ u.card = c /\ u.driven = c.spi
  BY <1>4 DEF Cards
<1> HIDE DEF u
<1>11. y \in Cards
  BY <1>8 DEF Cards
<1>12. y.sel = u.sel /\ y.clk = u.clk /\ y.count = u.count /\ y.shown = u.shown
  BY <1>8 DEF Cards
<1>13. y.whole = u.whole /\ y.dout = u.dout /\ y.card = u.card /\ y.driven = u.driven
  BY <1>8 DEF Cards
<1>14. y.outByte = PeekMiso(c)
  BY <1>8 DEF Cards
<1>15. Taken(v, di) = di.byte
  BY <1>5 DEF Taken
<1>16. x = y
  <2>1. u = [v EXCEPT !.card = Xfer(w.card, Taken(v, di)), !.driven = Xfer(w.card, Taken(v, di)).spi]
    BY <1>15 DEF u
  <2>2. ~(w.clk = TRUE \/ ~w.sel)
    BY <1>1
  <2>3. u.shown = 0 /\ u.card = c
    BY <1>5, <1>9, <1>10
  <2>4. x = LET t == IF v.count = 0
                     THEN LET d == Xfer(w.card, Taken(v, di))
                          IN [v EXCEPT !.card = d, !.driven = d.spi]
                     ELSE v
            IN IF t.shown = 0 THEN [t EXCEPT !.outByte = PeekMiso(t.card)] ELSE t
    BY <1>3, <2>2 DEF CardClock
  <2>5. x = IF u.shown = 0 THEN [u EXCEPT !.outByte = PeekMiso(u.card)] ELSE u
    BY <1>5, <2>1, <2>4
  <2> QED BY <2>3, <2>5
<1> HIDE DEF y, x
<1> QED BY <1>1, <1>5, <1>6, <1>9, <1>10, <1>11, <1>12, <1>13, <1>14, <1>16 DEF x

-----------------------------------------------------------------------------
(* The card, byte by byte.                                                  *)

(* A transaction of the card, as its protocol has it.                       *)
LEMMA CardSpoken ==
  ASSUME NEW o \in Ops, o.dev = "card"
  PROVE  /\ CardTransaction(o) /\ Len(o.bytes) \in Nat /\ Len(o.bytes) >= 1
         /\ DOMAIN o.bytes = 1..Len(o.bytes)
         /\ \A k \in 1..Len(o.bytes) : o.bytes[k] \in Codes /\ o.due[k] \in Labels
         /\ o.bytes \in [1..Len(o.bytes) -> Codes]
<1>1. /\ o.bytes \in Seq(STRING) /\ o.bytes # <<>> /\ CardTransaction(o)
      /\ o.due \in Seq(Labels) /\ Len(o.due) = Len(o.bytes)
  BY Spoken
<1>2. Len(o.bytes) \in Nat /\ Len(o.bytes) >= 1 /\ DOMAIN o.bytes = 1..Len(o.bytes)
  BY <1>1
<1>3. \A k \in 1..Len(o.bytes) : o.bytes[k] \in Codes
  BY <1>2 DEF Codes
<1>4. \A k \in 1..Len(o.bytes) : o.due[k] \in Labels
  BY <1>1, <1>2
<1>5. o.bytes = [k \in 1..Len(o.bytes) |-> o.bytes[k]]
  BY <1>1, <1>2
<1> QED BY <1>1, <1>2, <1>3, <1>4, <1>5

(* One byte of it after another.                                            *)
LEMMA CardFollows ==
  ASSUME NEW o \in Ops, o.dev = "card", NEW k \in Nat, k < Len(o.bytes)
  PROVE  /\ Follows(Prior(o, k), Prior(o, k + 1), o.bytes[k + 1])
         /\ Prior(o, k + 1) = o.due[k + 1] /\ Prior(o, k + 1) \in Labels
         /\ o.bytes[k + 1] \in Codes
<1>1. k + 1 \in 1..Len(o.bytes) /\ k + 1 # 0 /\ (k + 1 = 1 <=> k = 0) /\ (k + 1) - 1 = k
  BY CardSpoken
<1>2. Follows(IF k + 1 = 1 THEN Rest ELSE o.due[(k + 1) - 1], o.due[k + 1], o.bytes[k + 1])
  BY <1>1, CardSpoken DEF CardTransaction
<1>3. Prior(o, k) = IF k + 1 = 1 THEN Rest ELSE o.due[(k + 1) - 1]
  BY <1>1 DEF Prior
<1> QED BY <1>1, <1>2, <1>3, CardSpoken DEF Prior

(* A block on its way out: a token, its bytes, and its check.               *)
LEMMA Streaming ==
  ASSUME NEW c \in Protocols, NEW b \in Nat, b < BlockCount
  PROVE  LET s == BlockOut(c, b) IN
         /\ s \in Seq(Codes) /\ Len(s) = 1 + BlockBytes + CrcBytes /\ s[1] = "FE"
         /\ \A i \in 1..BlockBytes : s[1 + i] = c.blocks[b][i]
         /\ \A i \in 1..CrcBytes : s[1 + BlockBytes + i] = FF
<1> DEFINE head == <<"FE">>
           body == c.blocks[b]
           tail == [i \in 1..CrcBytes |-> FF]
           s == BlockOut(c, b)
<1>1. "FE" \in Codes /\ FF \in Codes
  BY DEF Codes, FF
<1>2. body \in [1..BlockBytes -> Codes]
  BY Widths DEF Protocols, Disks
<1>3. body \in Seq(Codes) /\ Len(body) = BlockBytes
  BY <1>2, Widths
<1>4. tail \in Seq(Codes) /\ Len(tail) = CrcBytes /\ \A i \in 1..CrcBytes : tail[i] = FF
  BY <1>1, Widths
<1>5. head \in Seq(Codes) /\ Len(head) = 1 /\ head[1] = "FE"
  BY <1>1
<1>6. s = (head \o body) \o tail
  BY Widths DEF BlockOut
<1> HIDE DEF head, body, tail, s
<1> DEFINE u == head \o body
<1>7. /\ u \in Seq(Codes) /\ Len(u) = 1 + BlockBytes
      /\ \A i \in 1..1 + BlockBytes : u[i] = IF i <= 1 THEN head[i] ELSE body[i - 1]
  <2>1. /\ u \in Seq(Codes) /\ Len(u) = Len(head) + Len(body)
        /\ \A i \in 1..Len(head) + Len(body) :
             u[i] = IF i <= Len(head) THEN head[i] ELSE body[i - Len(head)]
    BY <1>3, <1>5, ConcatProperties
  <2> HIDE DEF u
  <2> QED BY <1>3, <1>5, <2>1
<1> HIDE DEF u
<1>8. s = u \o tail
  BY <1>6 DEF u
<1>9. /\ s \in Seq(Codes) /\ Len(s) = 1 + BlockBytes + CrcBytes
      /\ \A i \in 1..1 + BlockBytes + CrcBytes :
           s[i] = IF i <= 1 + BlockBytes THEN u[i] ELSE tail[i - (1 + BlockBytes)]
  <2>1. /\ s \in Seq(Codes) /\ Len(s) = Len(u) + Len(tail)
        /\ \A i \in 1..Len(u) + Len(tail) :
             s[i] = IF i <= Len(u) THEN u[i] ELSE tail[i - Len(u)]
    BY <1>4, <1>7, <1>8, ConcatProperties
  <2> QED BY <1>4, <1>7, <2>1
<1>10. s[1] = "FE"
  BY <1>5, <1>7, <1>9, Widths
<1>11. ASSUME NEW i \in 1..BlockBytes PROVE s[1 + i] = body[i]
  BY <1>7, <1>9, Widths
<1>12. ASSUME NEW i \in 1..CrcBytes PROVE s[1 + BlockBytes + i] = FF
  BY <1>4, <1>9, Widths
<1> QED BY <1>9, <1>10, <1>11, <1>12 DEF s, body

(* What is left of it.                                                      *)
LEMMA Streams1 ==
  ASSUME NEW c \in Protocols, NEW b \in Nat, b < BlockCount,
         NEW n \in 0..1 + BlockBytes + CrcBytes
  PROVE  LET s == Streamed(c, b, n) IN
         /\ s \in Seq(Codes) /\ Len(s) = (1 + BlockBytes + CrcBytes) - n
         /\ n = 0 => s = BlockOut(c, b)
         /\ n = 1 + BlockBytes + CrcBytes <=> s = <<>>
         /\ n < 1 + BlockBytes + CrcBytes =>
              /\ Tail(s) = Streamed(c, b, n + 1) /\ Head(s) = BlockOut(c, b)[n + 1]
<1> DEFINE m == 1 + BlockBytes + CrcBytes
           u == BlockOut(c, b)
           s == Streamed(c, b, n)
<1>1. m \in Nat /\ n \in 0..m
  BY Widths
<1>2. u \in Seq(Codes) /\ Len(u) = m
  BY Streaming
<1>3. s = [i \in 1..(m - n) |-> u[i + n]]
  BY <1>1 DEF Streamed
<1>4. Streamed(c, b, n + 1) = [i \in 1..(m - (n + 1)) |-> u[i + (n + 1)]]
  BY <1>1 DEF Streamed
<1> HIDE DEF m, u, s
<1>5. \A i \in 1..(m - n) : u[i + n] \in Codes
  BY <1>1, <1>2
<1>6. s \in Seq(Codes) /\ Len(s) = m - n
  BY <1>1, <1>3, <1>5
<1>7. n = 0 => s = u
  BY <1>1, <1>2, <1>3
<1>8. n = m <=> s = <<>>
  BY <1>1, <1>6
<1>9. ASSUME n < m PROVE Tail(s) = Streamed(c, b, n + 1) /\ Head(s) = u[n + 1]
  <2>1. s # <<>>
    BY <1>1, <1>8, <1>9
  <2> DEFINE t == [i \in 1..(m - (n + 1)) |-> u[i + (n + 1)]]
             r == Tail(s)
  <2>2. /\ r \in Seq(Codes) /\ Len(r) = Len(s) - 1 /\ Head(s) = s[1]
        /\ \A i \in 1..Len(r) : r[i] = s[i + 1]
    BY <1>6, <2>1, HeadTailProperties
  <2> HIDE DEF r
  <2>3. \A i \in 1..(m - (n + 1)) : u[i + (n + 1)] \in Codes
    BY <1>1, <1>2
  <2>4. m - (n + 1) \in Nat
    BY <1>1, <1>9
  <2>5. t \in Seq(Codes) /\ Len(t) = m - (n + 1)
    BY <2>3, <2>4
  <2>6. Len(r) = m - (n + 1)
    BY <1>1, <1>6, <2>2
  <2>7. ASSUME NEW i \in 1..Len(r) PROVE r[i] = t[i]
    <3>1. i \in 1..(m - (n + 1)) /\ i + 1 \in 1..(m - n) /\ (i + 1) + n = i + (n + 1)
      BY <1>1, <2>6
    <3>2. r[i] = s[i + 1]
      BY <2>2
    <3>3. s[i + 1] = u[(i + 1) + n]
      BY <1>3, <3>1
    <3> QED BY <3>1, <3>2, <3>3
  <2>8. r = t
    <3> HIDE DEF t
    <3> QED BY <2>2, <2>5, <2>6, <2>7, SeqEqual
  <2>9. s[1] = u[n + 1]
    BY <1>1, <1>3, <1>9
  <2> QED BY <1>4, <2>2, <2>8, <2>9 DEF r
<1> QED BY <1>6, <1>7, <1>8, <1>9 DEF m, u, s

(* Nothing but the labels of the protocol follows one of them.              *)
LEMMA Sensibly ==
  ASSUME NEW l, Sensible(l), NEW m \in Labels, NEW byte, Follows(l, m, byte)
  PROVE  Sensible(m)
<1>1. l.arg \in Nat /\ l.at \in Nat
  BY DEF Sensible, Labels
<1>2. CASE AtRest(l) /\ byte = FF /\ m = Label("idle", l.cmd, 0, 0)
  BY <1>2 DEF Sensible, Label
<1>3. CASE Asks(l, m, byte)
  BY <1>1, <1>3, Widths DEF Asks, Sensible, Label
<1>4. CASE Hears(l, m, byte)
  <2>1. Streams(l) => l.cmd = "CMD18"
    BY DEF Streams
  <2> QED BY <1>1, <1>4, <2>1, Widths DEF Hears, Sensible, Label
<1>5. CASE Tells(l, m, byte)
  <2>1. Awaits(l) => l.cmd \in {"CMD24", "CMD25"}
    BY DEF Awaits, Sensible
  <2> QED BY <1>1, <1>5, <2>1, Widths DEF Tells, Sensible, Label
<1> QED BY <1>2, <1>3, <1>4, <1>5 DEF Follows

(* The labels at which the card is sending.                                 *)
Sending(l) ==
  \/ Ran(l) \/ Sealed(l) \/ l.stage \in {"gap", "token", "block", "accepted", "stop"}
  \/ l.stage = "reply" /\ l.cmd \in {"CMD17", "CMD58"}
  \/ l.stage = "check" /\ l.at # CrcBytes

(* Each label is of one of four kinds.                                      *)
LEMMA FourKinds ==
  ASSUME NEW l, Sensible(l)
  PROVE  /\ AtRest(l) \/ Framing(l) \/ Streams(l) \/ Awaits(l) \/ Sending(l)
              \/ l.stage \in {"start", "data"} \/ (l.stage = "seal" /\ ~Sealed(l))
         /\ Sending(l) => ~AtRest(l) /\ ~Framing(l) /\ ~Streams(l) /\ ~Awaits(l)
                            /\ l.stage \notin {"start", "data"}
                            /\ (l.stage = "seal" => Sealed(l))
         /\ Streams(l) => ~AtRest(l) /\ ~Framing(l) /\ ~Awaits(l)
         /\ Awaits(l) => ~AtRest(l) /\ ~Framing(l)
<1>1. l.cmd \in Commands \/ l.stage \notin {"frame", "reply"}
  BY DEF Sensible
<1>2. /\ AtRest(l) \/ Framing(l) \/ Streams(l) \/ Awaits(l) \/ Sending(l)
      \/ l.stage \in {"start", "data"} \/ (l.stage = "seal" /\ ~Sealed(l))
  BY <1>1 DEF Sensible, AtRest, Framing, Streams, Awaits, Sending, Ran, Sealed
<1>3. Sending(l) => ~AtRest(l) /\ ~Framing(l) /\ ~Streams(l) /\ ~Awaits(l)
                      /\ l.stage \notin {"start", "data"} /\ (l.stage = "seal" => Sealed(l))
  BY DEF AtRest, Framing, Streams, Awaits, Sending, Ran, Sealed
<1>4. Streams(l) => ~AtRest(l) /\ ~Framing(l) /\ ~Awaits(l)
  BY DEF AtRest, Framing, Streams, Awaits
<1>5. Awaits(l) => ~AtRest(l) /\ ~Framing(l)
  BY DEF AtRest, Framing, Awaits, Sensible
<1> QED BY <1>2, <1>3, <1>4, <1>5

(* What follows while it is sending.                                        *)
SendingStep(l, m) ==
  \/ Ran(l) /\ m = Label("reply", l.cmd, l.arg, 0)
  \/ l.stage = "reply" /\ l.cmd = "CMD58" /\ m = Label("ocr", l.cmd, 0, 0)
  \/ l.stage = "reply" /\ l.cmd = "CMD17" /\ l.arg < BlockCount /\ m = Label("token", l.cmd, l.arg, 0)
  \/ l.stage = "reply" /\ l.cmd = "CMD17" /\ l.arg >= BlockCount /\ m = Label("refused", l.cmd, l.arg, 0)
  \/ l.stage = "gap" /\ m = Label("token", l.cmd, l.arg, 0)
  \/ l.stage \in {"token", "block"} /\ l.at < BlockBytes /\ m = Label("block", l.cmd, l.arg, l.at + 1)
  \/ l.stage = "block" /\ l.at = BlockBytes /\ m = Label("check", l.cmd, l.arg, 1)
  \/ l.stage = "check" /\ l.at < CrcBytes /\ m = Label("check", l.cmd, l.arg, l.at + 1)
  \/ Sealed(l) /\ m = Label("accepted", l.cmd, l.arg, 0)
  \/ l.stage = "accepted" /\ m = Label("busy", l.cmd, l.arg, 0)
  \/ l.stage = "stop" /\ m = Label("stopped", l.cmd, 0, 0)

(* And nothing else does.                                                   *)
LEMMA SendingFollows ==
  ASSUME NEW l, Sensible(l), Sending(l), NEW m, NEW byte, Follows(l, m, byte)
  PROVE  SendingStep(l, m)
<1>1. /\ ~AtRest(l) /\ ~Framing(l) /\ ~Streams(l) /\ ~Awaits(l)
      /\ l.stage \notin {"start", "data"} /\ (l.stage = "seal" => Sealed(l))
  BY FourKinds
<1>2. CASE Asks(l, m, byte)
  <2>1. l.stage = "frame" => l.at = FrameBytes
    BY <1>1 DEF Framing
  <2> QED BY <1>1, <1>2, <2>1, Widths DEF Asks, SendingStep, Ran
<1>3. CASE Hears(l, m, byte)
  BY <1>1, <1>3 DEF Hears, SendingStep
<1>4. CASE Tells(l, m, byte)
  <2>1. l.stage = "seal" => l.at = CrcBytes
    BY <1>1 DEF Sealed
  <2> QED BY <1>1, <1>4, <2>1, Widths DEF Tells, SendingStep, Sealed
<1> QED BY <1>1, <1>2, <1>3, <1>4 DEF Follows

(* What the protocol has the card say at a label.                           *)
Says(l, c) ==
  CASE l.stage = "reply" -> IF l.cmd = "CMD0" THEN "R1idle" ELSE "R1"
    [] l.stage = "ocr" -> "Ocr"
    [] l.stage = "refused" -> "RangeError"
    [] l.stage = "token" -> "FE"
    [] l.stage = "block" -> c.blocks[l.arg][l.at]
    [] l.stage = "accepted" -> "Accepted"
    [] OTHER -> FF

(* A queue of one byte and of two.                                          *)
LEMMA Queues ==
  ASSUME NEW x \in Codes, NEW y \in Codes
  PROVE  /\ <<x>> \in Seq(Codes) /\ <<x>> # <<>> /\ Head(<<x>>) = x /\ Tail(<<x>>) = <<>>
         /\ <<x, y>> \in Seq(Codes) /\ <<x, y>> # <<>> /\ Head(<<x, y>>) = x
         /\ Tail(<<x, y>>) = <<y>>
  OBVIOUS

(* A byte before a queue.                                                   *)
LEMMA Preceded ==
  ASSUME NEW x \in Codes, NEW s \in Seq(Codes)
  PROVE  LET t == <<x>> \o s IN
         t \in Seq(Codes) /\ t # <<>> /\ Head(t) = x /\ Tail(t) = s
<1> DEFINE h == <<x>>
           t == h \o s
<1>1. h \in Seq(Codes) /\ Len(h) = 1 /\ h[1] = x
  OBVIOUS
<1> HIDE DEF h
<1>2. /\ t \in Seq(Codes) /\ Len(t) = Len(h) + Len(s)
      /\ \A i \in 1..Len(h) + Len(s) : t[i] = IF i <= Len(h) THEN h[i] ELSE s[i - Len(h)]
  BY <1>1, ConcatProperties
<1> HIDE DEF t
<1>3. Len(s) \in Nat /\ Len(t) = 1 + Len(s) /\ t # <<>> /\ Head(t) = t[1] /\ t[1] = x
  BY <1>1, <1>2
<1> DEFINE r == Tail(t)
<1>4. /\ r \in Seq(Codes) /\ Len(r) = Len(t) - 1
      /\ \A i \in 1..Len(r) : r[i] = t[i + 1]
  BY <1>2, <1>3, HeadTailProperties
<1> HIDE DEF r
<1>5. r = s
  <2>1. Len(r) = Len(s)
    BY <1>3, <1>4
  <2>2. ASSUME NEW i \in 1..Len(r) PROVE r[i] = s[i]
    <3>1. i + 1 \in 1..Len(h) + Len(s) /\ ~(i + 1 <= Len(h)) /\ (i + 1) - Len(h) = i
      BY <1>1, <1>3, <2>1
    <3> QED BY <1>2, <1>4, <3>1
  <2> QED BY <1>4, <2>1, <2>2, SeqEqual
<1> QED BY <1>2, <1>3, <1>5 DEF t, h, r

(* A block, before its token is out and after.                              *)
LEMMA BlockQueue ==
  ASSUME NEW c \in Protocols, NEW b \in Nat, b < BlockCount
  PROVE  LET s == BlockOut(c, b) IN
         s \in Seq(Codes) /\ s # <<>> /\ Tail(s) = Streamed(c, b, 1) /\ Head(s) = "FE"
<1>1. 0 \in 0..1 + BlockBytes + CrcBytes /\ 0 < 1 + BlockBytes + CrcBytes /\ 0 + 1 = 1
  BY Widths
<1>2. /\ Streamed(c, b, 0) = BlockOut(c, b) /\ Tail(Streamed(c, b, 0)) = Streamed(c, b, 0 + 1)
      /\ Head(Streamed(c, b, 0)) = BlockOut(c, b)[0 + 1] /\ Streamed(c, b, 0) # <<>>
  <2>1. 0 # 1 + BlockBytes + CrcBytes
    BY Widths
  <2> QED BY <1>1, <2>1, Streams1
<1>3. BlockOut(c, b) \in Seq(Codes) /\ BlockOut(c, b)[1] = "FE"
  BY Streaming
<1> QED BY <1>1, <1>2, <1>3

(* Each byte the card has to send is the next one of its queue.             *)
LEMMA QueueMoves ==
  ASSUME NEW c \in Protocols, NEW l, Sensible(l), NEW m, Sensible(m), SendingStep(l, m)
  PROVE  /\ Queued(l, c) \in Seq(Codes) /\ Queued(l, c) # <<>>
         /\ Tail(Queued(l, c)) = Queued(m, c) /\ Head(Queued(l, c)) = Says(m, c)
<1>1. /\ l.arg \in Nat /\ l.at \in Nat
      /\ "R1" \in Codes /\ "R1idle" \in Codes /\ "Ocr" \in Codes /\ "RangeError" \in Codes
      /\ "Accepted" \in Codes /\ FF \in Codes
  BY DEF Sensible, Labels, Codes, FF
<1>2. CASE Ran(l) /\ m = Label("reply", l.cmd, l.arg, 0)
  <2>1. Queued(l, c) = Replied(l, c) /\ m.stage = "reply" /\ m.cmd = l.cmd /\ m.arg = l.arg
    BY <1>2 DEF Queued, Label, Ran, Sealed
  <2>2. CASE l.cmd = "CMD17"
    <3>1. Queued(m, c) = BlockOut(c, l.arg) /\ Says(m, c) = "R1"
      BY <2>1, <2>2 DEF Queued, Ran, Sealed, Says
    <3>2. BlockOut(c, l.arg) \in Seq(Codes)
      <4>1. CASE l.arg < BlockCount
        BY <1>1, <4>1, Streaming
      <4>2. CASE ~(l.arg < BlockCount)
        <5>1. BlockOut(c, l.arg) = <<"RangeError">>
          BY <1>1, <4>2, Widths DEF BlockOut
        <5> QED BY <1>1, <5>1, Queues
      <4> QED BY <4>1, <4>2
    <3>3. Queued(l, c) = <<"R1">> \o BlockOut(c, l.arg)
      BY <2>1, <2>2 DEF Replied
    <3> QED BY <1>1, <3>1, <3>2, <3>3, Preceded
  <2>3. CASE l.cmd = "CMD58"
    <3>1. Queued(l, c) = <<"R1", "Ocr">>
      BY <2>1, <2>3 DEF Replied
    <3>2. Queued(m, c) = <<"Ocr">> /\ Says(m, c) = "R1"
      BY <2>1, <2>3 DEF Queued, Ran, Sealed, Says
    <3> QED BY <1>1, <3>1, <3>2, Queues
  <2>4. CASE l.cmd = "CMD0"
    <3>1. Queued(l, c) = <<"R1idle">>
      BY <2>1, <2>4 DEF Replied
    <3>2. Queued(m, c) = <<>> /\ Says(m, c) = "R1idle"
      BY <2>1, <2>4 DEF Queued, Ran, Sealed, Says
    <3> QED BY <1>1, <3>1, <3>2, Queues
  <2>5. CASE l.cmd \notin {"CMD17", "CMD58", "CMD0"}
    <3>1. Queued(l, c) = <<"R1">>
      BY <2>1, <2>5 DEF Replied
    <3>2. Queued(m, c) = <<>> /\ Says(m, c) = "R1"
      BY <2>1, <2>5 DEF Queued, Ran, Sealed, Says
    <3> QED BY <1>1, <3>1, <3>2, Queues
  <2> QED BY <2>2, <2>3, <2>4, <2>5
<1>3. CASE l.stage = "reply" /\ l.cmd = "CMD58" /\ m = Label("ocr", l.cmd, 0, 0)
  BY <1>1, <1>3, Queues DEF Queued, Ran, Sealed, Says, Label
<1>4. CASE l.stage = "reply" /\ l.cmd = "CMD17" /\ l.arg < BlockCount
           /\ m = Label("token", l.cmd, l.arg, 0)
  <2>1. Queued(l, c) = BlockOut(c, l.arg) /\ Queued(m, c) = Streamed(c, l.arg, 1) /\ Says(m, c) = "FE"
    BY <1>4 DEF Queued, Ran, Sealed, Says, Label
  <2> QED BY <1>1, <1>4, <2>1, BlockQueue
<1>5. CASE l.stage = "reply" /\ l.cmd = "CMD17" /\ l.arg >= BlockCount
           /\ m = Label("refused", l.cmd, l.arg, 0)
  <2>1. Queued(l, c) = <<"RangeError">> /\ Queued(m, c) = <<>> /\ Says(m, c) = "RangeError"
    BY <1>5 DEF Queued, Ran, Sealed, Says, Label, BlockOut
  <2> QED BY <1>1, <2>1, Queues
<1>6. CASE l.stage = "gap" /\ m = Label("token", l.cmd, l.arg, 0)
  <2>1. Queued(l, c) = BlockOut(c, l.arg) /\ Queued(m, c) = Streamed(c, l.arg, 1) /\ Says(m, c) = "FE"
    BY <1>6 DEF Queued, Ran, Sealed, Says, Label
  <2>2. l.arg < BlockCount
    BY <1>6 DEF Sensible
  <2> QED BY <1>1, <2>1, <2>2, BlockQueue
<1>7. CASE l.stage \in {"token", "block"} /\ l.at < BlockBytes
           /\ m = Label("block", l.cmd, l.arg, l.at + 1)
  <2>1. /\ Queued(l, c) = Streamed(c, l.arg, 1 + l.at) /\ Queued(m, c) = Streamed(c, l.arg, 1 + (l.at + 1))
        /\ Says(m, c) = c.blocks[l.arg][l.at + 1] /\ l.arg < BlockCount
    BY <1>1, <1>7 DEF Queued, Ran, Sealed, Says, Label, Sensible
  <2>2. 1 + l.at \in 0..1 + BlockBytes + CrcBytes /\ 1 + l.at < 1 + BlockBytes + CrcBytes
    BY <1>1, <1>7, Widths
  <2>3. BlockOut(c, l.arg)[(1 + l.at) + 1] = c.blocks[l.arg][l.at + 1]
    <3>1. l.at + 1 \in 1..BlockBytes /\ 1 + (l.at + 1) = (1 + l.at) + 1
      BY <1>1, <1>7, Widths
    <3> QED BY <1>1, <2>1, <3>1, Streaming
  <2>4. (1 + l.at) + 1 = 1 + (l.at + 1) /\ 1 + l.at # 1 + BlockBytes + CrcBytes
    BY <1>1, <2>2, Widths
  <2> QED BY SMTT(30), <1>1, <2>1, <2>2, <2>3, <2>4, Streams1
<1>8. CASE l.stage = "block" /\ l.at = BlockBytes /\ m = Label("check", l.cmd, l.arg, 1)
  <2>1. l.arg < BlockCount /\ Says(m, c) = FF /\ Queued(l, c) = Streamed(c, l.arg, 1 + BlockBytes)
    BY <1>8 DEF Queued, Ran, Sealed, Says, Label, Sensible
  <2>2. 1 + BlockBytes \in 0..1 + BlockBytes + CrcBytes /\ 1 + BlockBytes < 1 + BlockBytes + CrcBytes
    BY Widths
  <2>3. Queued(m, c) = Streamed(c, l.arg, (1 + BlockBytes) + 1)
    <3>1. CASE CrcBytes # 1
      BY <1>8, <3>1 DEF Queued, Ran, Sealed, Label
    <3>2. CASE CrcBytes = 1
      <4>1. Queued(m, c) = <<>>
        BY <1>8, <3>2 DEF Queued, Ran, Sealed, Label
      <4> QED BY <1>1, <2>1, <3>2, <4>1, Streams1, Widths
    <3> QED BY <3>1, <3>2
  <2>4. BlockOut(c, l.arg)[(1 + BlockBytes) + 1] = FF
    <3>1. 1 \in 1..CrcBytes /\ 1 + BlockBytes + 1 = (1 + BlockBytes) + 1
      BY Widths
    <3> QED BY <1>1, <2>1, <3>1, Streaming
  <2>5. 1 + BlockBytes # 1 + BlockBytes + CrcBytes
    BY Widths
  <2> QED BY <1>1, <2>1, <2>2, <2>3, <2>4, <2>5, Streams1
<1>9. CASE l.stage = "check" /\ l.at < CrcBytes /\ m = Label("check", l.cmd, l.arg, l.at + 1)
  <2> DEFINE n == 1 + BlockBytes + l.at
  <2>1. l.arg < BlockCount /\ Says(m, c) = FF /\ Queued(l, c) = Streamed(c, l.arg, n)
    BY <1>1, <1>9, Widths DEF Queued, Ran, Sealed, Says, Label, Sensible
  <2>2. n \in 0..1 + BlockBytes + CrcBytes /\ n < 1 + BlockBytes + CrcBytes
    BY <1>1, <1>9, Widths
  <2>3. Queued(m, c) = Streamed(c, l.arg, n + 1)
    <3>1. CASE CrcBytes # l.at + 1
      <4>1. Queued(m, c) = Streamed(c, l.arg, 1 + BlockBytes + (l.at + 1))
        BY <1>9, <3>1 DEF Queued, Ran, Sealed, Label
      <4>2. 1 + BlockBytes + (l.at + 1) = n + 1
        BY <1>1, Widths
      <4> QED BY <4>1, <4>2
    <3>2. CASE CrcBytes = l.at + 1
      <4>1. Queued(m, c) = <<>>
        BY <1>9, <3>2 DEF Queued, Ran, Sealed, Label
      <4>2. n + 1 = 1 + BlockBytes + CrcBytes /\ n + 1 \in 0..1 + BlockBytes + CrcBytes
        BY <1>1, <3>2, Widths
      <4> QED BY <1>1, <2>1, <4>1, <4>2, Streams1
    <3> QED BY <3>1, <3>2
  <2>4. BlockOut(c, l.arg)[n + 1] = FF
    <3>1. l.at + 1 \in 1..CrcBytes /\ 1 + BlockBytes + (l.at + 1) = n + 1
      BY <1>1, <1>9, Widths
    <3> QED BY <1>1, <2>1, <3>1, Streaming
  <2>5. n # 1 + BlockBytes + CrcBytes
    BY <1>1, <1>9, Widths
  <2> HIDE DEF n
  <2> QED BY <1>1, <2>1, <2>2, <2>3, <2>4, <2>5, Streams1
<1>10. CASE Sealed(l) /\ m = Label("accepted", l.cmd, l.arg, 0)
  BY <1>1, <1>10, Queues DEF Queued, Ran, Sealed, Says, Label
<1>11. CASE l.stage = "accepted" /\ m = Label("busy", l.cmd, l.arg, 0)
  BY <1>1, <1>11, Queues DEF Queued, Ran, Sealed, Says, Label
<1>12. CASE l.stage = "stop" /\ m = Label("stopped", l.cmd, 0, 0)
  BY <1>1, <1>12, Queues DEF Queued, Ran, Sealed, Says, Label
<1> QED BY <1>2, <1>3, <1>4, <1>5, <1>6, <1>7, <1>8, <1>9, <1>10, <1>11, <1>12 DEF SendingStep

(* What the card does at each kind of label.                                *)
LEMMA PhaseOf ==
  ASSUME NEW l, Sensible(l)
  PROVE  /\ AtRest(l) \/ Framing(l) => CardPhase(l) = "Command"
         /\ Streams(l) => CardPhase(l) = "MultiRead"
         /\ Awaits(l) \/ l.stage \in {"start", "data"} \/ (l.stage = "seal" /\ ~Sealed(l))
              => CardPhase(l) = "Receiving"
         /\ Sending(l) => CardPhase(l) = "Responding"
<1>1. AtRest(l) \/ Framing(l) => l.stage \notin {"start", "data", "seal"}
  BY DEF AtRest, Framing
<1>2. Streams(l) => l.stage \notin {"start", "data", "seal"}
  BY DEF Streams
<1> QED BY <1>1, <1>2, FourKinds DEF CardPhase

(* It has something queued just when it is sending.                         *)
LEMMA QueueKind ==
  ASSUME NEW c \in Protocols, NEW l, Sensible(l)
  PROVE  Queued(l, c) \in Seq(Codes) /\ (Sending(l) <=> Queued(l, c) # <<>>)
<1>1. /\ l.arg \in Nat /\ l.at \in Nat
      /\ "R1" \in Codes /\ "R1idle" \in Codes /\ "Ocr" \in Codes /\ "RangeError" \in Codes
      /\ "Accepted" \in Codes /\ FF \in Codes
  BY DEF Sensible, Labels, Codes, FF
<1>a. BlockOut(c, l.arg) \in Seq(Codes) /\ BlockOut(c, l.arg) # <<>>
  <2>1. CASE l.arg < BlockCount
    BY <1>1, <2>1, BlockQueue
  <2>2. CASE ~(l.arg < BlockCount)
    <3>1. BlockOut(c, l.arg) = <<"RangeError">>
      BY <1>1, <2>2, Widths DEF BlockOut
    <3> QED BY <1>1, <3>1, Queues
  <2> QED BY <2>1, <2>2
<1>b. ASSUME NEW n \in Nat, l.arg < BlockCount, n < 1 + BlockBytes + CrcBytes
      PROVE  Streamed(c, l.arg, n) \in Seq(Codes) /\ Streamed(c, l.arg, n) # <<>>
  <2>1. n \in 0..1 + BlockBytes + CrcBytes /\ n # 1 + BlockBytes + CrcBytes
    BY <1>b, Widths
  <2> QED BY <1>1, <1>b, <2>1, Streams1
<1>2. CASE Ran(l)
  <2>1. Queued(l, c) = Replied(l, c) /\ Sending(l)
    BY <1>2 DEF Queued, Ran, Sealed, Sending
  <2>2. CASE l.cmd = "CMD17"
    <3>1. Replied(l, c) = <<"R1">> \o BlockOut(c, l.arg)
      BY <2>2 DEF Replied
    <3> QED BY <1>1, <1>a, <2>1, <3>1, Preceded
  <2>3. CASE l.cmd # "CMD17"
    <3>1. Replied(l, c) \in {<<"R1">>, <<"R1idle">>, <<"R1", "Ocr">>}
      BY <2>3 DEF Replied
    <3>2. <<"R1">> \in Seq(Codes) /\ <<"R1">> # <<>> /\ <<"R1idle">> \in Seq(Codes) /\ <<"R1idle">> # <<>>
      BY <1>1, Queues
    <3>3. <<"R1", "Ocr">> \in Seq(Codes) /\ <<"R1", "Ocr">> # <<>>
      BY <1>1, Queues
    <3> QED BY <2>1, <3>1, <3>2, <3>3
  <2> QED BY <2>2, <2>3
<1>3. CASE l.stage = "gap" \/ (l.stage = "reply" /\ l.cmd = "CMD17")
  <2>1. Queued(l, c) = BlockOut(c, l.arg) /\ Sending(l)
    BY <1>3 DEF Queued, Ran, Sealed, Sending
  <2> QED BY <1>a, <2>1
<1>4. CASE (l.stage = "reply" /\ l.cmd = "CMD58") \/ Sealed(l) \/ l.stage \in {"accepted", "stop"}
  <2>1. Queued(l, c) \in {<<"Ocr">>, <<"Accepted", FF>>, <<FF>>} /\ Sending(l)
    BY <1>4 DEF Queued, Ran, Sealed, Sending
  <2>2. <<"Ocr">> \in Seq(Codes) /\ <<"Ocr">> # <<>> /\ <<FF>> \in Seq(Codes) /\ <<FF>> # <<>>
    BY <1>1, Queues
  <2>3. <<"Accepted", FF>> \in Seq(Codes) /\ <<"Accepted", FF>> # <<>>
    BY <1>1, Queues
  <2> QED BY <2>1, <2>2, <2>3
<1>5. CASE l.stage = "token"
  <2>1. Queued(l, c) = Streamed(c, l.arg, 1) /\ Sending(l) /\ l.arg < BlockCount
    BY <1>5 DEF Queued, Ran, Sealed, Sending, Sensible
  <2> QED BY <1>b, <2>1, Widths
<1>6. CASE l.stage = "block"
  <2>1. Queued(l, c) = Streamed(c, l.arg, 1 + l.at) /\ Sending(l) /\ l.arg < BlockCount
    BY <1>6 DEF Queued, Ran, Sealed, Sending, Sensible
  <2>2. 1 + l.at \in Nat /\ 1 + l.at < 1 + BlockBytes + CrcBytes
    BY <1>6, Widths DEF Sensible
  <2> QED BY <1>b, <2>1, <2>2
<1>7. CASE l.stage = "check" /\ l.at # CrcBytes
  <2>1. Queued(l, c) = Streamed(c, l.arg, 1 + BlockBytes + l.at) /\ Sending(l) /\ l.arg < BlockCount
    BY <1>7 DEF Queued, Ran, Sealed, Sending, Sensible
  <2>2. 1 + BlockBytes + l.at \in Nat /\ 1 + BlockBytes + l.at < 1 + BlockBytes + CrcBytes
    BY <1>7, Widths DEF Sensible
  <2> QED BY <1>b, <2>1, <2>2
<1>8. CASE ~Sending(l)
  <2>1. Queued(l, c) = <<>>
    BY <1>8 DEF Queued, Sending
  <2> QED BY <1>8, <2>1
<1> QED BY <1>2, <1>3, <1>4, <1>5, <1>6, <1>7, <1>8 DEF Sending

(* What it has queued depends on its blocks alone.                          *)
LEMMA QueueOfBlocks ==
  ASSUME NEW c, NEW d, d.blocks = c.blocks, NEW l
  PROVE  Queued(l, d) = Queued(l, c)
<1>1. \A b : BlockOut(d, b) = BlockOut(c, b)
  BY DEF BlockOut
<1>2. \A b, n : Streamed(d, b, n) = Streamed(c, b, n)
  BY <1>1 DEF Streamed
<1>3. Replied(l, d) = Replied(l, c)
  BY <1>1 DEF Replied
<1> QED BY <1>1, <1>2, <1>3 DEF Queued

(* Where the end of a queue leads.                                          *)
Leads(l, m) ==
  IF Sending(m) THEN /\ PendingOf(m) = PendingOf(l) /\ MultiReadOf(m) = MultiReadOf(l)
                     /\ MultiWriteOf(m) = MultiWriteOf(l)
  ELSE /\ PendingOf(m) = NoBlock /\ MultiReadOf(m) = MultiReadOf(l)
       /\ MultiWriteOf(m) = MultiWriteOf(l)
       /\ PendingOf(l) # NoBlock => Awaits(m) /\ BlockAt(m) = PendingOf(l)
       /\ PendingOf(l) = NoBlock /\ MultiWriteOf(l) # NoBlock
            => Awaits(m) /\ BlockAt(m) = MultiWriteOf(l)
       /\ PendingOf(l) = NoBlock /\ MultiWriteOf(l) = NoBlock /\ MultiReadOf(l) # NoBlock
            => Streams(m) /\ BlockAt(m) = MultiReadOf(l)
       /\ PendingOf(l) = NoBlock /\ MultiWriteOf(l) = NoBlock /\ MultiReadOf(l) = NoBlock
            => AtRest(m)

(* The last byte of a queue leads where its label says.                     *)
LEMMA QueueLeads ==
  ASSUME NEW l, Sensible(l), NEW m, Sensible(m), SendingStep(l, m)
  PROVE  Leads(l, m) /\ (Application(m) <=> Application(l)) /\ ~Framing(m) /\ ~Framing(l)
<1> USE DEF Leads, Application, Framing, PendingOf, MultiReadOf, MultiWriteOf, Sending, Streams,
            Awaits, AtRest, BlockAt, Ran, Sealed, Label
<1>1. l.arg \in Nat /\ l.arg # NoBlock /\ l.arg + 1 # NoBlock /\ l.at \in Nat
  BY DEF Sensible, Labels, NoBlock
<1>2. CASE Ran(l) /\ m = Label("reply", l.cmd, l.arg, 0)
  BY <1>1, <1>2 DEF Sensible, Commands
<1>3. CASE l.stage = "reply" /\ l.cmd = "CMD58" /\ m = Label("ocr", l.cmd, 0, 0)
  BY <1>1, <1>3
<1>4. CASE l.stage = "reply" /\ l.cmd = "CMD17" /\ l.arg < BlockCount
           /\ m = Label("token", l.cmd, l.arg, 0)
  BY <1>1, <1>4
<1>5. CASE l.stage = "reply" /\ l.cmd = "CMD17" /\ l.arg >= BlockCount
           /\ m = Label("refused", l.cmd, l.arg, 0)
  BY <1>1, <1>5
<1>6. CASE l.stage = "gap" /\ m = Label("token", l.cmd, l.arg, 0)
  BY <1>1, <1>6
<1>7. CASE l.stage \in {"token", "block"} /\ l.at < BlockBytes
           /\ m = Label("block", l.cmd, l.arg, l.at + 1)
  BY <1>1, <1>7
<1>8. CASE l.stage = "block" /\ l.at = BlockBytes /\ m = Label("check", l.cmd, l.arg, 1)
  <2>1. l.cmd \in {"CMD17", "CMD18"}
    BY <1>8 DEF Sensible
  <2> QED BY <1>1, <1>8, <2>1
<1>9. CASE l.stage = "check" /\ l.at < CrcBytes /\ m = Label("check", l.cmd, l.arg, l.at + 1)
  <2>1. l.cmd \in {"CMD17", "CMD18"} /\ l.at # CrcBytes
    BY <1>1, <1>9, Widths DEF Sensible
  <2> QED BY <1>1, <1>9, <2>1
<1>10. CASE Sealed(l) /\ m = Label("accepted", l.cmd, l.arg, 0)
  BY <1>1, <1>10
<1>11. CASE l.stage = "accepted" /\ m = Label("busy", l.cmd, l.arg, 0)
  <2>1. l.cmd \in {"CMD24", "CMD25"}
    BY <1>11 DEF Sensible
  <2> QED BY <1>1, <1>11, <2>1
<1>12. CASE l.stage = "stop" /\ m = Label("stopped", l.cmd, 0, 0)
  BY <1>1, <1>12
<1> QED BY <1>2, <1>3, <1>4, <1>5, <1>6, <1>7, <1>8, <1>9, <1>10, <1>11, <1>12 DEF SendingStep

(* What a byte of the protocol makes of the card, apart from its blocks.    *)
Obeys(c, m, d) ==
  d \in Protocols /\ CardAt(m, d) /\ (d.spi <=> (c.spi \/ (Ran(m) /\ m.cmd = "CMD0")))

(* The end of a queue: what the card was told to do next.                   *)
LEMMA QueueEnds ==
  ASSUME NEW c \in Protocols
  PROVE  LET d == AfterResponding(c) IN
         /\ d \in Protocols /\ d.spi = c.spi /\ d.app = c.app /\ d.blocks = c.blocks
         /\ d.out = c.out /\ d.frame = c.frame
         /\ d.multiWrite = c.multiWrite /\ d.multiRead = c.multiRead /\ d.pending = NoBlock
         /\ c.pending # NoBlock => d.phase = "Receiving" /\ d.addr = c.pending /\ ~d.started
         /\ c.pending = NoBlock /\ c.multiWrite # NoBlock
              => d.phase = "Receiving" /\ d.addr = c.multiWrite /\ ~d.started
         /\ c.pending = NoBlock /\ c.multiWrite = NoBlock /\ c.multiRead # NoBlock
              => d.phase = "MultiRead" /\ d.addr = c.multiRead
         /\ c.pending = NoBlock /\ c.multiWrite = NoBlock /\ c.multiRead = NoBlock
              => d.phase = "Command"
<1> DEFINE d == AfterResponding(c)
<1>1. /\ c.pending \in Nat \cup {NoBlock} /\ c.multiWrite \in Nat \cup {NoBlock}
      /\ c.multiRead \in Nat \cup {NoBlock}
  BY DEF Protocols
<1>2. CASE c.pending # NoBlock
  <2>1. d = [c EXCEPT !.phase = "Receiving", !.addr = c.pending, !.started = FALSE,
                      !.pending = NoBlock]
    BY <1>2 DEF AfterResponding
  <2> HIDE DEF d
  <2>2. d \in Protocols
    BY <1>1, <1>2, <2>1 DEF Protocols
  <2>3. d.phase = "Receiving" /\ d.addr = c.pending /\ d.started = FALSE /\ d.pending = NoBlock
    BY <2>1 DEF Protocols
  <2>4. d.spi = c.spi /\ d.app = c.app /\ d.blocks = c.blocks /\ d.out = c.out
    BY <2>1 DEF Protocols
  <2>5. d.frame = c.frame /\ d.multiWrite = c.multiWrite /\ d.multiRead = c.multiRead
    BY <2>1 DEF Protocols
  <2> QED BY <1>2, <2>2, <2>3, <2>4, <2>5 DEF d
<1>3. CASE c.pending = NoBlock /\ c.multiWrite # NoBlock
  <2>1. d = [c EXCEPT !.phase = "Receiving", !.addr = c.multiWrite, !.started = FALSE]
    BY <1>3 DEF AfterResponding
  <2> HIDE DEF d
  <2>2. d \in Protocols
    BY <1>1, <1>3, <2>1 DEF Protocols
  <2>3. d.phase = "Receiving" /\ d.addr = c.multiWrite /\ d.started = FALSE /\ d.pending = NoBlock
    BY <1>3, <2>1 DEF Protocols
  <2>4. d.spi = c.spi /\ d.app = c.app /\ d.blocks = c.blocks /\ d.out = c.out
    BY <2>1 DEF Protocols
  <2>5. d.frame = c.frame /\ d.multiWrite = c.multiWrite /\ d.multiRead = c.multiRead
    BY <2>1 DEF Protocols
  <2> QED BY <1>3, <2>2, <2>3, <2>4, <2>5 DEF d
<1>4. CASE c.pending = NoBlock /\ c.multiWrite = NoBlock /\ c.multiRead # NoBlock
  <2>1. d = [c EXCEPT !.phase = "MultiRead", !.addr = c.multiRead]
    BY <1>4 DEF AfterResponding
  <2> HIDE DEF d
  <2>2. d \in Protocols
    BY <1>1, <1>4, <2>1 DEF Protocols
  <2>3. d.phase = "MultiRead" /\ d.addr = c.multiRead /\ d.pending = NoBlock
    BY <1>4, <2>1 DEF Protocols
  <2>4. d.spi = c.spi /\ d.app = c.app /\ d.blocks = c.blocks /\ d.out = c.out
    BY <2>1 DEF Protocols
  <2>5. d.frame = c.frame /\ d.multiWrite = c.multiWrite /\ d.multiRead = c.multiRead
    BY <2>1 DEF Protocols
  <2> QED BY <1>4, <2>2, <2>3, <2>4, <2>5 DEF d
<1>5. CASE c.pending = NoBlock /\ c.multiWrite = NoBlock /\ c.multiRead = NoBlock
  <2>1. d = [c EXCEPT !.phase = "Command"]
    BY <1>5 DEF AfterResponding
  <2> HIDE DEF d
  <2>2. d \in Protocols
    BY <2>1 DEF Protocols
  <2>3. d.phase = "Command" /\ d.pending = NoBlock
    BY <1>5, <2>1 DEF Protocols
  <2>4. d.spi = c.spi /\ d.app = c.app /\ d.blocks = c.blocks /\ d.out = c.out
    BY <2>1 DEF Protocols
  <2>5. d.frame = c.frame /\ d.multiWrite = c.multiWrite /\ d.multiRead = c.multiRead
    BY <2>1 DEF Protocols
  <2> QED BY <1>5, <2>2, <2>3, <2>4, <2>5 DEF d
<1> QED BY <1>2, <1>3, <1>4, <1>5

(* A byte read from the card.                                               *)
LEMMA AfterSending ==
  ASSUME NEW c \in Protocols, NEW l, CardAt(l, c), Sending(l), NEW m, Sensible(m),
         SendingStep(l, m), NEW byte
  PROVE  Obeys(c, m, Xfer(c, byte)) /\ Xfer(c, byte).blocks = c.blocks
<1> DEFINE e == [c EXCEPT !.out = Tail(@)]
           d == Xfer(c, byte)
<1>1. /\ Sensible(l) /\ c.phase = CardPhase(l) /\ c.out = Queued(l, c)
      /\ (c.app <=> Application(l)) /\ FrameIs(l, c)
      /\ c.pending = PendingOf(l) /\ c.multiRead = MultiReadOf(l) /\ c.multiWrite = MultiWriteOf(l)
  BY DEF CardAt, Aimed
<1>2. c.phase = "Responding"
  BY <1>1, PhaseOf
<1>3. c.out \in Seq(Codes) /\ c.out # <<>> /\ Tail(c.out) = Queued(m, c)
  BY <1>1, QueueMoves
<1>4. Leads(l, m) /\ (Application(m) <=> Application(l)) /\ ~Framing(m) /\ ~Framing(l)
  BY <1>1, QueueLeads
<1>5. Queued(m, c) \in Seq(Codes) /\ (Sending(m) <=> Queued(m, c) # <<>>)
  BY QueueKind
<1>6. c.frame = <<>>
  BY <1>1, <1>4 DEF FrameIs
<1>7. e \in Protocols
  BY <1>3, <1>5 DEF Protocols
<1>8. /\ e.out = Queued(m, c) /\ e.phase = c.phase /\ e.spi = c.spi /\ e.app = c.app
      /\ e.blocks = c.blocks
  BY <1>3 DEF Protocols
<1>9. /\ e.frame = c.frame /\ e.pending = c.pending /\ e.multiRead = c.multiRead
      /\ e.multiWrite = c.multiWrite
  BY DEF Protocols
<1> HIDE DEF e
<1>10. d = IF e.out = <<>> THEN AfterResponding(e) ELSE e
  BY <1>2 DEF Xfer, e
<1> HIDE DEF d
<1>11. ~(Ran(m) /\ m.cmd = "CMD0")
  <2>1. ~Ran(m)
    BY DEF SendingStep, Ran, Label
  <2> QED BY <2>1
<1>12. CASE Sending(m)
  <2>1. d = e
    BY <1>5, <1>8, <1>10, <1>12
  <2>2. Queued(m, d) = Queued(m, c)
    BY <1>8, <2>1, QueueOfBlocks
  <2>3. d.phase = CardPhase(m)
    BY <1>2, <1>8, <1>12, <2>1, PhaseOf
  <2>4. Aimed(m, d)
    <3>1. /\ ~AtRest(m) /\ ~Framing(m) /\ ~Streams(m) /\ ~Awaits(m)
          /\ m.stage \notin {"start", "data"} /\ (m.stage = "seal" => Sealed(m))
      BY <1>12, FourKinds
    <3> QED BY <1>1, <1>4, <1>9, <1>12, <2>1, <3>1 DEF Aimed, Leads
  <2>5. FrameIs(m, d) /\ (d.app <=> Application(m))
    BY <1>1, <1>4, <1>6, <1>8, <1>9, <2>1 DEF FrameIs
  <2> QED BY <1>7, <1>8, <1>11, <2>1, <2>2, <2>3, <2>4, <2>5 DEF Obeys, CardAt, d
<1>13. CASE ~Sending(m)
  <2>1. d = AfterResponding(e) /\ e.out = <<>> /\ Queued(m, c) = <<>>
    BY <1>5, <1>8, <1>10, <1>13
  <2>2. /\ d \in Protocols /\ d.spi = e.spi /\ d.app = e.app /\ d.blocks = e.blocks
        /\ d.out = e.out /\ d.frame = e.frame
        /\ d.multiWrite = e.multiWrite /\ d.multiRead = e.multiRead /\ d.pending = NoBlock
    BY <1>7, <2>1, QueueEnds
  <2>3. /\ e.pending # NoBlock => d.phase = "Receiving" /\ d.addr = e.pending /\ ~d.started
        /\ e.pending = NoBlock /\ e.multiWrite # NoBlock
              => d.phase = "Receiving" /\ d.addr = e.multiWrite /\ ~d.started
        /\ e.pending = NoBlock /\ e.multiWrite = NoBlock /\ e.multiRead # NoBlock
              => d.phase = "MultiRead" /\ d.addr = e.multiRead
        /\ e.pending = NoBlock /\ e.multiWrite = NoBlock /\ e.multiRead = NoBlock
              => d.phase = "Command"
    BY <1>7, <2>1, QueueEnds
  <2>4. Queued(m, d) = Queued(m, c)
    BY <1>8, <2>2, QueueOfBlocks
  <2>5. FrameIs(m, d) /\ (d.app <=> Application(m))
    BY <1>1, <1>4, <1>6, <1>8, <1>9, <2>2 DEF FrameIs
  <2>6. d.phase = CardPhase(m) /\ Aimed(m, d)
    <3>1. PendingOf(m) = NoBlock /\ MultiReadOf(m) = MultiReadOf(l) /\ MultiWriteOf(m) = MultiWriteOf(l)
      BY <1>4, <1>13 DEF Leads
    <3>2. d.pending = PendingOf(m) /\ d.multiRead = MultiReadOf(m) /\ d.multiWrite = MultiWriteOf(m)
      BY <1>1, <1>9, <2>2, <3>1
    <3>3. m.stage \notin {"start", "data", "seal"} \/ Sealed(m)
      BY DEF SendingStep, Label
    <3>4. CASE e.pending # NoBlock
      <4>1. Awaits(m) /\ BlockAt(m) = e.pending
        BY <1>1, <1>4, <1>9, <1>13, <3>4 DEF Leads
      <4> QED BY <2>3, <3>2, <3>3, <3>4, <4>1, PhaseOf, FourKinds DEF Aimed
    <3>5. CASE e.pending = NoBlock /\ e.multiWrite # NoBlock
      <4>1. Awaits(m) /\ BlockAt(m) = e.multiWrite
        BY <1>1, <1>4, <1>9, <1>13, <3>5 DEF Leads
      <4> QED BY <2>3, <3>2, <3>3, <3>5, <4>1, PhaseOf, FourKinds DEF Aimed
    <3>6. CASE e.pending = NoBlock /\ e.multiWrite = NoBlock /\ e.multiRead # NoBlock
      <4>1. Streams(m) /\ BlockAt(m) = e.multiRead
        BY <1>1, <1>4, <1>9, <1>13, <3>6 DEF Leads
      <4> QED BY <2>3, <3>2, <3>3, <3>6, <4>1, PhaseOf, FourKinds DEF Aimed
    <3>7. CASE e.pending = NoBlock /\ e.multiWrite = NoBlock /\ e.multiRead = NoBlock
      <4>1. AtRest(m)
        BY <1>1, <1>4, <1>9, <1>13, <3>7 DEF Leads
      <4>2. ~Streams(m) /\ ~Awaits(m)
        BY <4>1, FourKinds
      <4> QED BY <2>3, <3>2, <3>3, <3>7, <4>1, <4>2, PhaseOf DEF Aimed
    <3> QED BY <3>4, <3>5, <3>6, <3>7
  <2> QED BY <1>8, <1>11, <2>1, <2>2, <2>4, <2>5, <2>6 DEF Obeys, CardAt, d
<1> QED BY <1>12, <1>13

(* Bytes queued where nothing was.                                          *)
LEMMA QueuedFirst ==
  ASSUME NEW c \in Protocols, c.out = <<>>, NEW s \in Seq(Codes)
  PROVE  Queue(c, s) = [c EXCEPT !.out = s] /\ [c EXCEPT !.out = s] \in Protocols
<1>1. c.out \o s = s
  BY ConcatEmptySeq
<1>2. [c EXCEPT !.out = s] \in Protocols
  BY DEF Protocols
<1> QED BY <1>1, <1>2 DEF Queue

(* What a reply is made of.                                                 *)
LEMMA Replies ==
  ASSUME NEW c \in Protocols, NEW arg \in Nat
  PROVE  /\ <<"R1">> \in Seq(Codes) /\ <<"R1idle">> \in Seq(Codes) /\ <<"R1", "Ocr">> \in Seq(Codes)
         /\ <<"R1">> \o BlockOut(c, arg) \in Seq(Codes)
<1>1. "R1" \in Codes /\ "R1idle" \in Codes /\ "Ocr" \in Codes
  BY DEF Codes
<1>2. BlockOut(c, arg) \in Seq(Codes)
  <2>1. CASE arg < BlockCount
    BY <2>1, BlockQueue
  <2>2. CASE ~(arg < BlockCount)
    <3>1. BlockOut(c, arg) = <<"RangeError">> /\ "RangeError" \in Codes
      BY <2>2, Widths DEF BlockOut, Codes
    <3> QED BY <3>1, Queues
  <2> QED BY <2>1, <2>2
<1>3. <<"R1">> \o BlockOut(c, arg) \in Seq(Codes)
  BY <1>1, <1>2, Preceded
<1> QED BY <1>1, <1>3, Queues

(* A command that is run, its frame complete.                               *)
LEMMA CommandRuns ==
  ASSUME NEW c \in Protocols, NEW l, Sensible(l), Ran(l), c.out = <<>>,
         c.app <=> (l.cmd = "CMD41"),
         c.pending = NoBlock, c.multiRead = NoBlock, c.multiWrite = NoBlock
  PROVE  LET d == Run(c, l.cmd, l.arg) IN
         /\ d \in Protocols /\ d.phase = c.phase /\ d.frame = c.frame /\ d.blocks = c.blocks
         /\ d.out = Replied(l, c) /\ (d.app <=> l.cmd = "CMD55")
         /\ (d.spi <=> (c.spi \/ l.cmd = "CMD0"))
         /\ d.pending = PendingOf(l) /\ d.multiRead = MultiReadOf(l)
         /\ d.multiWrite = MultiWriteOf(l)
<1> DEFINE e == [c EXCEPT !.app = FALSE]
           d == Run(c, l.cmd, l.arg)
           reply == Replied(l, c)
<1>1. /\ l.arg \in Nat /\ l.cmd \in Commands /\ c.spi \in BOOLEAN /\ c.app \in BOOLEAN
      /\ c.multiRead \in Nat \cup {NoBlock} /\ NoBlock \in Nat \cup {NoBlock}
  BY DEF Sensible, Labels, Ran, Protocols
<1>2. reply \in Seq(Codes)
  BY <1>1, Replies DEF Replied
<1>3. e \in Protocols /\ e.out = <<>>
  BY DEF Protocols
<1>4. \A b : BlockOut(e, b) = BlockOut(c, b)
  <2>1. e.blocks = c.blocks
    BY DEF Protocols
  <2> QED BY <2>1 DEF BlockOut
<1>5. ASSUME NEW f \in Protocols, f.out = <<>>, f.phase = c.phase, f.frame = c.frame,
             f.blocks = c.blocks, d = Queue(f, reply)
      PROVE  /\ d \in Protocols /\ d.phase = c.phase /\ d.frame = c.frame /\ d.blocks = c.blocks
             /\ d.out = reply /\ d.app = f.app /\ d.spi = f.spi /\ d.pending = f.pending
             /\ d.multiRead = f.multiRead /\ d.multiWrite = f.multiWrite
  <2> HIDE DEF d, reply
  <2>1. d = [f EXCEPT !.out = reply] /\ d \in Protocols
    BY <1>2, <1>5, QueuedFirst
  <2>2. d.phase = f.phase /\ d.frame = f.frame /\ d.blocks = f.blocks /\ d.out = reply
    BY <1>5, <2>1 DEF Protocols
  <2>3. d.app = f.app /\ d.spi = f.spi /\ d.pending = f.pending
    BY <1>5, <2>1 DEF Protocols
  <2>4. d.multiRead = f.multiRead /\ d.multiWrite = f.multiWrite
    BY <1>5, <2>1 DEF Protocols
  <2> QED BY <1>5, <2>1, <2>2, <2>3, <2>4
<1>6. e.phase = c.phase /\ e.frame = c.frame /\ e.blocks = c.blocks
  BY DEF Protocols
<1>7. e.spi = c.spi /\ e.app = FALSE
  BY DEF Protocols
<1>8. e.pending = NoBlock /\ e.multiRead = NoBlock /\ e.multiWrite = NoBlock
  <2>1. e.pending = c.pending /\ e.multiRead = c.multiRead /\ e.multiWrite = c.multiWrite
    BY DEF Protocols
  <2> QED BY <2>1
<1>9. CASE l.cmd = "CMD41"
  <2> DEFINE f == [e EXCEPT !.ready = TRUE]
  <2>1. d = Queue(f, reply)
    BY <1>4, <1>9 DEF Run, Replied
  <2> HIDE DEF e, d, reply
  <2>2. f \in Protocols /\ f.out = <<>> /\ f.phase = c.phase /\ f.frame = c.frame
    BY <1>1, <1>3, <1>6 DEF Protocols
  <2>3. f.blocks = c.blocks
    BY <1>3, <1>6 DEF Protocols
  <2>4. /\ f.app <=> l.cmd = "CMD55"
        /\ f.spi <=> (c.spi \/ l.cmd = "CMD0")
    BY <1>1, <1>3, <1>7, <1>9 DEF Protocols
  <2>5. f.pending = PendingOf(l) /\ f.multiRead = MultiReadOf(l) /\ f.multiWrite = MultiWriteOf(l)
    BY <1>1, <1>3, <1>8, <1>9 DEF Protocols, PendingOf, MultiReadOf, MultiWriteOf, Ran, Sealed
  <2> HIDE DEF f
  <2> QED BY <1>5, <2>1, <2>2, <2>3, <2>4, <2>5 DEF d, reply
<1>10. CASE l.cmd = "CMD0"
  <2> DEFINE f == [e EXCEPT !.spi = TRUE]
  <2>1. d = Queue(f, reply)
    BY <1>4, <1>10 DEF Run, Replied
  <2> HIDE DEF e, d, reply
  <2>2. f \in Protocols /\ f.out = <<>> /\ f.phase = c.phase /\ f.frame = c.frame
    BY <1>1, <1>3, <1>6 DEF Protocols
  <2>3. f.blocks = c.blocks
    BY <1>3, <1>6 DEF Protocols
  <2>4. /\ f.app <=> l.cmd = "CMD55"
        /\ f.spi <=> (c.spi \/ l.cmd = "CMD0")
    BY <1>1, <1>3, <1>7, <1>10 DEF Protocols
  <2>5. f.pending = PendingOf(l) /\ f.multiRead = MultiReadOf(l) /\ f.multiWrite = MultiWriteOf(l)
    BY <1>1, <1>3, <1>8, <1>10 DEF Protocols, PendingOf, MultiReadOf, MultiWriteOf, Ran, Sealed
  <2> HIDE DEF f
  <2> QED BY <1>5, <2>1, <2>2, <2>3, <2>4, <2>5 DEF d, reply
<1>11. CASE l.cmd = "CMD55"
  <2> DEFINE f == [e EXCEPT !.app = TRUE]
  <2>1. d = Queue(f, reply)
    BY <1>4, <1>11 DEF Run, Replied
  <2> HIDE DEF e, d, reply
  <2>2. f \in Protocols /\ f.out = <<>> /\ f.phase = c.phase /\ f.frame = c.frame
    BY <1>1, <1>3, <1>6 DEF Protocols
  <2>3. f.blocks = c.blocks
    BY <1>3, <1>6 DEF Protocols
  <2>4. /\ f.app <=> l.cmd = "CMD55"
        /\ f.spi <=> (c.spi \/ l.cmd = "CMD0")
    BY <1>1, <1>3, <1>7, <1>11 DEF Protocols
  <2>5. f.pending = PendingOf(l) /\ f.multiRead = MultiReadOf(l) /\ f.multiWrite = MultiWriteOf(l)
    BY <1>1, <1>3, <1>8, <1>11 DEF Protocols, PendingOf, MultiReadOf, MultiWriteOf, Ran, Sealed
  <2> HIDE DEF f
  <2> QED BY <1>5, <2>1, <2>2, <2>3, <2>4, <2>5 DEF d, reply
<1>12. CASE l.cmd = "CMD58"
  <2> DEFINE f == e
  <2>1. d = Queue(f, reply)
    BY <1>4, <1>12 DEF Run, Replied
  <2> HIDE DEF e, d, reply
  <2>2. f \in Protocols /\ f.out = <<>> /\ f.phase = c.phase /\ f.frame = c.frame
    BY <1>1, <1>3, <1>6 DEF Protocols
  <2>3. f.blocks = c.blocks
    BY <1>3, <1>6 DEF Protocols
  <2>4. /\ f.app <=> l.cmd = "CMD55"
        /\ f.spi <=> (c.spi \/ l.cmd = "CMD0")
    BY <1>1, <1>3, <1>7, <1>12 DEF Protocols
  <2>5. f.pending = PendingOf(l) /\ f.multiRead = MultiReadOf(l) /\ f.multiWrite = MultiWriteOf(l)
    BY <1>1, <1>3, <1>8, <1>12 DEF Protocols, PendingOf, MultiReadOf, MultiWriteOf, Ran, Sealed
  <2> HIDE DEF f
  <2> QED BY <1>5, <2>1, <2>2, <2>3, <2>4, <2>5 DEF d, reply
<1>13. CASE l.cmd = "CMD17"
  <2> DEFINE f == e
  <2>1. d = Queue(f, reply)
    BY <1>4, <1>13 DEF Run, Replied
  <2> HIDE DEF e, d, reply
  <2>2. f \in Protocols /\ f.out = <<>> /\ f.phase = c.phase /\ f.frame = c.frame
    BY <1>1, <1>3, <1>6 DEF Protocols
  <2>3. f.blocks = c.blocks
    BY <1>3, <1>6 DEF Protocols
  <2>4. /\ f.app <=> l.cmd = "CMD55"
        /\ f.spi <=> (c.spi \/ l.cmd = "CMD0")
    BY <1>1, <1>3, <1>7, <1>13 DEF Protocols
  <2>5. f.pending = PendingOf(l) /\ f.multiRead = MultiReadOf(l) /\ f.multiWrite = MultiWriteOf(l)
    BY <1>1, <1>3, <1>8, <1>13 DEF Protocols, PendingOf, MultiReadOf, MultiWriteOf, Ran, Sealed
  <2> HIDE DEF f
  <2> QED BY <1>5, <2>1, <2>2, <2>3, <2>4, <2>5 DEF d, reply
<1>14. CASE l.cmd = "CMD18"
  <2> DEFINE f == [e EXCEPT !.multiRead = l.arg]
  <2>1. d = Queue(f, reply)
    BY <1>4, <1>14 DEF Run, Replied
  <2> HIDE DEF e, d, reply
  <2>2. f \in Protocols /\ f.out = <<>> /\ f.phase = c.phase /\ f.frame = c.frame
    BY <1>1, <1>3, <1>6 DEF Protocols
  <2>3. f.blocks = c.blocks
    BY <1>3, <1>6 DEF Protocols
  <2>4. /\ f.app <=> l.cmd = "CMD55"
        /\ f.spi <=> (c.spi \/ l.cmd = "CMD0")
    BY <1>1, <1>3, <1>7, <1>14 DEF Protocols
  <2>5. f.pending = PendingOf(l) /\ f.multiRead = MultiReadOf(l) /\ f.multiWrite = MultiWriteOf(l)
    BY <1>1, <1>3, <1>8, <1>14 DEF Protocols, PendingOf, MultiReadOf, MultiWriteOf, Ran, Sealed
  <2> HIDE DEF f
  <2> QED BY <1>5, <2>1, <2>2, <2>3, <2>4, <2>5 DEF d, reply
<1>15. CASE l.cmd = "CMD24"
  <2> DEFINE f == [e EXCEPT !.pending = l.arg]
  <2>1. d = Queue(f, reply)
    BY <1>4, <1>15 DEF Run, Replied
  <2> HIDE DEF e, d, reply
  <2>2. f \in Protocols /\ f.out = <<>> /\ f.phase = c.phase /\ f.frame = c.frame
    BY <1>1, <1>3, <1>6 DEF Protocols
  <2>3. f.blocks = c.blocks
    BY <1>3, <1>6 DEF Protocols
  <2>4. /\ f.app <=> l.cmd = "CMD55"
        /\ f.spi <=> (c.spi \/ l.cmd = "CMD0")
    BY <1>1, <1>3, <1>7, <1>15 DEF Protocols
  <2>5. f.pending = PendingOf(l) /\ f.multiRead = MultiReadOf(l) /\ f.multiWrite = MultiWriteOf(l)
    BY <1>1, <1>3, <1>8, <1>15 DEF Protocols, PendingOf, MultiReadOf, MultiWriteOf, Ran, Sealed
  <2> HIDE DEF f
  <2> QED BY <1>5, <2>1, <2>2, <2>3, <2>4, <2>5 DEF d, reply
<1>16. CASE l.cmd = "CMD25"
  <2> DEFINE f == [e EXCEPT !.multiWrite = l.arg]
  <2>1. d = Queue(f, reply)
    BY <1>4, <1>16 DEF Run, Replied
  <2> HIDE DEF e, d, reply
  <2>2. f \in Protocols /\ f.out = <<>> /\ f.phase = c.phase /\ f.frame = c.frame
    BY <1>1, <1>3, <1>6 DEF Protocols
  <2>3. f.blocks = c.blocks
    BY <1>3, <1>6 DEF Protocols
  <2>4. /\ f.app <=> l.cmd = "CMD55"
        /\ f.spi <=> (c.spi \/ l.cmd = "CMD0")
    BY <1>1, <1>3, <1>7, <1>16 DEF Protocols
  <2>5. f.pending = PendingOf(l) /\ f.multiRead = MultiReadOf(l) /\ f.multiWrite = MultiWriteOf(l)
    BY <1>1, <1>3, <1>8, <1>16 DEF Protocols, PendingOf, MultiReadOf, MultiWriteOf, Ran, Sealed
  <2> HIDE DEF f
  <2> QED BY <1>5, <2>1, <2>2, <2>3, <2>4, <2>5 DEF d, reply
<1>17. CASE l.cmd = "CMD12"
  <2> DEFINE f == [e EXCEPT !.multiRead = NoBlock, !.multiWrite = NoBlock]
  <2>1. d = Queue(f, reply)
    BY <1>4, <1>17 DEF Run, Replied
  <2> HIDE DEF e, d, reply
  <2>2. f \in Protocols /\ f.out = <<>> /\ f.phase = c.phase /\ f.frame = c.frame
    BY <1>1, <1>3, <1>6 DEF Protocols
  <2>3. f.blocks = c.blocks
    BY <1>3, <1>6 DEF Protocols
  <2>4. /\ f.app <=> l.cmd = "CMD55"
        /\ f.spi <=> (c.spi \/ l.cmd = "CMD0")
    BY <1>1, <1>3, <1>7, <1>17 DEF Protocols
  <2>5. f.pending = PendingOf(l) /\ f.multiRead = MultiReadOf(l) /\ f.multiWrite = MultiWriteOf(l)
    BY <1>1, <1>3, <1>8, <1>17 DEF Protocols, PendingOf, MultiReadOf, MultiWriteOf, Ran, Sealed
  <2> HIDE DEF f
  <2> QED BY <1>5, <2>1, <2>2, <2>3, <2>4, <2>5 DEF d, reply
<1> QED BY <1>1, <1>9, <1>10, <1>11, <1>12, <1>13, <1>14, <1>15, <1>16, <1>17 DEF Commands

(* What a label that asks for nothing leaves standing.                      *)
LEMMA Nothing ==
  ASSUME NEW c, NEW l, CardAt(l, c), AtRest(l) \/ Framing(l)
  PROVE  /\ c.phase = "Command" /\ c.out = <<>> /\ c.pending = NoBlock /\ c.multiRead = NoBlock
         /\ c.multiWrite = NoBlock /\ (c.app <=> Application(l)) /\ FrameIs(l, c)
<1>1. /\ Sensible(l) /\ c.phase = CardPhase(l) /\ c.out = Queued(l, c) /\ c.pending = PendingOf(l)
      /\ c.multiRead = MultiReadOf(l) /\ c.multiWrite = MultiWriteOf(l)
      /\ (c.app <=> Application(l)) /\ FrameIs(l, c)
  BY DEF CardAt, Aimed
<1>2. c.phase = "Command"
  BY <1>1, PhaseOf
<1>3. ~Sending(l)
  BY <1>1, FourKinds
<1>4. Queued(l, c) = <<>>
  BY <1>3 DEF Queued, Sending
<1>5. ~Ran(l)
  BY <1>3 DEF Sending
<1>6. PendingOf(l) = NoBlock
  BY <1>5 DEF PendingOf
<1>7. CASE Framing(l)
  BY <1>1, <1>2, <1>4, <1>5, <1>6, <1>7 DEF MultiReadOf, MultiWriteOf, Framing, Sealed
<1>8. CASE AtRest(l)
  BY <1>1, <1>2, <1>4, <1>5, <1>6, <1>8 DEF MultiReadOf, MultiWriteOf, AtRest, Sealed
<1> QED BY <1>7, <1>8

(* And a stream or a wait.                                                  *)
LEMMA Streamer ==
  ASSUME NEW c, NEW l, CardAt(l, c), Streams(l)
  PROVE  /\ c.phase = "MultiRead" /\ c.out = <<>> /\ c.pending = NoBlock /\ c.multiWrite = NoBlock
         /\ ~c.app /\ c.frame = <<>> /\ c.addr = BlockAt(l)
<1>1. /\ Sensible(l) /\ c.phase = CardPhase(l) /\ c.out = Queued(l, c) /\ c.pending = PendingOf(l)
      /\ c.multiWrite = MultiWriteOf(l) /\ c.addr = BlockAt(l)
      /\ (c.app <=> Application(l)) /\ FrameIs(l, c)
  BY DEF CardAt, Aimed
<1>2. c.phase = "MultiRead" /\ ~Sending(l) /\ ~Framing(l)
  BY <1>1, PhaseOf, FourKinds
<1>3. Queued(l, c) = <<>> /\ ~Ran(l)
  BY <1>2 DEF Queued, Sending
<1>4. PendingOf(l) = NoBlock /\ MultiWriteOf(l) = NoBlock /\ ~Application(l)
  BY <1>3 DEF PendingOf, MultiWriteOf, Application, Streams, Sealed
<1> QED BY <1>1, <1>2, <1>3, <1>4 DEF FrameIs

(* Eight ones start no frame.                                               *)
LEMMA NoFrame == ~FrameStart(FF)
  BY BusAssumption DEF FrameStart, Commands, FF

(* A byte that is not for the card.                                         *)
LEMMA AfterIdle ==
  ASSUME NEW c \in Protocols, NEW l, CardAt(l, c), AtRest(l), NEW m, Sensible(m),
         m = Label("idle", l.cmd, 0, 0)
  PROVE  Obeys(c, m, Xfer(c, FF)) /\ Xfer(c, FF).blocks = c.blocks
<1>1. /\ c.phase = "Command" /\ c.out = <<>> /\ c.pending = NoBlock /\ c.multiRead = NoBlock
      /\ c.multiWrite = NoBlock /\ (c.app <=> Application(l)) /\ FrameIs(l, c)
  BY Nothing
<1>2. m.stage = "idle" /\ m.cmd = l.cmd
  BY DEF Label
<1>3. AtRest(m) /\ ~Framing(m) /\ ~Framing(l) /\ ~Ran(m) /\ ~Sealed(m) /\ ~Streams(m) /\ ~Awaits(m)
  BY <1>2 DEF AtRest, Framing, Ran, Sealed, Streams, Awaits
<1>4. c.frame = <<>>
  BY <1>1, <1>3 DEF FrameIs
<1> DEFINE e == [c EXCEPT !.phase = "Command"]
<1>5. e = c
  BY <1>1 DEF Protocols
<1> HIDE DEF e
<1>6. Xfer(c, FF) = InCommand(c, FF)
  BY <1>1 DEF Xfer
<1>7. CollectCommand(c, FF) = c
  BY <1>4, NoFrame DEF CollectCommand
<1>8. Xfer(c, FF) = c
  BY <1>1, <1>5, <1>6, <1>7 DEF InCommand, e
<1>9. CardPhase(m) = "Command" /\ Queued(m, c) = <<>>
  BY <1>2, <1>3, PhaseOf DEF Queued
<1>10. Application(m) <=> Application(l)
  BY <1>2, <1>3 DEF Application
<1>11. PendingOf(m) = NoBlock /\ MultiReadOf(m) = NoBlock /\ MultiWriteOf(m) = NoBlock
  BY <1>2, <1>3 DEF PendingOf, MultiReadOf, MultiWriteOf
<1>12. CardAt(m, c)
  BY <1>1, <1>2, <1>3, <1>4, <1>9, <1>10, <1>11 DEF CardAt, Aimed, FrameIs
<1> QED BY <1>3, <1>8, <1>12 DEF Obeys

(* A byte of a frame that does not complete it.                             *)
LEMMA FrameByte ==
  ASSUME NEW c \in Protocols, c.out = <<>>, NEW byte \in Codes,
         c.frame # <<>> \/ FrameStart(byte), Len(c.frame) + 1 < FrameBytes
  PROVE  LET d == InCommand(c, byte) IN
         /\ d \in Protocols /\ d.frame = Append(c.frame, byte) /\ d.phase = "Command"
         /\ d.out = <<>> /\ d.spi = c.spi /\ d.app = c.app /\ d.blocks = c.blocks
         /\ d.pending = c.pending /\ d.multiRead = c.multiRead /\ d.multiWrite = c.multiWrite
<1> DEFINE e == [c EXCEPT !.phase = "Command"]
           frame == Append(c.frame, byte)
           d == [e EXCEPT !.frame = frame]
<1>1. c.frame \in Seq(Codes)
  BY DEF Protocols
<1>2. frame \in Seq(Codes) /\ Len(frame) = Len(c.frame) + 1
  BY <1>1, AppendProperties
<1>3. e \in Protocols /\ e.frame = c.frame /\ e.phase = "Command" /\ e.out = <<>>
  BY DEF Protocols
<1>4. e.spi = c.spi /\ e.app = c.app /\ e.blocks = c.blocks
  BY DEF Protocols
<1>5. e.pending = c.pending /\ e.multiRead = c.multiRead /\ e.multiWrite = c.multiWrite
  BY DEF Protocols
<1>6. CollectCommand(e, byte) = d
  <2>1. ~(e.frame = <<>> /\ ~FrameStart(byte)) /\ Append(e.frame, byte) = frame
    BY <1>3
  <2>2. Len(frame) < FrameBytes
    BY <1>2
  <2> HIDE DEF e, frame
  <2> QED BY <2>1, <2>2 DEF CollectCommand
<1>7. InCommand(c, byte) = LET x == CollectCommand(e, byte)
                           IN IF x.out = <<>> THEN x ELSE [x EXCEPT !.phase = "Responding"]
  BY DEF InCommand
<1> HIDE DEF e, frame
<1>8. d \in Protocols
  BY <1>2, <1>3 DEF Protocols
<1>9. d.frame = frame /\ d.phase = e.phase /\ d.out = e.out /\ d.spi = e.spi /\ d.app = e.app
  BY <1>3 DEF Protocols
<1>10. d.blocks = e.blocks /\ d.pending = e.pending /\ d.multiRead = e.multiRead
  BY <1>3 DEF Protocols
<1>11. d.multiWrite = e.multiWrite
  BY <1>3 DEF Protocols
<1> HIDE DEF d
<1>12. InCommand(c, byte) = d
  BY <1>3, <1>6, <1>7, <1>9
<1> QED BY <1>3, <1>4, <1>5, <1>8, <1>9, <1>10, <1>11, <1>12 DEF frame

(* What it is for the card to be amid a frame.                              *)
LEMMA AmidFrame ==
  ASSUME NEW d, NEW m, Sensible(m), Framing(m), d.phase = "Command", d.out = <<>>,
         d.pending = NoBlock, d.multiRead = NoBlock, d.multiWrite = NoBlock,
         d.app <=> (m.cmd = "CMD41"), Len(d.frame) = m.at, d.frame[1] = m.cmd,
         m.at >= 2 => AddressOf(d.frame[2]) = m.arg
  PROVE  CardAt(m, d)
<1>1. ~Ran(m) /\ ~Sealed(m) /\ m.stage = "frame"
  BY DEF Ran, Framing, Sealed
<1>2. CardPhase(m) = "Command" /\ ~Streams(m) /\ ~Awaits(m)
  BY PhaseOf, FourKinds
<1>3. Queued(m, d) = <<>> /\ (Application(m) <=> m.cmd = "CMD41")
  BY <1>1 DEF Queued, Application
<1>4. PendingOf(m) = NoBlock /\ MultiReadOf(m) = NoBlock /\ MultiWriteOf(m) = NoBlock
  BY <1>1 DEF PendingOf, MultiReadOf, MultiWriteOf
<1>5. Aimed(m, d)
  BY <1>1, <1>2, <1>4 DEF Aimed
<1>6. FrameIs(m, d)
  BY DEF FrameIs
<1> QED BY <1>2, <1>3, <1>5, <1>6 DEF CardAt

(* The first byte of a frame.                                               *)
LEMMA FrameBegins ==
  ASSUME NEW c \in Protocols, NEW l, CardAt(l, c), AtRest(l) \/ Streams(l), NEW m, Sensible(m),
         NEW byte \in Codes, m = Label("frame", byte, m.arg, 1), byte \in Commands,
         (byte = "CMD41") = (l.cmd = "CMD55")
  PROVE  Obeys(c, m, Xfer(c, byte)) /\ Xfer(c, byte).blocks = c.blocks
<1>1. m.stage = "frame" /\ m.cmd = byte /\ m.at = 1
  BY DEF Label
<1>2. Framing(m) /\ ~Ran(m)
  BY <1>1, Widths DEF Framing, Ran
<1>3. FrameStart(byte)
  BY DEF FrameStart
<1>4. ASSUME NEW x \in Protocols, x.out = <<>>, x.frame = <<>>, x.pending = NoBlock,
             x.multiRead = NoBlock, x.multiWrite = NoBlock, x.spi = c.spi, x.blocks = c.blocks,
             x.app <=> (byte = "CMD41"), Xfer(c, byte) = InCommand(x, byte)
      PROVE  Obeys(c, m, Xfer(c, byte)) /\ Xfer(c, byte).blocks = c.blocks
  <2> DEFINE d == InCommand(x, byte)
  <2>1. Len(x.frame) = 0 /\ Len(x.frame) + 1 < FrameBytes
    <3>1. Len(x.frame) = 0
      BY <1>4
    <3>2. FrameBytes # 1 /\ FrameBytes \in Nat /\ FrameBytes >= 2
      BY Widths
    <3>3. 0 + 1 < FrameBytes \/ FrameBytes = 2
      BY <3>2
    <3> QED BY <3>1, <3>2
  <2>2. /\ d \in Protocols /\ d.frame = Append(x.frame, byte) /\ d.phase = "Command"
        /\ d.out = <<>> /\ d.spi = x.spi /\ d.app = x.app /\ d.blocks = x.blocks
        /\ d.pending = x.pending /\ d.multiRead = x.multiRead /\ d.multiWrite = x.multiWrite
    BY <1>3, <1>4, <2>1, FrameByte
  <2> HIDE DEF d
  <2>3. Len(d.frame) = 1 /\ d.frame[1] = byte
    BY <1>4, <2>2
  <2>4. CardAt(m, d)
    <3>1. ~(m.at >= 2) /\ Len(d.frame) = m.at /\ d.frame[1] = m.cmd
      BY <1>1, <2>3
    <3>2. d.app <=> (m.cmd = "CMD41")
      BY <1>1, <1>4, <2>2
    <3> QED BY ZenonT(40), <1>2, <1>4, <2>2, <3>1, <3>2, AmidFrame
  <2> QED BY <1>2, <1>4, <2>2, <2>4 DEF Obeys, d
<1>5. CASE AtRest(l)
  <2>1. /\ c.phase = "Command" /\ c.out = <<>> /\ c.pending = NoBlock /\ c.multiRead = NoBlock
        /\ c.multiWrite = NoBlock /\ (c.app <=> Application(l)) /\ FrameIs(l, c)
    BY <1>5, Nothing
  <2>2. ~Framing(l)
    BY <1>5 DEF AtRest, Framing
  <2>3. c.frame = <<>> /\ (c.app <=> byte = "CMD41")
    BY <2>1, <2>2 DEF FrameIs, Application
  <2>4. Xfer(c, byte) = InCommand(c, byte)
    BY <2>1 DEF Xfer
  <2> QED BY <1>4, <2>1, <2>3, <2>4
<1>6. CASE Streams(l)
  <2>1. /\ c.phase = "MultiRead" /\ c.out = <<>> /\ c.pending = NoBlock /\ c.multiWrite = NoBlock
        /\ ~c.app /\ c.frame = <<>>
    BY <1>6, Streamer
  <2> DEFINE x == [c EXCEPT !.multiRead = NoBlock]
  <2>2. x \in Protocols /\ x.out = <<>> /\ x.frame = <<>> /\ x.multiRead = NoBlock
    BY <2>1 DEF Protocols
  <2>3. x.pending = NoBlock /\ x.multiWrite = NoBlock /\ ~x.app
    BY <2>1 DEF Protocols
  <2>4. x.spi = c.spi /\ x.blocks = c.blocks
    BY DEF Protocols
  <2>5. Xfer(c, byte) = InCommand(x, byte)
    BY <1>3, <2>1 DEF Xfer, MultiReadByte
  <2>6. byte # "CMD41"
    BY <1>6 DEF Streams
  <2> HIDE DEF x
  <2> QED BY <1>4, <2>2, <2>3, <2>4, <2>5, <2>6
<1> QED BY <1>5, <1>6

(* A byte of a frame that is neither its first nor its last.                *)
LEMMA FrameGoes ==
  ASSUME NEW c \in Protocols, NEW l, CardAt(l, c), Framing(l), NEW m, Sensible(m),
         NEW byte \in Codes, m = Label("frame", l.cmd, l.arg, l.at + 1), l.at + 1 < FrameBytes,
         m.at = 2 => AddressOf(byte) = l.arg
  PROVE  Obeys(c, m, Xfer(c, byte)) /\ Xfer(c, byte).blocks = c.blocks
<1>1. /\ m.stage = "frame" /\ m.cmd = l.cmd /\ m.at = l.at + 1 /\ m.arg = l.arg
      /\ l.at \in Nat /\ l.at >= 1
  <2>1. l.at \in 1..FrameBytes
    BY DEF CardAt, Sensible, Framing
  <2> QED BY <2>1, Widths DEF Label
<1>2. Framing(m) /\ ~Ran(m)
  BY <1>1, Widths DEF Framing, Ran
<1>3. /\ c.phase = "Command" /\ c.out = <<>> /\ c.pending = NoBlock /\ c.multiRead = NoBlock
      /\ c.multiWrite = NoBlock /\ (c.app <=> Application(l)) /\ FrameIs(l, c)
  BY Nothing
<1>4. /\ Len(c.frame) = l.at /\ c.frame[1] = l.cmd /\ (l.at >= 2 => AddressOf(c.frame[2]) = l.arg)
      /\ (c.app <=> l.cmd = "CMD41")
  BY <1>3 DEF FrameIs, Application
<1>5. c.frame \in Seq(Codes) /\ c.frame # <<>>
  BY <1>1, <1>4 DEF Protocols
<1> DEFINE d == Xfer(c, byte)
<1>6. d = InCommand(c, byte)
  BY <1>3 DEF Xfer
<1>7. /\ d \in Protocols /\ d.frame = Append(c.frame, byte) /\ d.phase = "Command"
      /\ d.out = <<>> /\ d.spi = c.spi /\ d.app = c.app /\ d.blocks = c.blocks
      /\ d.pending = c.pending /\ d.multiRead = c.multiRead /\ d.multiWrite = c.multiWrite
  BY <1>1, <1>3, <1>4, <1>5, <1>6, FrameByte
<1> HIDE DEF d
<1>8. /\ Len(d.frame) = l.at + 1 /\ d.frame[l.at + 1] = byte
      /\ \A i \in 1..l.at : d.frame[i] = c.frame[i]
  BY <1>4, <1>5, <1>7, AppendProperties
<1>9. d.frame[1] = m.cmd /\ (m.at >= 2 => AddressOf(d.frame[2]) = m.arg)
  <2>1. CASE l.at = 1
    BY <1>1, <1>4, <1>8, <2>1
  <2>2. CASE l.at >= 2
    BY <1>1, <1>4, <1>8, <2>2
  <2> QED BY <1>1, <2>1, <2>2
<1>10. CardAt(m, d)
  BY SMTT(30), <1>1, <1>2, <1>3, <1>4, <1>7, <1>8, <1>9, AmidFrame
<1> QED BY <1>2, <1>7, <1>10 DEF Obeys, d

(* And its last: the command is run and its reply is queued.                *)
LEMMA FrameEnds ==
  ASSUME NEW c \in Protocols, NEW l, CardAt(l, c), Framing(l), NEW m, Sensible(m),
         NEW byte \in Codes, m = Label("frame", l.cmd, l.arg, l.at + 1), l.at + 1 = FrameBytes,
         m.at = 2 => AddressOf(byte) = l.arg
  PROVE  Obeys(c, m, Xfer(c, byte)) /\ Xfer(c, byte).blocks = c.blocks
<1>1. /\ m.stage = "frame" /\ m.cmd = l.cmd /\ m.at = l.at + 1 /\ m.arg = l.arg
      /\ l.at \in Nat /\ l.at >= 1
  <2>1. l.at \in 1..FrameBytes
    BY DEF CardAt, Sensible, Framing
  <2> QED BY <2>1, Widths DEF Label
<1>2. Ran(m) /\ ~Framing(m) /\ Sending(m)
  BY <1>1 DEF Framing, Ran, Sending
<1>3. /\ c.phase = "Command" /\ c.out = <<>> /\ c.pending = NoBlock /\ c.multiRead = NoBlock
      /\ c.multiWrite = NoBlock /\ (c.app <=> Application(l)) /\ FrameIs(l, c)
  BY Nothing
<1>4. /\ Len(c.frame) = l.at /\ c.frame[1] = l.cmd /\ (l.at >= 2 => AddressOf(c.frame[2]) = l.arg)
      /\ (c.app <=> l.cmd = "CMD41")
  BY <1>3 DEF FrameIs, Application
<1>5. c.frame \in Seq(Codes) /\ c.frame # <<>>
  BY <1>1, <1>4 DEF Protocols
<1> DEFINE e == [c EXCEPT !.phase = "Command"]
           frame == Append(c.frame, byte)
           x == [e EXCEPT !.frame = <<>>]
           y == Run(x, m.cmd, m.arg)
           d == Xfer(c, byte)
<1>6. /\ Len(frame) = l.at + 1 /\ frame[l.at + 1] = byte
      /\ \A i \in 1..l.at : frame[i] = c.frame[i]
  BY <1>4, <1>5, AppendProperties
<1> HIDE DEF frame
<1>7. frame[1] = m.cmd /\ AddressOf(frame[2]) = m.arg
  <2>1. CASE l.at = 1
    BY <1>1, <1>4, <1>6, <2>1
  <2>2. CASE l.at >= 2
    BY <1>1, <1>4, <1>6, <2>2
  <2> QED BY <1>1, <2>1, <2>2
<1>8. e.frame = c.frame
  BY DEF Protocols
<1>9. CollectCommand(e, byte) = y
  <2>1. ~(e.frame = <<>> /\ ~FrameStart(byte)) /\ Append(e.frame, byte) = frame
    BY <1>5, <1>8 DEF frame
  <2>2. ~(Len(frame) < FrameBytes)
    BY <1>1, <1>6, Widths
  <2> HIDE DEF e
  <2> QED BY <1>7, <2>1, <2>2 DEF CollectCommand
<1>10. d = LET z == CollectCommand(e, byte)
           IN IF z.out = <<>> THEN z ELSE [z EXCEPT !.phase = "Responding"]
  BY <1>3 DEF Xfer, InCommand
<1>11. x \in Protocols /\ x.out = <<>> /\ x.frame = <<>> /\ x.spi = c.spi /\ x.app = c.app
  BY <1>3 DEF Protocols
<1>12. x.pending = NoBlock /\ x.multiRead = NoBlock /\ x.multiWrite = NoBlock /\ x.blocks = c.blocks
  BY <1>3 DEF Protocols
<1> HIDE DEF x, e
<1>13. /\ y \in Protocols /\ y.frame = <<>> /\ y.blocks = c.blocks
       /\ y.out = Replied(m, x) /\ (y.app <=> m.cmd = "CMD55")
       /\ (y.spi <=> (c.spi \/ m.cmd = "CMD0"))
       /\ y.pending = PendingOf(m) /\ y.multiRead = MultiReadOf(m)
       /\ y.multiWrite = MultiWriteOf(m)
  BY <1>1, <1>2, <1>4, <1>11, <1>12, CommandRuns
<1> HIDE DEF y
<1>14. y.out = Queued(m, c) /\ y.out # <<>> /\ y.out \in Seq(Codes)
  <2>1. Queued(m, x) = Replied(m, x)
    BY <1>2 DEF Queued, Ran, Sealed
  <2>2. Queued(m, x) = Queued(m, c)
    BY <1>12, QueueOfBlocks
  <2> QED BY <1>2, <1>13, <2>1, <2>2, QueueKind
<1>15. d = [y EXCEPT !.phase = "Responding"]
  BY <1>9, <1>10, <1>14
<1> HIDE DEF d
<1>16. d \in Protocols /\ d.phase = "Responding" /\ d.frame = y.frame /\ d.blocks = y.blocks
  BY <1>13, <1>15 DEF Protocols
<1>17. d.out = y.out /\ d.app = y.app /\ d.spi = y.spi
  BY <1>13, <1>15 DEF Protocols
<1>18. d.pending = y.pending /\ d.multiRead = y.multiRead /\ d.multiWrite = y.multiWrite
  BY <1>13, <1>15 DEF Protocols
<1>19. /\ ~Streams(m) /\ ~Awaits(m) /\ m.stage \notin {"start", "data", "seal"}
       /\ CardPhase(m) = "Responding"
  BY <1>1, <1>2, PhaseOf, FourKinds
<1>20. Aimed(m, d)
  BY <1>13, <1>18, <1>19 DEF Aimed
<1>21. Queued(m, d) = Queued(m, c)
  BY <1>13, <1>16, QueueOfBlocks
<1>22. Application(m) <=> m.cmd = "CMD55"
  BY <1>2 DEF Application
<1>23. FrameIs(m, d)
  BY <1>2, <1>13, <1>16 DEF FrameIs
<1>24. CardAt(m, d)
  BY <1>13, <1>14, <1>16, <1>17, <1>19, <1>20, <1>21, <1>22, <1>23 DEF CardAt
<1> QED BY <1>2, <1>13, <1>16, <1>17, <1>24 DEF Obeys, d

(* A byte between the blocks of a stream: the next block is queued.         *)
LEMMA AfterGap ==
  ASSUME NEW c \in Protocols, NEW l, CardAt(l, c), Streams(l), NEW m, Sensible(m), NEW byte,
         ~FrameStart(byte), m = Label("gap", l.cmd, BlockAt(l), 0), m.arg < BlockCount
  PROVE  Obeys(c, m, Xfer(c, byte)) /\ Xfer(c, byte).blocks = c.blocks
<1>1. m.stage = "gap" /\ m.cmd = "CMD18" /\ m.arg = BlockAt(l) /\ m.arg \in Nat
  BY DEF Label, Streams, Sensible, Labels
<1>2. /\ c.phase = "MultiRead" /\ c.out = <<>> /\ c.pending = NoBlock /\ c.multiWrite = NoBlock
      /\ ~c.app /\ c.frame = <<>> /\ c.addr = m.arg
  BY <1>1, Streamer
<1> DEFINE e == [c EXCEPT !.multiRead = c.addr + 1, !.phase = "Responding"]
           d == Xfer(c, byte)
           s == BlockOut(c, c.addr)
<1>3. d = Queue(e, s)
  BY <1>2 DEF Xfer, MultiReadByte
<1>4. e \in Protocols /\ e.out = <<>> /\ e.phase = "Responding" /\ e.multiRead = m.arg + 1
  <2>1. c.addr + 1 \in Nat \cup {NoBlock} /\ c.addr + 1 = m.arg + 1
    BY <1>1, <1>2
  <2> QED BY <1>2, <2>1 DEF Protocols
<1>5. e.spi = c.spi /\ e.blocks = c.blocks /\ e.frame = <<>> /\ e.pending = NoBlock
  BY <1>2 DEF Protocols
<1>6. e.multiWrite = NoBlock /\ ~e.app
  BY <1>2 DEF Protocols
<1>7. s \in Seq(Codes)
  BY <1>1, <1>2, Streaming
<1> HIDE DEF e, d, s
<1>8. d = [e EXCEPT !.out = s] /\ d \in Protocols
  BY ZenonT(40), <1>3, <1>4, <1>7, QueuedFirst
<1>9. d.out = s /\ d.phase = e.phase /\ d.multiRead = e.multiRead /\ d.spi = e.spi
  BY <1>4, <1>8 DEF Protocols
<1>10. d.blocks = e.blocks /\ d.frame = e.frame /\ d.pending = e.pending
  BY <1>4, <1>8 DEF Protocols
<1>11. d.multiWrite = e.multiWrite /\ d.app = e.app
  BY <1>4, <1>8 DEF Protocols
<1>12. Sending(m) /\ ~Ran(m) /\ ~Sealed(m) /\ ~Framing(m)
  BY <1>1 DEF Sending, Ran, Sealed, Framing
<1>13. CardPhase(m) = "Responding" /\ ~Streams(m) /\ ~Awaits(m)
  BY <1>12, PhaseOf, FourKinds
<1>14. Queued(m, d) = Queued(m, c)
  BY <1>5, <1>10, QueueOfBlocks
<1>15. Queued(m, c) = s
  BY <1>1, <1>2, <1>12 DEF Queued, s
<1>16. /\ PendingOf(m) = NoBlock /\ MultiReadOf(m) = m.arg + 1 /\ MultiWriteOf(m) = NoBlock
       /\ ~Application(m)
  BY <1>1, <1>12 DEF PendingOf, MultiReadOf, MultiWriteOf, Application
<1>17. Aimed(m, d)
  BY <1>1, <1>4, <1>5, <1>6, <1>9, <1>10, <1>11, <1>13, <1>16 DEF Aimed
<1>18. CardAt(m, d)
  BY <1>4, <1>5, <1>6, <1>9, <1>10, <1>11, <1>12, <1>13, <1>14, <1>15, <1>16, <1>17
     DEF CardAt, FrameIs
<1> QED BY <1>5, <1>8, <1>9, <1>10, <1>12, <1>18 DEF Obeys, d

(* The labels at which the card takes a block in.                           *)
Taking(l) == l.stage \in {"start", "data"} \/ (l.stage = "seal" /\ ~Sealed(l))

(* The card amid a write.                                                   *)
LEMMA Writer ==
  ASSUME NEW c, NEW l, Awaits(l) \/ Taking(l), Sensible(l)
  PROVE  CardAt(l, c) <=>
           /\ c.phase = "Receiving" /\ c.out = <<>> /\ c.pending = NoBlock
           /\ c.multiRead = NoBlock /\ ~c.app /\ c.frame = <<>>
           /\ c.addr = BlockAt(l) /\ c.multiWrite = (IF l.cmd = "CMD25" THEN BlockAt(l) ELSE NoBlock)
           /\ (c.started <=> Taking(l))
<1>1. l.cmd \in {"CMD24", "CMD25"} /\ ~Ran(l)
  BY DEF Awaits, Taking, Sensible, Ran
<1>2. CardPhase(l) = "Receiving"
  BY PhaseOf DEF Taking
<1>3. ~Sending(l) /\ ~Streams(l) /\ ~Framing(l)
  BY FourKinds DEF Taking, Sealed, Streams, Framing
<1>4. Queued(l, c) = <<>>
  BY <1>3 DEF Queued, Sending
<1>5. PendingOf(l) = NoBlock /\ MultiReadOf(l) = NoBlock /\ ~Application(l)
  BY <1>1 DEF PendingOf, MultiReadOf, Application
<1>6. Taking(l) => BlockAt(l) = l.arg
  BY DEF Taking, BlockAt
<1>7. MultiWriteOf(l) = IF l.cmd = "CMD25" THEN BlockAt(l) ELSE NoBlock
  BY <1>1 DEF MultiWriteOf, BlockAt, Awaits, Taking, Sealed
<1>8. Taking(l) => ~Awaits(l)
  BY DEF Taking, Awaits
<1>9. Aimed(l, c) <=>
        /\ c.pending = NoBlock /\ c.multiRead = NoBlock /\ c.multiWrite = MultiWriteOf(l)
        /\ c.addr = BlockAt(l) /\ (c.started <=> Taking(l))
  <2>1. CASE Taking(l)
    <3>1. ~Awaits(l) /\ BlockAt(l) = l.arg
      BY <2>1, <1>6, <1>8
    <3>2. (l.stage \in {"start", "data", "seal"} /\ ~Sealed(l)) <=> TRUE
      BY <2>1 DEF Taking, Sealed
    <3> QED BY <1>3, <1>5, <2>1, <3>1, <3>2 DEF Aimed
  <2>2. CASE ~Taking(l)
    <3>1. Awaits(l)
      BY <2>2
    <3>2. (l.stage \in {"start", "data", "seal"} /\ ~Sealed(l)) <=> FALSE
      BY <2>2 DEF Taking, Sealed
    <3> QED BY <1>3, <1>5, <2>2, <3>1, <3>2 DEF Aimed
  <2> QED BY <2>1, <2>2
<1> QED BY <1>2, <1>3, <1>4, <1>5, <1>7, <1>9 DEF CardAt, FrameIs

(* A byte before a block's token.                                           *)
LEMMA AfterWait ==
  ASSUME NEW c \in Protocols, NEW l, CardAt(l, c), Awaits(l), NEW m, Sensible(m), NEW byte,
         byte \notin {"FE", "FC", "FD"}, m = Label("waiting", l.cmd, BlockAt(l), 0)
  PROVE  Obeys(c, m, Xfer(c, byte)) /\ Xfer(c, byte).blocks = c.blocks
<1>1. Sensible(l) /\ ~Taking(l)
  BY DEF CardAt, Taking, Awaits
<1>2. /\ c.phase = "Receiving" /\ c.out = <<>> /\ c.pending = NoBlock
      /\ c.multiRead = NoBlock /\ ~c.app /\ c.frame = <<>>
      /\ c.addr = BlockAt(l) /\ c.multiWrite = (IF l.cmd = "CMD25" THEN BlockAt(l) ELSE NoBlock)
      /\ ~c.started
  BY <1>1, Writer
<1>3. m.stage = "waiting" /\ m.cmd = l.cmd /\ BlockAt(m) = BlockAt(l)
  BY DEF Label, BlockAt
<1>4. Awaits(m) /\ ~Taking(m) /\ ~Ran(m)
  BY <1>3 DEF Awaits, Taking, Ran
<1>5. Xfer(c, byte) = c
  BY <1>2 DEF Xfer, ReceiveBlockByte
<1>6. CardAt(m, c)
  BY <1>2, <1>3, <1>4, Writer
<1> QED BY <1>4, <1>5, <1>6 DEF Obeys

(* The token of a block.                                                    *)
LEMMA AfterToken ==
  ASSUME NEW c \in Protocols, NEW l, CardAt(l, c), Awaits(l), NEW m, Sensible(m), NEW byte,
         byte = "FE" \/ (byte = "FC" /\ l.cmd = "CMD25"), m = Label("start", l.cmd, BlockAt(l), 0)
  PROVE  /\ Obeys(c, m, Xfer(c, byte)) /\ Xfer(c, byte).blocks = c.blocks
         /\ Xfer(c, byte).incoming = <<>>
<1>1. Sensible(l) /\ ~Taking(l)
  BY DEF CardAt, Taking, Awaits
<1>2. /\ c.phase = "Receiving" /\ c.out = <<>> /\ c.pending = NoBlock
      /\ c.multiRead = NoBlock /\ ~c.app /\ c.frame = <<>>
      /\ c.addr = BlockAt(l) /\ c.multiWrite = (IF l.cmd = "CMD25" THEN BlockAt(l) ELSE NoBlock)
      /\ ~c.started
  BY <1>1, Writer
<1>3. m.stage = "start" /\ m.cmd = l.cmd /\ BlockAt(m) = BlockAt(l) /\ BlockAt(m) \in Nat
  BY DEF Label, BlockAt, Sensible, Labels
<1>4. Taking(m) /\ ~Ran(m)
  BY <1>3 DEF Taking, Ran
<1> DEFINE d == Xfer(c, byte)
<1>5. d = [c EXCEPT !.incoming = <<>>, !.started = TRUE]
  <2>1. ~(~c.started /\ c.multiWrite # NoBlock /\ byte = "FD")
    OBVIOUS
  <2>2. ~c.started /\ (byte = "FE" \/ (c.multiWrite # NoBlock /\ byte = "FC"))
    BY <1>2, <1>3 DEF NoBlock
  <2> QED BY <1>2, <2>1, <2>2 DEF Xfer, ReceiveBlockByte
<1> HIDE DEF d
<1>6. d \in Protocols /\ d.incoming = <<>> /\ d.started /\ d.spi = c.spi /\ d.blocks = c.blocks
  <2>1. <<>> \in Seq(Codes)
    OBVIOUS
  <2> QED BY <1>5, <2>1 DEF Protocols
<1>7. d.phase = c.phase /\ d.out = c.out /\ d.pending = c.pending /\ d.multiRead = c.multiRead
  BY <1>5 DEF Protocols
<1>8. d.app = c.app /\ d.frame = c.frame /\ d.addr = c.addr /\ d.multiWrite = c.multiWrite
  BY <1>5 DEF Protocols
<1>9. CardAt(m, d)
  BY <1>2, <1>3, <1>4, <1>6, <1>7, <1>8, Writer
<1> QED BY <1>4, <1>6, <1>9 DEF Obeys, d

(* The token that ends a write of many blocks.                              *)
LEMMA AfterStop ==
  ASSUME NEW c \in Protocols, NEW l, CardAt(l, c), Awaits(l), NEW m, Sensible(m),
         l.cmd = "CMD25", m = Label("stop", l.cmd, 0, 0)
  PROVE  Obeys(c, m, Xfer(c, "FD")) /\ Xfer(c, "FD").blocks = c.blocks
<1>1. Sensible(l) /\ ~Taking(l)
  BY DEF CardAt, Taking, Awaits
<1>2. /\ c.phase = "Receiving" /\ c.out = <<>> /\ c.pending = NoBlock
      /\ c.multiRead = NoBlock /\ ~c.app /\ c.frame = <<>>
      /\ c.addr = BlockAt(l) /\ c.multiWrite = BlockAt(l) /\ ~c.started
  BY <1>1, Writer
<1>3. m.stage = "stop" /\ m.cmd = "CMD25"
  BY DEF Label
<1>4. ~Ran(m) /\ ~Sealed(m) /\ ~Framing(m) /\ Sending(m)
  BY <1>3 DEF Ran, Sealed, Framing, Sending
<1> DEFINE d == Xfer(c, "FD")
           e == [c EXCEPT !.multiWrite = NoBlock, !.incoming = <<>>, !.phase = "Responding"]
<1>5. d = Queue(e, <<FF>>)
  <2>1. c.multiWrite # NoBlock
    BY <1>2 DEF Protocols, NoBlock
  <2> QED BY <1>2, <2>1 DEF Xfer, ReceiveBlockByte
<1>6. e \in Protocols /\ e.out = <<>> /\ e.phase = "Responding" /\ e.multiWrite = NoBlock
  <2>1. <<>> \in Seq(Codes)
    OBVIOUS
  <2> QED BY <1>2, <2>1 DEF Protocols
<1>7. e.spi = c.spi /\ e.blocks = c.blocks /\ e.frame = <<>> /\ e.pending = NoBlock
  BY <1>2 DEF Protocols
<1>8. e.multiRead = NoBlock /\ ~e.app
  BY <1>2 DEF Protocols
<1> HIDE DEF d, e
<1>9. <<FF>> \in Seq(Codes)
  BY DEF Codes, FF
<1>10. d = [e EXCEPT !.out = <<FF>>] /\ d \in Protocols
  BY <1>5, <1>6, <1>9, QueuedFirst
<1>11. d.out = <<FF>> /\ d.phase = e.phase /\ d.multiRead = e.multiRead /\ d.spi = e.spi
  BY <1>6, <1>10 DEF Protocols
<1>12. d.blocks = e.blocks /\ d.frame = e.frame /\ d.pending = e.pending
  BY <1>6, <1>10 DEF Protocols
<1>13. d.multiWrite = e.multiWrite /\ d.app = e.app
  BY <1>6, <1>10 DEF Protocols
<1>14. CardPhase(m) = "Responding" /\ ~Streams(m) /\ ~Awaits(m)
  BY <1>4, PhaseOf, FourKinds
<1>15. Queued(m, d) = <<FF>>
  BY <1>3, <1>4 DEF Queued
<1>16. /\ PendingOf(m) = NoBlock /\ MultiReadOf(m) = NoBlock /\ MultiWriteOf(m) = NoBlock
       /\ ~Application(m)
  BY <1>3, <1>4 DEF PendingOf, MultiReadOf, MultiWriteOf, Application
<1>17. Aimed(m, d)
  BY <1>3, <1>6, <1>7, <1>8, <1>11, <1>12, <1>13, <1>14, <1>16 DEF Aimed
<1>18. CardAt(m, d)
  BY <1>4, <1>6, <1>7, <1>8, <1>11, <1>12, <1>13, <1>14, <1>15, <1>16, <1>17 DEF CardAt, FrameIs
<1> QED BY <1>4, <1>7, <1>10, <1>11, <1>12, <1>18 DEF Obeys, d

(* A byte of a block or of its check.                                       *)
LEMMA AfterData ==
  ASSUME NEW c \in Protocols, NEW l, CardAt(l, c), Taking(l), NEW m, Sensible(m), Taking(m),
         m.stage # "start", m.cmd = l.cmd, m.arg = l.arg, NEW byte \in Codes,
         Len(c.incoming) + 1 # BlockBytes + CrcBytes
  PROVE  /\ Obeys(c, m, Xfer(c, byte)) /\ Xfer(c, byte).blocks = c.blocks
         /\ Xfer(c, byte).incoming = Append(c.incoming, byte)
<1>1. Sensible(l) /\ BlockAt(l) = l.arg /\ BlockAt(m) = m.arg /\ ~Ran(m)
  BY DEF CardAt, Taking, BlockAt, Ran
<1>2. /\ c.phase = "Receiving" /\ c.out = <<>> /\ c.pending = NoBlock
      /\ c.multiRead = NoBlock /\ ~c.app /\ c.frame = <<>>
      /\ c.addr = BlockAt(l) /\ c.multiWrite = (IF l.cmd = "CMD25" THEN BlockAt(l) ELSE NoBlock)
      /\ c.started
  BY <1>1, Writer
<1>3. c.incoming \in Seq(Codes)
  BY DEF Protocols
<1> DEFINE d == Xfer(c, byte)
           incoming == Append(c.incoming, byte)
<1>4. incoming \in Seq(Codes) /\ Len(incoming) = Len(c.incoming) + 1
  BY <1>3, AppendProperties
<1> HIDE DEF incoming
<1>5. d = [c EXCEPT !.incoming = incoming]
  <2> DEFINE e == [c EXCEPT !.incoming = Append(@, byte)]
  <2>1. d = IF Len(e.incoming) = BlockBytes + CrcBytes THEN BlockTaken(e) ELSE e
    BY <1>2 DEF Xfer, ReceiveBlockByte
  <2>2. e.incoming = incoming
    BY DEF incoming, Protocols
  <2>3. Len(e.incoming) # BlockBytes + CrcBytes
    BY <1>4, <2>2
  <2> QED BY <2>1, <2>3 DEF incoming
<1> HIDE DEF d
<1>6. d \in Protocols /\ d.incoming = incoming /\ d.started = c.started /\ d.spi = c.spi
  BY <1>4, <1>5 DEF Protocols
<1>7. d.phase = c.phase /\ d.out = c.out /\ d.pending = c.pending /\ d.multiRead = c.multiRead
  BY <1>5 DEF Protocols
<1>8. d.app = c.app /\ d.frame = c.frame /\ d.addr = c.addr /\ d.multiWrite = c.multiWrite
  BY <1>5 DEF Protocols
<1>9. d.blocks = c.blocks
  BY <1>5 DEF Protocols
<1>10. CardAt(m, d)
  BY ZenonT(40), <1>1, <1>2, <1>6, <1>7, <1>8, Writer
<1> QED BY <1>1, <1>6, <1>9, <1>10 DEF Obeys, d, incoming

(* A block put in its place, and the part of what came in that is the block. *)
Put(blocks, b, block) == [a \in DOMAIN blocks |-> IF a = b THEN block ELSE blocks[a]]
BlockIn(s) == [i \in 1..BlockBytes |-> s[i]]

(* The last byte of a check: the block is stored, whole.                    *)
LEMMA AfterCheck ==
  ASSUME NEW c \in Protocols, NEW l, CardAt(l, c), Taking(l), NEW m, Sensible(m), Sealed(m),
         m.cmd = l.cmd, m.arg = l.arg, NEW byte \in Codes,
         Len(c.incoming) + 1 = BlockBytes + CrcBytes
  PROVE  LET d == Xfer(c, byte) IN
         /\ Obeys(c, m, d)
         /\ d.blocks = Put(c.blocks, m.arg, BlockIn(Append(c.incoming, byte)))
<1>1. Sensible(l) /\ BlockAt(l) = l.arg /\ l.arg \in Nat /\ m.cmd \in {"CMD24", "CMD25"}
  BY DEF CardAt, Taking, BlockAt, Sensible, Sealed, Labels
<1>2. /\ c.phase = "Receiving" /\ c.out = <<>> /\ c.pending = NoBlock
      /\ c.multiRead = NoBlock /\ ~c.app /\ c.frame = <<>>
      /\ c.addr = m.arg /\ c.multiWrite = (IF m.cmd = "CMD25" THEN m.arg ELSE NoBlock)
      /\ c.started
  BY <1>1, Writer
<1>3. c.incoming \in Seq(Codes) /\ c.blocks \in Disks
  BY DEF Protocols
<1> DEFINE d == Xfer(c, byte)
           incoming == Append(c.incoming, byte)
           block == [i \in 1..BlockBytes |-> incoming[i]]
           blocks == [b \in DOMAIN c.blocks |-> IF b = m.arg THEN block ELSE c.blocks[b]]
           many == IF m.cmd = "CMD25" THEN m.arg + 1 ELSE NoBlock
           e == [c EXCEPT !.incoming = Append(@, byte)]
           f == [e EXCEPT !.blocks = blocks, !.incoming = <<>>, !.phase = "Responding",
                          !.multiWrite = many]
           reply == <<"Accepted", FF>>
<1>4. incoming \in Seq(Codes) /\ Len(incoming) = BlockBytes + CrcBytes
  BY <1>3, AppendProperties
<1> HIDE DEF incoming
<1>5. \A i \in 1..BlockBytes : incoming[i] \in Codes
  BY <1>4, Widths
<1>6. SubSeq(incoming, 1, BlockBytes) = block
  <2>1. /\ SubSeq(incoming, 1, BlockBytes) \in Seq(Codes)
        /\ Len(SubSeq(incoming, 1, BlockBytes)) = BlockBytes
        /\ \A i \in 1..BlockBytes : SubSeq(incoming, 1, BlockBytes)[i] = incoming[i]
    <3>1. 1 \in Int /\ BlockBytes \in Int /\ 1 <= BlockBytes /\ BlockBytes - 1 + 1 = BlockBytes
      BY Widths
    <3> DEFINE t == SubSeq(incoming, 1, BlockBytes)
    <3>2. /\ t \in Seq(Codes) /\ Len(t) = IF 1 <= BlockBytes THEN BlockBytes - 1 + 1 ELSE 0
          /\ \A i \in 1..BlockBytes - 1 + 1 : t[i] = incoming[1 + i - 1]
      BY <1>5, <3>1, SubSeqProperties
    <3> HIDE DEF t
    <3>3. \A i \in 1..BlockBytes : t[i] = incoming[i]
      <4>1. \A i \in 1..BlockBytes : i \in 1..BlockBytes - 1 + 1 /\ 1 + i - 1 = i
        BY Widths
      <4> QED BY <3>2, <4>1
    <3> QED BY <3>1, <3>2, <3>3 DEF t
  <2>2. block \in Seq(Codes) /\ Len(block) = BlockBytes
    BY <1>5, Widths
  <2> QED BY <2>1, <2>2, SeqEqual
<1>7. block \in [1..BlockBytes -> Codes]
  BY <1>5
<1> HIDE DEF block
<1>8. blocks \in Disks
  BY <1>3, <1>7 DEF Disks
<1> HIDE DEF blocks
<1>9. many \in Nat \cup {NoBlock}
  BY <1>1
<1>10. e \in Protocols /\ e.incoming = incoming /\ e.blocks = c.blocks /\ e.addr = c.addr
  BY <1>4 DEF Protocols, incoming
<1>11. e.multiWrite = c.multiWrite /\ e.out = c.out /\ e.spi = c.spi /\ e.app = c.app
  BY DEF Protocols
<1>12. e.pending = c.pending /\ e.multiRead = c.multiRead /\ e.frame = c.frame
  BY DEF Protocols
<1>13. d = BlockTaken(e)
  <2>1. d = IF Len(e.incoming) = BlockBytes + CrcBytes THEN BlockTaken(e) ELSE e
    BY <1>2 DEF Xfer, ReceiveBlockByte
  <2> QED BY <1>4, <1>10, <2>1
<1> HIDE DEF d, e
<1>14. d = Queue(f, reply)
  <2>1. (IF e.multiWrite = NoBlock THEN NoBlock ELSE e.addr + 1) = many
    BY <1>1, <1>2, <1>10, <1>11 DEF NoBlock
  <2>2. [b \in DOMAIN e.blocks |-> IF b = e.addr THEN SubSeq(e.incoming, 1, BlockBytes)
                                   ELSE e.blocks[b]] = blocks
    BY <1>2, <1>6, <1>10 DEF blocks
  <2> HIDE DEF many
  <2>3. BlockTaken(e)
          = Queue([e EXCEPT !.blocks = [b \in DOMAIN e.blocks |->
                                          IF b = e.addr THEN SubSeq(e.incoming, 1, BlockBytes)
                                          ELSE e.blocks[b]],
                            !.incoming = <<>>, !.phase = "Responding",
                            !.multiWrite = IF e.multiWrite = NoBlock THEN NoBlock ELSE e.addr + 1],
                  reply)
    BY DEF BlockTaken
  <2> QED BY <1>13, <2>1, <2>2, <2>3
<1> HIDE DEF many
<1>15. f \in Protocols
  <2>1. <<>> \in Seq(Codes)
    OBVIOUS
  <2> QED BY <1>8, <1>9, <1>10, <2>1 DEF Protocols
<1>16. f.out = e.out /\ f.blocks = blocks /\ f.phase = "Responding" /\ f.multiWrite = many
  BY <1>10 DEF Protocols
<1>17. f.spi = e.spi /\ f.app = e.app /\ f.pending = e.pending
  BY <1>10 DEF Protocols
<1>18. f.multiRead = e.multiRead /\ f.frame = e.frame
  BY <1>10 DEF Protocols
<1> HIDE DEF f
<1>19. reply \in Seq(Codes)
  <2>1. "Accepted" \in Codes /\ FF \in Codes
    BY DEF Codes, FF
  <2> QED BY <2>1, Queues
<1>20. d = [f EXCEPT !.out = reply] /\ d \in Protocols
  BY <1>2, <1>11, <1>14, <1>15, <1>16, <1>19, QueuedFirst
<1>21. d.out = reply /\ d.phase = f.phase /\ d.multiRead = f.multiRead /\ d.spi = f.spi
  BY <1>15, <1>20 DEF Protocols
<1>22. d.blocks = f.blocks /\ d.frame = f.frame /\ d.pending = f.pending
  BY <1>15, <1>20 DEF Protocols
<1>23. d.multiWrite = f.multiWrite /\ d.app = f.app
  BY <1>15, <1>20 DEF Protocols
<1>24. Sending(m) /\ ~Ran(m) /\ ~Framing(m) /\ m.stage = "seal"
  BY DEF Sealed, Sending, Ran, Framing
<1>25. CardPhase(m) = "Responding" /\ ~Streams(m) /\ ~Awaits(m)
  BY <1>24, PhaseOf, FourKinds
<1>26. Queued(m, d) = reply
  BY <1>24 DEF Queued
<1>27. /\ PendingOf(m) = NoBlock /\ MultiReadOf(m) = NoBlock /\ MultiWriteOf(m) = many
       /\ ~Application(m)
  BY <1>1, <1>24 DEF PendingOf, MultiReadOf, MultiWriteOf, Application, many
<1>28. Aimed(m, d)
  BY <1>2, <1>12, <1>16, <1>17, <1>18, <1>21, <1>22, <1>23, <1>24, <1>25, <1>27 DEF Aimed
<1>29. CardAt(m, d)
  BY <1>2, <1>11, <1>12, <1>16, <1>17, <1>18, <1>21, <1>22, <1>23, <1>24, <1>25, <1>26, <1>27, <1>28
     DEF CardAt, FrameIs
<1>30. Obeys(c, m, d)
  BY <1>11, <1>17, <1>20, <1>21, <1>24, <1>29 DEF Obeys
<1> QED BY <1>16, <1>22, <1>30 DEF d, blocks, block, incoming, Put, BlockIn

(* The bytes of a block gather one by one.                                  *)
LEMMA PayloadGrows ==
  ASSUME NEW o, NEW k \in Nat, NEW n \in Nat, NEW s \in Seq(Codes), s = Payload(o, k, n),
         o.bytes[k + 1] \in Codes
  PROVE  Len(s) = n /\ Append(s, o.bytes[k + 1]) = Payload(o, k + 1, n + 1)
<1> DEFINE t == Append(s, o.bytes[k + 1])
           u == Payload(o, k + 1, n + 1)
<1>1. s = [i \in 1..n |-> o.bytes[k - n + i]]
  BY DEF Payload
<1>2. Len(s) = n
  BY <1>1
<1>3. /\ t \in Seq(Codes) /\ Len(t) = n + 1 /\ t[n + 1] = o.bytes[k + 1]
      /\ \A i \in 1..n : t[i] = s[i]
  BY <1>2, AppendProperties
<1>4. u = [i \in 1..n + 1 |-> o.bytes[(k + 1) - (n + 1) + i]]
  BY DEF Payload
<1> HIDE DEF t, u
<1>5. ASSUME NEW i \in 1..n + 1 PROVE t[i] = o.bytes[(k + 1) - (n + 1) + i]
  <2>1. CASE i \in 1..n
    <3>1. k - n + i = (k + 1) - (n + 1) + i
      OBVIOUS
    <3>2. t[i] = s[i] /\ s[i] = o.bytes[k - n + i]
      BY <1>1, <1>3, <2>1
    <3> QED BY <3>1, <3>2
  <2>2. CASE i = n + 1
    <3>1. (k + 1) - (n + 1) + i = k + 1
      BY <2>2
    <3> QED BY <1>3, <2>2, <3>1
  <2> QED BY <2>1, <2>2
<1>6. t = [i \in 1..n + 1 |-> t[i]]
  BY <1>3
<1>7. t = u
  BY <1>4, <1>5, <1>6
<1> QED BY <1>2, <1>7 DEF t, u

(* What a transaction's next byte leaves in the card's blocks.              *)
StoredBlocks(o, k, c) ==
  IF Sealed(o.due[k + 1])
  THEN Put(c.blocks, o.due[k + 1].arg,
           [i \in 1..BlockBytes |-> o.bytes[(k + 1) - CrcBytes - BlockBytes + i]])
  ELSE c.blocks

TakenByCard(o, k, c, d) ==
  Obeys(c, Prior(o, k + 1), d) /\ Collected(o, k + 1, d) /\ d.blocks = StoredBlocks(o, k, c)

(* A byte of a block that another completes.                                *)
LEMMA BlockByte ==
  ASSUME NEW o \in Ops, o.dev = "card", NEW c \in Protocols, NEW k \in Nat, k < Len(o.bytes),
         NEW l, l = Prior(o, k), CardAt(l, c), Taking(l), NEW m, m = Prior(o, k + 1), Sensible(m),
         m.cmd = l.cmd, m.arg = l.arg, NEW n \in Nat, c.incoming = Payload(o, k, n),
         \/ m.stage = "data" /\ m.at = n + 1 /\ n + 1 <= BlockBytes
         \/ m.stage = "seal" /\ BlockBytes + m.at = n + 1
  PROVE  TakenByCard(o, k, c, Xfer(c, o.bytes[k + 1]))
<1> DEFINE byte == o.bytes[k + 1]
           d == Xfer(c, byte)
<1>1. byte \in Codes /\ o.due[k + 1] = m
  BY CardFollows
<1>2. c.incoming \in Seq(Codes)
  BY DEF Protocols
<1>3. Len(c.incoming) = n /\ Append(c.incoming, byte) = Payload(o, k + 1, n + 1)
  BY <1>1, <1>2, PayloadGrows
<1>4. m.at \in Nat /\ (m.stage = "seal" => m.at \in 1..CrcBytes)
  BY DEF Sensible, Labels
<1>5. CASE Taking(m)
  <2>1. n + 1 # BlockBytes + CrcBytes /\ m.stage # "start" /\ ~Sealed(m)
    BY <1>4, <1>5, Widths DEF Taking, Sealed
  <2>2. Obeys(c, m, d) /\ d.blocks = c.blocks /\ d.incoming = Payload(o, k + 1, n + 1)
    BY <1>1, <1>3, <1>5, <2>1, AfterData
  <2> HIDE DEF d
  <2>3. Collected(o, k + 1, d)
    BY <2>2, <2>1, <1>4 DEF Collected
  <2>4. StoredBlocks(o, k, c) = c.blocks
    BY <1>1, <2>1 DEF StoredBlocks
  <2> QED BY <2>2, <2>3, <2>4 DEF TakenByCard, d
<1>6. CASE ~Taking(m)
  <2>1. m.stage = "seal" /\ Sealed(m) /\ n + 1 = BlockBytes + CrcBytes
    BY <1>6 DEF Taking, Sealed
  <2>2. /\ Obeys(c, m, d)
        /\ d.blocks = Put(c.blocks, m.arg, BlockIn(Append(c.incoming, byte)))
    <3>1. Len(c.incoming) + 1 = BlockBytes + CrcBytes
      BY <1>3, <2>1
    <3> QED BY <1>1, <2>1, <3>1, AfterCheck
  <2> HIDE DEF d
  <2>3. Collected(o, k + 1, d)
    BY <2>1 DEF Collected
  <2>4. ASSUME NEW i \in 1..BlockBytes
        PROVE  Append(c.incoming, byte)[i] = o.bytes[(k + 1) - CrcBytes - BlockBytes + i]
    <3>1. i \in 1..n + 1 /\ (k + 1) - (n + 1) + i = (k + 1) - CrcBytes - BlockBytes + i
      BY <2>1, Widths
    <3>2. Payload(o, k + 1, n + 1)[i] = o.bytes[(k + 1) - (n + 1) + i]
      BY <3>1 DEF Payload
    <3> QED BY <1>3, <3>1, <3>2
  <2>5. BlockIn(Append(c.incoming, byte))
          = [i \in 1..BlockBytes |-> o.bytes[(k + 1) - CrcBytes - BlockBytes + i]]
    BY <2>4 DEF BlockIn
  <2>6. StoredBlocks(o, k, c) = d.blocks
    BY <1>1, <2>1, <2>2, <2>5 DEF StoredBlocks
  <2> QED BY <2>2, <2>3, <2>6 DEF TakenByCard, d
<1> QED BY <1>5, <1>6

(* A byte of a card transaction, whichever it is.                           *)
LEMMA CardTakesByte ==
  ASSUME NEW o \in Ops, o.dev = "card", NEW c \in Protocols, NEW k \in Nat, k < Len(o.bytes),
         CardAfter(o, k, c)
  PROVE  TakenByCard(o, k, c, Xfer(c, o.bytes[k + 1]))
<1> DEFINE l == Prior(o, k)
           m == Prior(o, k + 1)
           byte == o.bytes[k + 1]
           d == Xfer(c, byte)
<1>1. Follows(l, m, byte) /\ m = o.due[k + 1] /\ m \in Labels /\ byte \in Codes
  BY CardFollows
<1>2. CardAt(l, c) /\ Sensible(l) /\ Collected(o, k, c)
  BY DEF CardAfter, CardAt
<1>3. Sensible(m)
  BY <1>1, <1>2, Sensibly
<1>4. l.at \in Nat /\ l.arg \in Nat
  BY <1>2 DEF Sensible, Labels
<1>5. ASSUME Obeys(c, m, d), d.blocks = c.blocks, m.stage \notin {"data", "seal"},
             m.stage = "start" => d.incoming = <<>>
      PROVE  TakenByCard(o, k, c, d)
  <2>1. Collected(o, k + 1, d)
    BY <1>5 DEF Collected
  <2>2. StoredBlocks(o, k, c) = c.blocks
    BY <1>1, <1>5 DEF StoredBlocks, Sealed
  <2> QED BY <1>5, <2>1, <2>2 DEF TakenByCard
<1> HIDE DEF l, m, byte, d
<1>6. CASE Sending(l)
  <2>1. SendingStep(l, m)
    BY <1>1, <1>2, <1>6, SendingFollows
  <2>2. Obeys(c, m, d) /\ d.blocks = c.blocks
    BY <1>2, <1>3, <1>6, <2>1, AfterSending DEF d
  <2>3. m.stage \notin {"start", "data", "seal"}
    BY <2>1 DEF SendingStep, Label
  <2> QED BY <1>5, <2>2, <2>3 DEF d, byte
<1>7. CASE ~Sending(l)
  <2>1. CASE AtRest(l) /\ byte = FF /\ m = Label("idle", l.cmd, 0, 0)
    <3>1. Obeys(c, m, d) /\ d.blocks = c.blocks
      BY <1>2, <1>3, <2>1, AfterIdle DEF d
    <3>2. m.stage = "idle"
      BY <2>1 DEF Label
    <3> QED BY <1>5, <3>1, <3>2 DEF d, byte
  <2>2. CASE Asks(l, m, byte)
    <3>1. m.stage = "frame"
      BY <1>7, <2>2 DEF Asks, Label, Sending, Ran
    <3>2. CASE /\ AtRest(l) \/ Streams(l)
               /\ m = Label("frame", byte, m.arg, 1) /\ m.arg \in Nat
               /\ byte \in Commands /\ (byte = "CMD41") = (l.cmd = "CMD55")
      <4>1. Obeys(c, m, d) /\ d.blocks = c.blocks
        BY <1>1, <1>2, <1>3, <3>2, FrameBegins DEF d
      <4> QED BY <1>5, <3>1, <4>1 DEF d, byte
    <3>3. CASE /\ l.stage = "frame" /\ l.at < FrameBytes
               /\ m = Label("frame", l.cmd, l.arg, l.at + 1)
               /\ m.at = 2 => AddressOf(byte) = l.arg
      <4>1. Framing(l)
        BY <1>4, <3>3, Widths DEF Framing
      <4>2. CASE l.at + 1 < FrameBytes
        <5>1. Obeys(c, m, d) /\ d.blocks = c.blocks
          BY <1>1, <1>2, <1>3, <3>3, <4>1, <4>2, FrameGoes DEF d
        <5> QED BY <1>5, <3>1, <5>1 DEF d, byte
      <4>3. CASE l.at + 1 = FrameBytes
        <5>1. Obeys(c, m, d) /\ d.blocks = c.blocks
          BY <1>1, <1>2, <1>3, <3>3, <4>1, <4>3, FrameEnds DEF d
        <5> QED BY <1>5, <3>1, <5>1 DEF d, byte
      <4> QED BY <1>4, <3>3, <4>2, <4>3, Widths
    <3> QED BY <1>7, <2>2, <3>2, <3>3 DEF Asks, Sending, Ran
  <2>3. CASE Hears(l, m, byte)
    <3>1. Streams(l) /\ ~FrameStart(byte) /\ m = Label("gap", l.cmd, BlockAt(l), 0) /\ m.arg < BlockCount
      BY <1>4, <1>7, <2>3, Widths DEF Hears, Sending
    <3>2. Obeys(c, m, d) /\ d.blocks = c.blocks
      BY <1>2, <1>3, <3>1, AfterGap DEF d
    <3>3. m.stage = "gap"
      BY <3>1 DEF Label
    <3> QED BY <1>5, <3>2, <3>3 DEF d, byte
  <2>4. CASE Tells(l, m, byte)
    <3>1. CASE Awaits(l) /\ byte \notin {"FE", "FC", "FD"} /\ m = Label("waiting", l.cmd, BlockAt(l), 0)
      <4>1. Obeys(c, m, d) /\ d.blocks = c.blocks
        BY <1>2, <1>3, <3>1, AfterWait DEF d
      <4>2. m.stage = "waiting"
        BY <3>1 DEF Label
      <4> QED BY <1>5, <4>1, <4>2 DEF d, byte
    <3>2. CASE Awaits(l) /\ (byte = "FE" \/ (byte = "FC" /\ l.cmd = "CMD25"))
               /\ m = Label("start", l.cmd, BlockAt(l), 0)
      <4>1. Obeys(c, m, d) /\ d.blocks = c.blocks /\ d.incoming = <<>>
        BY <1>2, <1>3, <3>2, AfterToken DEF d
      <4>2. m.stage = "start"
        BY <3>2 DEF Label
      <4> QED BY <1>5, <4>1, <4>2 DEF d, byte
    <3>3. CASE Awaits(l) /\ byte = "FD" /\ l.cmd = "CMD25" /\ m = Label("stop", l.cmd, 0, 0)
      <4>1. Obeys(c, m, d) /\ d.blocks = c.blocks
        BY <1>2, <1>3, <3>3, AfterStop DEF d
      <4>2. m.stage = "stop"
        BY <3>3 DEF Label
      <4> QED BY <1>5, <4>1, <4>2 DEF d, byte
    <3>4. CASE l.stage \in {"start", "data"} /\ l.at < BlockBytes
               /\ m = Label("data", l.cmd, l.arg, l.at + 1)
      <4>1. m.stage = "data" /\ m.cmd = l.cmd /\ m.arg = l.arg /\ m.at = l.at + 1
            /\ l.at + 1 <= BlockBytes /\ Taking(l)
        BY <1>4, <3>4, Widths DEF Label, Taking
      <4>2. c.incoming = Payload(o, k, l.at)
        <5>1. CASE l.stage = "data"
          BY <1>2, <5>1 DEF Collected, l
        <5>2. CASE l.stage = "start"
          <6>1. l.at = 0
            BY <1>2, <5>2 DEF Sensible
          <6>2. Payload(o, k, 0) = <<>>
            BY DEF Payload
          <6> QED BY <1>2, <5>2, <6>1, <6>2 DEF Collected, l
        <5> QED BY <3>4, <5>1, <5>2
      <4> QED BY <1>2, <1>3, <1>4, <4>1, <4>2, BlockByte DEF d, l, m, byte
    <3>5. CASE l.stage = "data" /\ l.at = BlockBytes /\ m = Label("seal", l.cmd, l.arg, 1)
      <4>1. m.stage = "seal" /\ m.cmd = l.cmd /\ m.arg = l.arg /\ m.at = 1 /\ Taking(l)
        BY <3>5 DEF Label, Taking
      <4>2. c.incoming = Payload(o, k, BlockBytes)
        BY <1>2, <3>5 DEF Collected, l
      <4>3. BlockBytes \in Nat /\ BlockBytes + m.at = BlockBytes + 1
        BY <4>1, Widths
      <4> QED BY <1>2, <1>3, <4>1, <4>2, <4>3, BlockByte DEF d, l, m, byte
    <3>6. CASE l.stage = "seal" /\ l.at < CrcBytes /\ m = Label("seal", l.cmd, l.arg, l.at + 1)
      <4>1. m.stage = "seal" /\ m.cmd = l.cmd /\ m.arg = l.arg /\ m.at = l.at + 1 /\ Taking(l)
        BY <1>4, <3>6, Widths DEF Label, Taking, Sealed
      <4>2. c.incoming = Payload(o, k, BlockBytes + l.at)
        BY <1>2, <3>6, <4>1 DEF Collected, l, Taking
      <4>3. BlockBytes + l.at \in Nat /\ BlockBytes + m.at = (BlockBytes + l.at) + 1
        BY <1>4, <4>1, Widths
      <4> QED BY <1>2, <1>3, <4>1, <4>2, <4>3, BlockByte DEF d, l, m, byte
    <3> QED BY <1>7, <2>4, <3>1, <3>2, <3>3, <3>4, <3>5, <3>6 DEF Tells, Sending, Sealed
  <2> QED BY <1>1, <2>1, <2>2, <2>3, <2>4 DEF Follows
<1> QED BY <1>6, <1>7 DEF l

-----------------------------------------------------------------------------
(* What comes back.                                                         *)

(* The byte a card has for the wire is a byte.                              *)
LEMMA PeekIsByte == ASSUME NEW c \in Protocols PROVE PeekMiso(c) \in Codes
<1>1. c.out \in Seq(Codes) /\ FF \in Codes
  BY DEF Protocols, Codes, FF
<1>2. c.out # <<>> => Head(c.out) \in Codes
  BY <1>1
<1> QED BY <1>1, <1>2 DEF PeekMiso

(* And it is the one that the next label has the card say.                  *)
LEMMA Peeked ==
  ASSUME NEW c \in Protocols, NEW l, CardAt(l, c), NEW m \in Labels, NEW byte, Follows(l, m, byte)
  PROVE  PeekMiso(c) = Says(m, c)
<1>1. Sensible(l) /\ c.phase = CardPhase(l) /\ c.out = Queued(l, c)
  BY DEF CardAt
<1>2. Sensible(m)
  BY <1>1, Sensibly
<1>3. CASE Sending(l)
  <2>1. c.phase = "Responding"
    BY <1>1, <1>3, PhaseOf
  <2>2. SendingStep(l, m)
    BY <1>1, <1>3, SendingFollows
  <2>3. Queued(l, c) # <<>> /\ Head(Queued(l, c)) = Says(m, c)
    BY <1>1, <1>2, <2>2, QueueMoves
  <2> QED BY <1>1, <2>1, <2>3 DEF PeekMiso
<1>4. CASE ~Sending(l)
  <2>1. c.phase # "Responding"
    BY <1>1, <1>4, PhaseOf, FourKinds
  <2>2. m.stage \notin {"reply", "ocr", "refused", "token", "block", "accepted"}
    <3>1. l.stage \notin {"gap", "token", "block"} /\ ~Ran(l) /\ ~Sealed(l)
      BY <1>4 DEF Sending
    <3>2. ~(l.stage = "reply" /\ l.cmd \in {"CMD17", "CMD58"})
      BY <1>4 DEF Sending
    <3>3. Asks(l, m, byte) => m.stage = "frame"
      BY <3>1, <3>2 DEF Asks, Label, Ran
    <3>4. Hears(l, m, byte) => m.stage \in {"gap", "check"}
      BY <3>1, <3>2 DEF Hears, Label
    <3>5. Tells(l, m, byte) => m.stage \in {"waiting", "start", "stop", "data", "seal", "busy", "stopped"}
      BY <3>1 DEF Tells, Label, Sealed
    <3>6. AtRest(l) /\ byte = FF /\ m = Label("idle", l.cmd, 0, 0) => m.stage = "idle"
      BY DEF Label
    <3> QED BY <3>3, <3>4, <3>5, <3>6 DEF Follows
  <2>3. Says(m, c) = FF
    BY <2>2 DEF Says
  <2> QED BY <2>1, <2>3 DEF PeekMiso
<1> QED BY <1>3, <1>4

(* What the protocol promises of the card, whose blocks are those written.  *)
LEMMA AnswerOfCard ==
  ASSUME NEW o, NEW k \in Nat, k >= 1, Sensible(Prior(o, k)), NEW c, c.blocks = disk
  PROVE  Answer(o, k) = Says(Prior(o, k), c)
<1>1. Prior(o, k) = o.due[k]
  BY DEF Prior
<1>2. o.due[k].stage \notin {"cell", "wel", "id"}
  BY <1>1 DEF Sensible
<1>3. Says(o.due[k], c)
        = CASE o.due[k].stage = "reply" -> IF o.due[k].cmd = "CMD0" THEN "R1idle" ELSE "R1"
            [] o.due[k].stage = "ocr" -> "Ocr"
            [] o.due[k].stage = "refused" -> "RangeError"
            [] o.due[k].stage = "token" -> "FE"
            [] o.due[k].stage = "block" -> disk[o.due[k].arg][o.due[k].at]
            [] o.due[k].stage = "accepted" -> "Accepted"
            [] OTHER -> FF
  BY DEF Says
<1> QED BY <1>1, <1>2, <1>3 DEF Answer, Due

(* Until the card has been greeted its frame is the greeting and its answer  *)
(* is silence.                                                              *)
LEMMA Ungreeted ==
  ASSUME NEW o \in Ops, o.dev = "card", o.kind = "Greet", NEW k \in Nat, k < Len(o.bytes),
         k = 0 \/ (Framing(Prior(o, k)) /\ Prior(o, k).cmd = "CMD0")
  PROVE  /\ Prior(o, k + 1).stage = "frame" /\ Prior(o, k + 1).cmd = "CMD0"
         /\ Answer(o, k + 1) = FF
<1> DEFINE l == Prior(o, k)
           m == Prior(o, k + 1)
<1>1. Follows(l, m, o.bytes[k + 1]) /\ m = o.due[k + 1]
  BY CardFollows
<1>2. ASSUME k = 0 PROVE m.stage = "frame" /\ m.cmd = "CMD0"
  <2>1. l = Rest /\ o.bytes[k + 1] = "CMD0"
    BY <1>2, CardSpoken DEF Prior, CardTransaction
  <2>2. l.stage = "idle" /\ l.cmd = "none"
    BY <2>1 DEF Rest, Label
  <2> HIDE DEF l, m
  <2>3. Asks(l, m, "CMD0")
    BY <1>1, <2>1, <2>2 DEF Follows, Hears, Tells, Streams, Awaits, FF
  <2> QED BY <2>2, <2>3 DEF Asks, Label
<1>3. ASSUME Framing(l), l.cmd = "CMD0" PROVE m.stage = "frame" /\ m.cmd = "CMD0"
  <2> HIDE DEF l, m
  <2>1. ~AtRest(l) /\ ~Streams(l) /\ ~Awaits(l) /\ l.stage = "frame" /\ l.at # FrameBytes
    BY <1>3 DEF AtRest, Streams, Awaits, Framing
  <2>2. Asks(l, m, o.bytes[k + 1])
    BY <1>1, <2>1 DEF Follows, Hears, Tells
  <2> QED BY <1>3, <2>1, <2>2 DEF Asks, Label
<1>4. m.stage = "frame" /\ m.cmd = "CMD0"
  BY <1>2, <1>3
<1>5. o.due[k + 1].stage = "frame"
  BY <1>1, <1>4
<1>6. Answer(o, k + 1) = FF
  BY <1>5 DEF Answer, Due
<1> QED BY <1>4, <1>6

(* Outside the driver's own call, no transaction leaves an application       *)
(* command half said.                                                       *)
LEMMA NoApplication ==
  ASSUME NEW o \in Ops, o.dev = "card", o.kind # "Ready", NEW k \in Nat, k < Len(o.bytes),
         ~Application(Prior(o, k))
  PROVE  ~Application(Prior(o, k + 1))
<1> DEFINE l == Prior(o, k)
           m == Prior(o, k + 1)
<1>1. Follows(l, m, o.bytes[k + 1]) /\ m = o.due[k + 1]
  BY CardFollows
<1>2. l.cmd # "CMD55" /\ m.cmd # "CMD55"
  BY <1>1, CardSpoken DEF CardTransaction, Prior, Rest, Label
<1> HIDE DEF l, m
<1>3. ASSUME m.cmd = "CMD41", Framing(m) PROVE FALSE
  <2>1. m.stage = "frame"
    BY <1>3 DEF Framing
  <2>2. Asks(l, m, o.bytes[k + 1])
    BY <1>1, <2>1 DEF Follows, Hears, Tells, Label
  <2>3. l.stage = "frame" /\ l.at < FrameBytes /\ l.cmd = "CMD41"
    BY <1>2, <1>3, <2>1, <2>2 DEF Asks, Label
  <2>4. Framing(l)
    BY <2>3, Widths DEF Framing
  <2> QED BY <2>3, <2>4 DEF Application, l
<1> QED BY <1>2, <1>3 DEF Application, m

(* Nor does that call, once it has run to its end.                          *)
LEMMA ReadyIsDone ==
  ASSUME NEW o \in Ops, o.dev = "card", o.kind = "Ready"
  PROVE  ~Application(Prior(o, Len(o.bytes)))
<1>1. Prior(o, Len(o.bytes)) = o.due[Len(o.bytes)]
  BY CardSpoken DEF Prior
<1>2. o.due[Len(o.bytes)].cmd # "CMD55" /\ o.due[Len(o.bytes)].stage # "frame"
  BY CardSpoken DEF CardTransaction
<1> QED BY <1>1, <1>2 DEF Application, Framing

(* What the flash has to say is what the protocol promises of it.           *)
LEMMA AnswerOfFlash ==
  ASSUME NEW o \in Ops, o.dev = "flash", NEW k \in Nat, k < Len(o.bytes), NEW f,
         f.image = cells, o.kind = "Status" => (armed = "no" <=> ~f.wel)
  PROVE  /\ Outputs(FlashPhase(o, k)) => Answer(o, k + 1) = Spoke(o, k, f)
         /\ ~Outputs(FlashPhase(o, k)) => Answer(o, k + 1) = FF
<1>1. o.due[k + 1] = FlashDue(o, k + 1)
  BY FlashSpoken
<1>2. o.kind \in {"Enable", "Disable", "Status", "Jedec", "Read", "Program", "Erase"}
  BY FlashKinds
<1> DEFINE data == (k + 1) - AddressBytes - 2
           d == o.due[k + 1]
<1>3. data \in Int /\ data = k - AddressBytes - 1 /\ k + 1 > 1 <=> k > 0
  BY Widths
<1>4. d.stage \in {"idle", "wel", "id", "cell", "program", "erase"}
  BY <1>1 DEF FlashDue, Rest, Label
<1>5. d.stage \in {"idle", "program", "erase"} => Answer(o, k + 1) = FF
  BY DEF Answer, Due
<1>6. CASE Outputs(FlashPhase(o, k))
  <2>1. k > 0 /\ o.kind \in {"Status", "Jedec", "Read"} /\ (o.kind = "Read" => k > AddressBytes)
    BY <1>2, <1>6, Widths DEF FlashPhase, Outputs
  <2>2. CASE o.kind = "Status"
    <3>1. d.stage = "wel"
      BY <1>1, <2>1, <2>2 DEF FlashDue, Label
    <3> QED BY <2>2, <3>1, <1>6 DEF Answer, Due, Spoke
  <2>3. CASE o.kind = "Jedec"
    <3>1. d.stage = "id" /\ d.at = k
      BY <1>1, <2>1, <2>3 DEF FlashDue, Label
    <3>2. Answer(o, k + 1) = IF k <= Len(JedecId) THEN JedecId[k] ELSE "00"
      BY <3>1 DEF Answer, Due
    <3>3. Spoke(o, k, f) = IF k <= Len(JedecId) THEN JedecId[k] ELSE "00"
      BY <2>3 DEF Spoke
    <3> QED BY <1>6, <3>2, <3>3
  <2>4. CASE o.kind = "Read"
    <3>1. data >= 0
      BY <2>1, <2>4, <1>3, Widths
    <3>2. d = Label("cell", "none", 0, Target(o) + data)
      BY <1>1, <2>1, <2>4, <3>1 DEF FlashDue
    <3>3. d.stage = "cell" /\ d.at = Target(o) + data
      BY <3>2 DEF Label
    <3>4. Target(o) \in Nat
      BY Addressed DEF Target
    <3>5. d.at = Target(o) + k - AddressBytes - 1
      BY <3>3, <3>4, <1>3, Widths
    <3>6. Answer(o, k + 1) = IF d.at < Cells THEN cells[d.at] ELSE FF
      BY <3>3 DEF Answer, Due
    <3>7. Spoke(o, k, f) = IF Target(o) + k - AddressBytes - 1 < Cells
                           THEN f.image[Target(o) + k - AddressBytes - 1] ELSE FF
      BY <2>4 DEF Spoke
    <3> QED BY <1>6, <3>5, <3>6, <3>7
  <2> QED BY <2>1, <2>2, <2>3, <2>4
<1>7. CASE ~Outputs(FlashPhase(o, k))
  <2>1. k > 0 => o.kind \notin {"Status", "Jedec"} /\ (o.kind = "Read" => k <= AddressBytes)
    BY <1>2, <1>7, Widths DEF FlashPhase, Outputs
  <2>2. d.stage \notin {"wel", "id", "cell"}
    BY SMTT(30), <1>1, <1>2, <2>1, <1>3, Widths DEF FlashDue, Label, Rest
  <2> QED BY <1>4, <1>5, <1>7, <2>2
<1> QED BY <1>6, <1>7

(* What the master believes of a flash whose array is as it believes.       *)
HeldOK(held, f, o) ==
  /\ held = "no" => ~f.wel
  /\ held = "yes" => f.wel /\ f.phase \notin Writing
  /\ held = "using" => o.kind \in {"Program", "Erase"} /\ (f.wel => f.phase \in Writing)

(* The phases of a write.                                                   *)
LEMMA WritingPhases ==
  ASSUME NEW o \in Ops, o.dev = "flash", NEW k \in Nat
  PROVE  FlashPhase(o, k) \in Writing
           <=> k > 0 /\ (o.kind = "Program" \/ (o.kind = "Erase" /\ k <= AddressBytes))
<1>1. o.kind \in {"Enable", "Disable", "Status", "Jedec", "Read", "Program", "Erase"}
  BY FlashKinds
<1> QED BY <1>1, Widths DEF FlashPhase, Writing

(* What a transaction can be when k of its bytes are out and one is to come. *)
LEMMA FlashAmid ==
  ASSUME NEW o \in Ops, o.dev = "flash", NEW k \in Nat, k < Len(o.bytes)
  PROVE  /\ o.kind \in {"Enable", "Disable", "Status", "Jedec", "Read", "Program", "Erase"}
         /\ o.kind \in {"Enable", "Disable"} => k = 0
         /\ o.kind = "Erase" => k <= AddressBytes
  BY FlashKinds, FlashSpoken, Widths

(* After a byte the master believes of the write enable what is so.         *)
LEMMA FlashHeld ==
  ASSUME NEW o \in Ops, o.dev = "flash", NEW k \in Nat, k < Len(o.bytes),
         NEW f \in Flashes, NEW held \in {"no", "yes", "using"}, FlashSpot(o, k, f, 1),
         FlashGrant(o, k, f, held), HeldOK(held, f, o),
         NEW g \in Flashes, FlashSpot(o, k + 1, g, 1), g.wel <=> Granted(o, k, f.wel),
         NEW soon,
         soon = CASE o.kind = "Enable" -> "yes"
                  [] o.kind = "Disable" -> "no"
                  [] o.kind \in {"Program", "Erase"} /\ held = "yes" -> "using"
                  [] OTHER -> held
  PROVE  soon \in {"no", "yes", "using"} /\ FlashGrant(o, k + 1, g, soon) /\ HeldOK(soon, g, o)
<1>1. /\ o.kind \in {"Enable", "Disable", "Status", "Jedec", "Read", "Program", "Erase"}
      /\ o.kind \in {"Enable", "Disable"} => k = 0
      /\ o.kind = "Erase" => k <= AddressBytes
  BY FlashAmid
<1>2. f.phase = FlashPhase(o, k) /\ g.phase = FlashPhase(o, k + 1)
  BY DEF FlashSpot
<1>3. /\ f.phase \in Writing <=> k > 0 /\ (o.kind = "Program" \/ (o.kind = "Erase" /\ k <= AddressBytes))
      /\ g.phase \in Writing <=> o.kind = "Program" \/ (o.kind = "Erase" /\ k + 1 <= AddressBytes)
  BY <1>2, WritingPhases
<1>4. /\ k = 0 => held # "using"
      /\ k > 0 /\ o.kind \in {"Program", "Erase"} => held # "yes"
      /\ held = "using" /\ f.phase \in Writing => f.wel
  BY DEF FlashGrant
<1>5. /\ held = "no" => ~f.wel
      /\ held = "yes" => f.wel /\ f.phase \notin Writing
      /\ held = "using" => o.kind \in {"Program", "Erase"}
  BY DEF HeldOK
<1>6. soon \in {"no", "yes", "using"}
  BY <1>1
<1>7. CASE o.kind \in {"Enable", "Disable"}
  BY <1>1, <1>3, <1>6, <1>7 DEF Granted, FlashGrant, HeldOK
<1>8. CASE o.kind \in {"Status", "Jedec", "Read"}
  <2>1. soon = held /\ (g.wel <=> f.wel) /\ held # "using"
    BY <1>5, <1>8 DEF Granted
  <2> QED BY <1>3, <1>5, <1>6, <1>8, <2>1 DEF FlashGrant, HeldOK
<1>9. CASE o.kind \in {"Program", "Erase"}
  <2>1. soon = IF held = "no" THEN "no" ELSE "using"
    BY <1>9
  <2>2. g.wel <=> f.wel /\ ~(o.kind = "Erase" /\ k = AddressBytes)
    BY <1>9 DEF Granted
  <2>3. held = "using" => f.wel
    BY <1>1, <1>3, <1>4, <1>9, Widths
  <2>4. soon = "using" => f.wel
    BY <1>5, <2>1, <2>3
  <2>5. g.phase \in Writing <=> ~(o.kind = "Erase" /\ k = AddressBytes)
    BY <1>1, <1>3, <1>9, Widths
  <2>6. FlashGrant(o, k + 1, g, soon)
    BY <1>9, <2>1, <2>2, <2>4, <2>5 DEF FlashGrant
  <2>7. HeldOK(soon, g, o)
    BY <1>5, <1>9, <2>1, <2>2, <2>5 DEF HeldOK
  <2> QED BY <1>6, <2>6, <2>7
<1> QED BY <1>1, <1>7, <1>8, <1>9

(* And of its cells.                                                        *)
LEMMA FlashKept ==
  ASSUME NEW o \in Ops, o.dev = "flash", NEW k \in Nat, k < Len(o.bytes), Believe(o, k + 1),
         NEW f \in Flashes, f.image = cells, FlashSpot(o, k, f, 1), FlashGrant(o, k, f, armed),
         HeldOK(armed, f, o), armed \in {"no", "yes", "using"}
  PROVE  cells' = Stored(o, k, f)
<1> DEFINE d == o.due[k + 1]
<1>1. d = FlashDue(o, k + 1)
  BY FlashSpoken
<1>2. /\ o.kind \in {"Enable", "Disable", "Status", "Jedec", "Read", "Program", "Erase"}
      /\ o.kind = "Erase" => k <= AddressBytes
  BY FlashKinds, FlashSpoken, Widths
<1>3. cells' = [a \in DOMAIN cells |->
                   CASE armed = "using" /\ d.stage = "program" /\ a = d.at ->
                          And(cells[a], o.bytes[k + 1])
                     [] armed = "using" /\ d.stage = "erase"
                        /\ a \div PageSize = d.at \div PageSize -> FF
                     [] OTHER -> cells[a]]
  BY DEF Believe, Due
<1>4. cells = [a \in DOMAIN cells |-> cells[a]]
  BY DEF Flashes, Arrays
<1>5. f.phase = FlashPhase(o, k)
  BY DEF FlashSpot
<1>6. f.phase \in Writing <=> k > 0 /\ (o.kind = "Program" \/ (o.kind = "Erase" /\ k <= AddressBytes))
  BY <1>5, WritingPhases
<1>7. f.phase \in Writing => (armed = "using" <=> f.wel)
  BY <1>6 DEF FlashGrant, HeldOK
<1>8. CASE o.kind = "Program" /\ k > AddressBytes
  <2>1. d = Label("program", "none", 0, InPage(Target(o), k - AddressBytes - 1))
    <3>1. (k + 1) - AddressBytes - 2 = k - AddressBytes - 1 /\ k - AddressBytes - 1 >= 0
      BY <1>8, Widths
    <3> QED BY <1>1, <1>8, <3>1 DEF FlashDue
  <2>2. d.stage = "program" /\ d.at = InPage(Target(o), k - AddressBytes - 1)
    BY <2>1 DEF Label
  <2>3. armed = "using" <=> f.wel
    BY <1>6, <1>7, <1>8, Widths
  <2>4. CASE f.wel
    <3>1. Stored(o, k, f) = [a \in DOMAIN f.image |-> IF a = InPage(Target(o), k - AddressBytes - 1)
                                   THEN And(f.image[a], o.bytes[k + 1]) ELSE f.image[a]]
      BY <1>8, <2>4 DEF Stored
    <3> HIDE DEF d
    <3>2. cells' = [a \in DOMAIN cells |-> IF a = d.at THEN And(cells[a], o.bytes[k + 1])
                                          ELSE cells[a]]
      BY <1>3, <2>2, <2>3, <2>4
    <3> QED BY <2>2, <3>1, <3>2
  <2>5. CASE ~f.wel
    <3>1. Stored(o, k, f) = cells
      BY <1>8, <2>5 DEF Stored
    <3> HIDE DEF d
    <3> QED BY <1>3, <1>4, <2>3, <2>5, <3>1
  <2> QED BY <2>4, <2>5
<1>9. CASE o.kind = "Erase" /\ k = AddressBytes
  <2>1. d = Label("erase", "none", 0, Target(o))
    <3>1. (k + 1) - AddressBytes - 2 = -1
      BY <1>9, Widths
    <3> QED BY <1>1, <1>9, <3>1 DEF FlashDue
  <2>2. d.stage = "erase" /\ d.at = Target(o)
    BY <2>1 DEF Label
  <2>3. armed = "using" <=> f.wel
    BY <1>6, <1>7, <1>9, Widths
  <2>4. CASE f.wel
    <3>1. Stored(o, k, f) = [a \in DOMAIN f.image |->
                               IF a \div PageSize = Target(o) \div PageSize THEN FF ELSE f.image[a]]
      BY <1>9, <2>4 DEF Stored
    <3> HIDE DEF d
    <3>2. cells' = [a \in DOMAIN cells |-> IF a \div PageSize = d.at \div PageSize THEN FF
                                          ELSE cells[a]]
      BY <1>3, <2>2, <2>3, <2>4
    <3> QED BY <2>2, <3>1, <3>2
  <2>5. CASE ~f.wel
    <3>1. Stored(o, k, f) = cells
      BY <1>9, <2>5 DEF Stored
    <3> HIDE DEF d
    <3> QED BY <1>3, <1>4, <2>3, <2>5, <3>1
  <2> QED BY <2>4, <2>5
<1>10. CASE ~(o.kind = "Program" /\ k > AddressBytes) /\ ~(o.kind = "Erase" /\ k = AddressBytes)
  <2>1. Stored(o, k, f) = cells
    BY <1>10 DEF Stored
  <2>2. d.stage \notin {"program", "erase"} \/ armed # "using"
    <3>1. CASE o.kind = "Program"
      <4>1. ~((k + 1) - AddressBytes - 2 >= 0)
        BY <1>10, <3>1, Widths
      <4>2. d.stage \notin {"program", "erase"}
        BY <1>1, <3>1, <4>1 DEF FlashDue, Label, Rest
      <4> QED BY <4>2
    <3>2. CASE o.kind = "Erase"
      <4>1. ~((k + 1) - AddressBytes - 2 = -1)
        BY <1>10, <3>2, Widths
      <4>2. d.stage \notin {"program", "erase"}
        BY <1>1, <3>2, <4>1 DEF FlashDue, Label, Rest
      <4> QED BY <4>2
    <3>3. CASE o.kind \notin {"Program", "Erase"}
      BY <3>3 DEF HeldOK
    <3> QED BY <3>1, <3>2, <3>3
  <2> HIDE DEF d
  <2>3. cells' = [a \in DOMAIN cells |-> cells[a]]
    BY <1>3, <2>2
  <2> QED BY <1>4, <2>1, <2>3
<1> QED BY <1>8, <1>9, <1>10

(* What the flash has promised stays promised as a byte goes by.            *)
LEMMA FlashAnswerStays ==
  ASSUME NEW o \in Ops, o.dev = "flash", NEW k \in 1..Len(o.bytes), NEW j, Believe(o, j),
         cells \in Arrays, armed = "using" => o.kind \in {"Program", "Erase"}
  PROVE  Answer(o, k)' = Answer(o, k)
<1> DEFINE d == o.due[k]
           e == o.due[j]
<1>1. d = FlashDue(o, k)
  BY FlashSpoken
<1>2. /\ d.stage \in {"idle", "wel", "id", "cell", "program", "erase"}
      /\ d.stage = "wel" => o.kind = "Status"
      /\ d.stage = "cell" => o.kind = "Read"
  <2>1. o.kind \in {"Enable", "Disable", "Status", "Jedec", "Read", "Program", "Erase"}
    BY FlashKinds
  <2> QED BY <1>1, <2>1 DEF FlashDue, Rest, Label
<1>3. o.kind \in {"Status", "Read"} => armed' = armed /\ armed # "using"
  BY DEF Believe
<1>4. armed # "using" => cells' = cells
  <2>1. cells' = [a \in DOMAIN cells |->
                   CASE armed = "using" /\ e.stage = "program" /\ a = e.at ->
                          And(cells[a], o.bytes[j])
                     [] armed = "using" /\ e.stage = "erase"
                        /\ a \div PageSize = e.at \div PageSize -> FF
                     [] OTHER -> cells[a]]
    BY DEF Believe, Due
  <2>2. cells = [a \in DOMAIN cells |-> cells[a]]
    BY DEF Arrays
  <2> HIDE DEF e
  <2>3. armed # "using" => cells' = [a \in DOMAIN cells |-> cells[a]]
    BY <2>1
  <2> QED BY <2>2, <2>3
<1>5. CASE d.stage = "wel"
  BY <1>2, <1>3, <1>5 DEF Answer, Due
<1>6. CASE d.stage = "cell"
  BY <1>2, <1>3, <1>4, <1>6 DEF Answer, Due
<1>7. CASE d.stage \notin {"wel", "cell"}
  BY <1>2, <1>7 DEF Answer, Due
<1> QED BY <1>5, <1>6, <1>7

(* What the master believes once a byte for the card is out.                *)
LEMMA CardKept ==
  ASSUME NEW o \in Ops, o.dev = "card", NEW k \in Nat, k < Len(o.bytes), Believe(o, k + 1),
         cells \in Arrays, disk \in Disks, armed \in {"no", "yes"},
         NEW c \in Protocols, c.blocks = disk, CardAfter(o, k, c)
  PROVE  /\ armed' = armed /\ cells' = cells /\ disk' = StoredBlocks(o, k, c)
         /\ greeted' = (greeted \/ (Ran(o.due[k + 1]) /\ o.due[k + 1].cmd = "CMD0"))
         /\ Answer(o, k + 1)' = Answer(o, k + 1)
<1> DEFINE e == o.due[k + 1]
<1>1. o.kind \notin {"Enable", "Disable", "Program", "Erase"}
  BY CardSpoken DEF CardTransaction
<1>2. armed' = armed
  BY <1>1 DEF Believe
<1>3. cells' = cells
  <2>1. cells' = [a \in DOMAIN cells |->
                   CASE armed = "using" /\ e.stage = "program" /\ a = e.at ->
                          And(cells[a], o.bytes[k + 1])
                     [] armed = "using" /\ e.stage = "erase"
                        /\ a \div PageSize = e.at \div PageSize -> FF
                     [] OTHER -> cells[a]]
    BY DEF Believe, Due
  <2>2. cells = [a \in DOMAIN cells |-> cells[a]]
    BY DEF Arrays
  <2> HIDE DEF e
  <2>3. cells' = [a \in DOMAIN cells |-> cells[a]]
    BY <2>1
  <2> QED BY <2>2, <2>3
<1>4. disk' = IF Sealed(e) THEN [b \in DOMAIN disk |->
                                   IF b = e.arg THEN [i \in 1..BlockBytes |->
                                     o.bytes[(k + 1) - CrcBytes - BlockBytes + i]]
                                   ELSE disk[b]]
              ELSE disk
  BY DEF Believe, Due, Sealed
<1>5. disk' = StoredBlocks(o, k, c)
  BY <1>4 DEF StoredBlocks, Put
<1>6. greeted' = (greeted \/ (Ran(e) /\ e.cmd = "CMD0"))
  BY DEF Believe, Due, Ran
<1>7. Answer(o, k + 1)' = Answer(o, k + 1)
  <2>1. e.stage = "seal" \/ disk' = disk
    BY <1>4 DEF Sealed
  <2> HIDE DEF e
  <2>2. CASE e.stage = "seal"
    BY <2>2 DEF Answer, Due, e
  <2>3. CASE disk' = disk
    BY <2>3, <1>2, <1>3 DEF Answer, Due
  <2> QED BY <2>1, <2>2, <2>3
<1> QED BY <1>2, <1>3, <1>5, <1>6, <1>7

-----------------------------------------------------------------------------
(* The wire.                                                                *)

(* A bit read where n were read before it, all of one byte.                 *)
LEMMA OneRead ==
  ASSUME NEW s \in Seq(Levels), NEW x, NEW n \in Nat, s = [j \in 1..n |-> <<x, j - 1>>], n < W,
         <<x, n>> \in Levels
  PROVE  LET t == Append(s, <<x, n>>) IN
         /\ Len(s) = n /\ t \in Seq(Levels) /\ Len(t) = n + 1
         /\ t = [j \in 1..n + 1 |-> <<x, j - 1>>]
         /\ n + 1 = W => Assembled(t) = x
<1> DEFINE t == Append(s, <<x, n>>)
<1>1. Len(s) = n /\ n \in Nat
  OBVIOUS
<1>2. t \in Seq(Levels) /\ Len(t) = Len(s) + 1 /\ t[Len(s) + 1] = <<x, n>>
      /\ \A j \in 1..Len(s) : t[j] = s[j]
  BY AppendProperties
<1>3. Len(t) = n + 1 /\ t[n + 1] = <<x, n>> /\ \A j \in 1..n : t[j] = <<x, j - 1>>
  <2>1. Len(t) = n + 1 /\ t[n + 1] = <<x, n>>
    BY <1>1, <1>2
  <2>2. \A j \in 1..n : t[j] = s[j] /\ s[j] = <<x, j - 1>>
    BY <1>1, <1>2
  <2> QED BY <2>1, <2>2
<1> HIDE DEF t
<1>4. \A j \in 1..n + 1 : t[j] = <<x, j - 1>>
  <2> SUFFICES ASSUME NEW j \in 1..n + 1 PROVE t[j] = <<x, j - 1>>
    OBVIOUS
  <2>1. CASE j = n + 1
    <3>1. j - 1 = n
      BY <2>1
    <3> QED BY <1>3, <2>1, <3>1
  <2>2. CASE j \in 1..n
    BY <1>3, <2>2
  <2> QED BY <2>1, <2>2
<1>5. t = [j \in 1..n + 1 |-> <<x, j - 1>>]
  <2>1. t = [j \in 1..Len(t) |-> t[j]]
    BY <1>2
  <2> QED BY <1>3, <1>4, <2>1
<1>6. ASSUME n + 1 = W PROVE Assembled(t) = x
  <2>1. \A j \in 1..W : t[j] = <<x, j - 1>>
    BY <1>4, <1>6
  <2>2. t[1] = <<x, 0>> /\ t[1][1] = x
    BY <2>1, Widths
  <2>3. \A i \in 1..W : t[i] = <<t[1][1], i - 1>>
    BY <2>1, <2>2
  <2> QED BY <2>2, <2>3 DEF Assembled
<1> QED BY <1>1, <1>2, <1>3, <1>5, <1>6 DEF t

(* What the master sees of the line.                                        *)
LEMMA Lines ==
  ASSUME NEW f, NEW w, NEW x, NEW n, Len(bits) = n
  PROVE  /\ f.sel /\ f.driving /\ f.shift.dout = <<x, n>> => Line(f, w) = <<x, n>>
         /\ ~(f.sel /\ f.driving) /\ w.dout = <<x, n>> => Line(f, w) = <<x, n>>
         /\ ~(f.sel /\ f.driving) /\ w.dout \in {Released, <<FF, 0>>, <<FF, 1>>}
              => Line(f, w) = <<FF, n>>
<1>1. <<x, n>> # Released /\ <<FF, 0>> # Released /\ <<FF, 1>> # Released
  BY DEF Released
<1>2. <<x, n>>[1] = x /\ <<FF, 0>>[1] = FF /\ <<FF, 1>>[1] = FF
  OBVIOUS
<1>3. f.sel /\ f.driving /\ f.shift.dout = <<x, n>> => Line(f, w) = <<x, n>>
  BY <1>2 DEF Line, DrivesDo
<1>4. ~(f.sel /\ f.driving) /\ w.dout = <<x, n>> => Line(f, w) = <<x, n>>
  BY <1>1, <1>2 DEF Line, DrivesDo
<1>5. ~(f.sel /\ f.driving) /\ w.dout \in {Released, <<FF, 0>>, <<FF, 1>>} => Line(f, w) = <<FF, n>>
  BY <1>1, <1>2 DEF Line, DrivesDo
<1> QED BY <1>3, <1>4, <1>5

(* A read of a bit of the byte under way.                                   *)
LEMMA BitRead ==
  ASSUME bits \in Seq(Levels), got \in [n : Nat, byte : Codes], NEW x \in Codes,
         NEW n \in 0..W - 1, bits = [j \in 1..n |-> <<x, j - 1>>], NEW m, NEW f, NEW w,
         Reads(m, f, w),
         \/ m.reads = "before" /\ Line(flash, card) = <<x, n>>
         \/ m.reads = "after" /\ Line(f, w) = <<x, n>>
  PROVE  /\ bits' = [j \in 1..Folded(n + 1) |-> <<x, j - 1>>]
         /\ bits' \in Seq(Levels) /\ Len(bits') < W /\ got' \in [n : Nat, byte : Codes]
         /\ got' = IF n + 1 = W THEN [n |-> got.n + 1, byte |-> x] ELSE got
<1> DEFINE s == Append(bits, <<x, n>>)
<1>1. n \in Nat /\ n < W /\ n + 1 \in Nat /\ n + 1 <= W
  BY Widths
<1>2. <<x, n>> \in Levels
  BY <1>1 DEF Levels
<1>3. /\ s \in Seq(Levels) /\ Len(s) = n + 1 /\ s = [j \in 1..n + 1 |-> <<x, j - 1>>]
      /\ n + 1 = W => Assembled(s) = x
  BY ZenonT(40), <1>1, <1>2, OneRead
<1>4. IF Len(s) < W THEN bits' = s /\ UNCHANGED got
      ELSE bits' = <<>> /\ got' = [n |-> got.n + 1, byte |-> Assembled(s)]
  BY DEF Reads
<1> HIDE DEF s
<1>5. CASE n + 1 = W
  <2>1. bits' = <<>> /\ got' = [n |-> got.n + 1, byte |-> x]
    BY <1>3, <1>4, <1>5, Widths
  <2>2. Folded(n + 1) = 0 /\ <<>> = [j \in 1..0 |-> <<x, j - 1>>]
    BY <1>5 DEF Folded
  <2>3. <<>> \in Seq(Levels) /\ Len(<<>>) < W
    BY Widths
  <2>4. got.n + 1 \in Nat
    OBVIOUS
  <2>5. got' \in [n : Nat, byte : Codes]
    BY <2>1, <2>4
  <2> QED BY <1>5, <2>1, <2>2, <2>3, <2>5
<1>6. CASE n + 1 # W
  <2>1. bits' = s /\ got' = got
    BY <1>1, <1>3, <1>4, <1>6, Widths
  <2>2. Folded(n + 1) = n + 1
    BY <1>6 DEF Folded
  <2>3. Len(s) < W
    BY <1>1, <1>3, <1>6, Widths
  <2> QED BY <1>3, <1>6, <2>1, <2>2, <2>3
<1> QED BY <1>5, <1>6

-----------------------------------------------------------------------------
(* The part that is not spoken to.                                          *)

(* The flash while the card is spoken to, or nobody: an edge of its clock    *)
(* may reach it, and a second cannot before its select moves.               *)
LEMMA QuietFlash ==
  ASSUME NEW f \in Flashes, FlashQuiet(f), NEW clk \in BOOLEAN, NEW cs \in BOOLEAN, NEW di,
         clk = f.clk \/ f.sel = ~cs, clk /\ ~f.clk /\ f.sel => f.shift.count = 0
  PROVE  LET g == FlashSees(f, clk, cs, di) IN
         /\ g \in Flashes /\ FlashQuiet(g) /\ g.sel = ~cs /\ g.clk = clk
         /\ g.image = f.image /\ (g.wel <=> f.wel)
         /\ g.shift.count = IF f.sel # ~cs THEN 0
                            ELSE IF clk /\ ~f.clk /\ f.sel THEN 1 ELSE f.shift.count
<1> DEFINE g == FlashSees(f, clk, cs, di)
           h == FlashSelect(f, ~cs)
<1>1. g = FlashClock(h, clk, di)
  BY DEF FlashSees
<1>2. /\ f.phase = "Command" /\ f.have = 0 /\ ~f.loaded /\ ~f.driving
      /\ f.shift.out = FF /\ f.shift.shown = f.shift.count /\ f.shift.count \in {0, 1}
  BY DEF FlashQuiet
<1>3. f.sel \in BOOLEAN /\ f.clk \in BOOLEAN
  BY DEF Flashes
<1>4. CASE f.sel # ~cs
  <2>1. /\ h \in Flashes /\ h.sel = ~cs /\ h.clk = f.clk /\ h.image = f.image
        /\ h.phase = "Command" /\ h.have = 0 /\ ~h.loaded /\ ~h.driving
        /\ h.shift.count = 0 /\ h.shift.shown = 0 /\ h.shift.out = FF
        /\ h.wel <=> (f.wel /\ (~cs \/ f.phase \notin Writing))
    BY <1>4, FlashSelectMoves
  <2> HIDE DEF h
  <2>2. g = [h EXCEPT !.clk = clk] /\ h.clk = clk
    BY <1>1, <1>3, <1>4, <2>1, FlashClockIdles
  <2>3. g = h
    BY <2>1, <2>2 DEF Flashes
  <2>4. f.phase \notin Writing
    BY <1>2 DEF Writing
  <2>5. FlashQuiet(h)
    BY <2>1 DEF FlashQuiet
  <2> HIDE DEF g
  <2> QED BY <1>4, <2>1, <2>2, <2>3, <2>4, <2>5 DEF g
<1>5. CASE f.sel = ~cs
  <2>1. h = f
    BY <1>5, FlashSelectStays
  <2>2. CASE ~(clk /\ ~f.clk /\ f.sel)
    <3>1. g = [f EXCEPT !.clk = clk]
      BY <1>1, <1>3, <2>1, <2>2, FlashClockIdles
    <3> HIDE DEF g, h
    <3>2. g \in Flashes /\ g.sel = f.sel /\ g.clk = clk /\ g.image = f.image /\ g.wel = f.wel
      BY <3>1 DEF Flashes
    <3>3. g.phase = f.phase /\ g.have = f.have /\ g.loaded = f.loaded /\ g.driving = f.driving
          /\ g.shift = f.shift
      BY <3>1 DEF Flashes
    <3>4. FlashQuiet(g)
      BY <1>2, <3>3 DEF FlashQuiet
    <3> QED BY <1>5, <2>2, <3>2, <3>3, <3>4 DEF g
  <2>3. CASE clk /\ ~f.clk /\ f.sel
    <3> DEFINE s == Rise(f.shift, di)
    <3>1. f.shift.count = 0 /\ f.shift.count + 1 # W
      BY <2>3, Widths
    <3>2. g = [f EXCEPT !.clk = TRUE, !.shift = s, !.driving = f.loaded]
      <4>1. clk = TRUE
        BY <2>3
      <4>2. g = FlashClock(f, TRUE, di)
        BY <1>1, <2>1, <4>1
      <4> HIDE DEF g
      <4> QED BY <1>2, <2>3, <3>1, <4>2, FlashBit
    <3>3. s \in Shifters /\ s.shown = s.count /\ s.count = 1 /\ s.out = FF
      <4>1. f.shift \in Shifters
        BY DEF Flashes
      <4>2. s \in Shifters /\ s.shown = s.count /\ s.out = f.shift.out
            /\ s.count = (IF f.shift.count + 1 = W THEN 0 ELSE f.shift.count + 1)
        BY <1>2, <4>1, Risen
      <4> HIDE DEF s
      <4> QED BY <1>2, <3>1, <4>2
    <3> HIDE DEF g, h, s
    <3>4. g \in Flashes /\ g.sel = f.sel /\ g.clk = TRUE /\ g.image = f.image /\ g.wel = f.wel
      BY <3>2, <3>3 DEF Flashes
    <3>5. g.phase = f.phase /\ g.have = f.have /\ g.loaded = f.loaded /\ g.driving = f.loaded
          /\ g.shift = s
      BY <3>2 DEF Flashes
    <3>6. FlashQuiet(g)
      BY <1>2, <3>3, <3>5 DEF FlashQuiet
    <3> QED BY <1>5, <2>3, <3>3, <3>4, <3>5, <3>6 DEF g
  <2> QED BY <2>2, <2>3
<1> QED BY <1>4, <1>5

(* The card while the flash is spoken to, or nobody.                        *)
LEMMA QuietCard ==
  ASSUME NEW w \in Cards, CardQuiet(w), NEW clk \in BOOLEAN, NEW cs \in BOOLEAN, NEW di,
         clk = w.clk \/ w.sel = ~cs, clk /\ ~w.clk /\ w.sel => w.count = 0
  PROVE  LET x == CardSees(w, clk, cs, di) IN
         /\ x \in Cards /\ CardQuiet(x) /\ x.sel = ~cs /\ x.clk = clk
         /\ x.driven = w.driven /\ x.card.spi = w.card.spi /\ x.card.blocks = w.card.blocks
         /\ x.count = IF w.sel # ~cs THEN 0
                      ELSE IF clk /\ ~w.clk /\ w.sel THEN 1 ELSE w.count
         /\ ~cs /\ w.sel # ~cs => x.dout = IF w.driven THEN <<FF, 0>> ELSE Released
<1> DEFINE x == CardSees(w, clk, cs, di)
           y == CardSelect(w, ~cs)
<1>1. x = CardClock(y, clk, di)
  BY DEF CardSees
<1>2. /\ CardIdle(w.card) /\ w.outByte = FF /\ w.shown = w.count /\ w.count \in {0, 1}
      /\ w.dout \in {Released, <<FF, 0>>, <<FF, 1>>}
  BY DEF CardQuiet
<1>3. w.sel \in BOOLEAN /\ w.clk \in BOOLEAN /\ w.driven \in BOOLEAN /\ w.card \in Protocols
  BY DEF Cards
<1>4. CASE w.sel # ~cs
  <2>1. /\ y \in Cards /\ y.sel = ~cs /\ y.clk = w.clk /\ y.driven = w.driven
        /\ y.count = 0 /\ y.shown = 0 /\ y.outByte = FF
        /\ y.dout = IF ~cs /\ w.driven THEN <<FF, 0>> ELSE Released
        /\ y.card = IF ~cs THEN w.card ELSE Deselected(w.card)
    BY <1>4, CardSelectMoves
  <2>2. CardIdle(y.card) /\ y.card.spi = w.card.spi /\ y.card.blocks = w.card.blocks
    <3>1. CASE cs
      <4>1. /\ Deselected(w.card).phase = "Command" /\ Deselected(w.card).frame = <<>>
            /\ Deselected(w.card).out = <<>> /\ Deselected(w.card).app = w.card.app
            /\ Deselected(w.card).pending = NoBlock /\ Deselected(w.card).multiWrite = NoBlock
            /\ Deselected(w.card).multiRead = NoBlock
            /\ Deselected(w.card).spi = w.card.spi /\ Deselected(w.card).blocks = w.card.blocks
        BY <1>3, Dropped
      <4>2. y.card = Deselected(w.card)
        BY <2>1, <3>1
      <4> HIDE DEF y
      <4> QED BY <1>2, <4>1, <4>2 DEF CardIdle
    <3>2. CASE ~cs
      <4>1. y.card = w.card
        BY <2>1, <3>2
      <4> HIDE DEF y
      <4> QED BY <1>2, <4>1
    <3> QED BY <3>1, <3>2
  <2> HIDE DEF y
  <2>3. x = [y EXCEPT !.clk = clk] /\ y.clk = clk
    BY <1>1, <1>3, <1>4, <2>1, CardClockIdles
  <2>4. x = y
    BY <2>1, <2>3 DEF Cards
  <2>5. CardQuiet(y)
    BY <2>1, <2>2 DEF CardQuiet
  <2> HIDE DEF x
  <2>6. x \in Cards /\ CardQuiet(x) /\ x.sel = ~cs /\ x.clk = clk
    BY <2>1, <2>3, <2>4, <2>5
  <2>7. x.driven = w.driven /\ x.card.spi = w.card.spi /\ x.card.blocks = w.card.blocks
    BY <2>1, <2>2, <2>4
  <2>8. x.count = 0 /\ (~cs => x.dout = IF w.driven THEN <<FF, 0>> ELSE Released)
    BY <2>1, <2>4
  <2> QED BY <1>4, <2>6, <2>7, <2>8 DEF x
<1>5. CASE w.sel = ~cs
  <2>1. y = w
    BY <1>5, CardSelectStays
  <2>2. CASE ~w.sel \/ w.clk = clk
    <3>1. x = [w EXCEPT !.clk = clk]
      BY <1>1, <2>1, <2>2, CardClockIdles
    <3> HIDE DEF x, y
    <3>2. x \in Cards /\ x.sel = w.sel /\ x.clk = clk /\ x.driven = w.driven /\ x.card = w.card
      BY <3>1 DEF Cards
    <3>3. x.outByte = w.outByte /\ x.shown = w.shown /\ x.count = w.count /\ x.dout = w.dout
      BY <3>1 DEF Cards
    <3>4. CardQuiet(x)
      BY <1>2, <3>2, <3>3 DEF CardQuiet
    <3> QED BY <1>3, <1>5, <2>2, <3>2, <3>3, <3>4 DEF x
  <2>3. CASE w.sel /\ w.clk # clk /\ ~clk
    <3>1. w.clk /\ clk = FALSE
      BY <1>3, <2>3
    <3>2. x = CardClock(w, FALSE, di)
      BY <1>1, <2>1, <3>1
    <3> HIDE DEF x, y
    <3>3. /\ x \in Cards /\ x.sel /\ ~x.clk /\ x.driven = w.driven /\ x.count = w.count
          /\ x.shown = w.shown /\ x.outByte = w.outByte /\ x.card = w.card
          /\ x.dout = IF w.driven THEN <<w.outByte, w.shown>> ELSE Released
      BY <2>3, <3>1, <3>2, CardFalls
    <3>4. x.dout \in {Released, <<FF, 0>>, <<FF, 1>>}
      BY <1>2, <3>3
    <3>5. CardQuiet(x)
      BY <1>2, <3>3, <3>4 DEF CardQuiet
    <3>6. x.sel \in BOOLEAN /\ x.clk \in BOOLEAN
      BY <3>3 DEF Cards
    <3> QED BY <1>5, <2>3, <3>1, <3>3, <3>5, <3>6 DEF x
  <2>4. CASE w.sel /\ w.clk # clk /\ clk
    <3>1. ~w.clk /\ clk = TRUE /\ w.count = 0 /\ w.count + 1 # W
      <4>1. ~w.clk /\ clk = TRUE
        BY <1>3, <2>4
      <4>2. w.count = 0
        BY <2>4, <4>1
      <4> QED BY <4>1, <4>2, Widths
    <3>2. x = CardClock(w, TRUE, di)
      BY <1>1, <2>1, <3>1
    <3> HIDE DEF x, y
    <3>3. /\ x \in Cards /\ x.sel /\ x.clk /\ x.driven = w.driven /\ x.count = w.count + 1
          /\ x.shown = w.count + 1 /\ x.outByte = w.outByte /\ x.card = w.card /\ x.dout = w.dout
      BY <1>2, <2>4, <3>1, <3>2, CardBit
    <3>4. CardQuiet(x) /\ x.count = 1
      BY <1>2, <3>1, <3>3 DEF CardQuiet
    <3>5. x.sel \in BOOLEAN /\ x.clk \in BOOLEAN
      BY <3>3 DEF Cards
    <3> QED BY <1>5, <2>4, <3>1, <3>3, <3>4, <3>5 DEF x
  <2> QED BY <1>3, <2>2, <2>3, <2>4
<1> QED BY <1>4, <1>5

-----------------------------------------------------------------------------
(* The master, move by move.                                                *)

Positions == [byte : Nat, bit : 0..W - 1, half : 1..3]

(* Nobody's turn is not a transaction.                                      *)
LEMMA Devices ==
  ASSUME NEW o \in Ops
  PROVE  o # NoOp /\ (o.dev = "flash" \/ o.dev = "card") /\ Len(o.bytes) \in Nat
         /\ Len(o.bytes) >= 1 /\ DOMAIN o.bytes = 1..Len(o.bytes)
<1>1. o.dev = "flash" \/ o.dev = "card"
  BY Spoken
<1>2. NoOp.dev = "none"
  BY DEF NoOp
<1> QED BY <1>1, <1>2, FlashSpoken, CardSpoken

(* The moves of a flash transaction, and where each leads.                  *)
LEMMA FlashPlaces ==
  ASSUME NEW o \in Ops, o.dev = "flash", NEW p \in Positions
  PROVE  /\ p.byte = 0 =>
              /\ MovesAt(o, p)[1] = Plain(60, FALSE) /\ MovesAt(o, p)[2] = Plain(61, FALSE)
              /\ ~Ends(o, p) /\ (p.half = 1 => Then(o, p) = At(0, p.bit, 2))
              /\ p.half = 2 => Then(o, p) = At(1, 0, 1)
         /\ p.byte \in DOMAIN o.bytes =>
              /\ MovesAt(o, p)[1] = Move(60, TRUE, [byte |-> o.bytes[p.byte], at |-> p.bit], "no")
              /\ MovesAt(o, p)[2] = Move(60, FALSE, Glue, "after") /\ ~Ends(o, p)
              /\ p.half = 1 => Then(o, p) = At(p.byte, p.bit, 2)
              /\ p.half = 2 => Then(o, p) = IF p.bit + 1 = W THEN At(p.byte + 1, 0, 1)
                                            ELSE At(p.byte, p.bit + 1, 1)
         /\ p = Shut(o) => MovesAt(o, p)[1] = Plain(61, TRUE) /\ Ends(o, p)
<1>1. /\ Len(o.bytes) \in Nat /\ Len(o.bytes) >= 1 /\ DOMAIN o.bytes = 1..Len(o.bytes)
      /\ p.byte \in Nat /\ p.bit \in 0..W - 1 /\ p.half \in 1..3
  BY FlashSpoken DEF Positions
<1>2. /\ Opening(o) = <<Plain(60, FALSE), Plain(61, FALSE)>> /\ Closing(o) = <<Plain(61, TRUE)>>
      /\ Len(Opening(o)) = 2 /\ Len(Closing(o)) = 1
  BY DEF Opening, Closing
<1>3. ASSUME p.byte = 0
      PROVE  /\ MovesAt(o, p)[1] = Plain(60, FALSE) /\ MovesAt(o, p)[2] = Plain(61, FALSE)
             /\ ~Ends(o, p) /\ (p.half = 1 => Then(o, p) = At(0, p.bit, 2))
             /\ p.half = 2 => Then(o, p) = At(1, 0, 1)
  <2>1. MovesAt(o, p) = Opening(o)
    BY <1>1, <1>3 DEF MovesAt
  <2>2. MovesAt(o, p)[1] = Plain(60, FALSE) /\ MovesAt(o, p)[2] = Plain(61, FALSE)
    BY <1>2, <2>1
  <2>3. ~Ends(o, p)
    BY <1>1, <1>3 DEF Ends
  <2>4. p.half = 1 => Then(o, p) = At(0, p.bit, 2)
    BY <1>2, <1>3, <2>1 DEF Then
  <2>5. p.half = 2 => Then(o, p) = At(1, 0, 1)
    BY <1>2, <1>3, <2>1 DEF Then
  <2> QED BY <2>2, <2>3, <2>4, <2>5
<1>4. ASSUME p.byte \in DOMAIN o.bytes
      PROVE  /\ MovesAt(o, p)[1] = Move(60, TRUE, [byte |-> o.bytes[p.byte], at |-> p.bit], "no")
             /\ MovesAt(o, p)[2] = Move(60, FALSE, Glue, "after") /\ ~Ends(o, p)
             /\ p.half = 1 => Then(o, p) = At(p.byte, p.bit, 2)
             /\ p.half = 2 => Then(o, p) = IF p.bit + 1 = W THEN At(p.byte + 1, 0, 1)
                                            ELSE At(p.byte, p.bit + 1, 1)
  <2>1. p.byte # 0 /\ p.byte \in 1..Len(o.bytes)
    BY <1>1, <1>4
  <2>2. MovesAt(o, p) = BitMoves(o, o.bytes[p.byte], p.bit)
    BY <1>4, <2>1 DEF MovesAt
  <2>3. MovesAt(o, p) = <<Move(60, TRUE, [byte |-> o.bytes[p.byte], at |-> p.bit], "no"),
                          Move(60, FALSE, Glue, "after")>>
    BY <2>2 DEF BitMoves
  <2>4. /\ MovesAt(o, p)[1] = Move(60, TRUE, [byte |-> o.bytes[p.byte], at |-> p.bit], "no")
        /\ MovesAt(o, p)[2] = Move(60, FALSE, Glue, "after") /\ Len(MovesAt(o, p)) = 2
    BY <2>3
  <2>5. ~Ends(o, p)
    BY <1>1, <2>1 DEF Ends
  <2>6. p.half = 1 => Then(o, p) = At(p.byte, p.bit, 2)
    BY <2>4 DEF Then
  <2>7. ASSUME p.half = 2
        PROVE  Then(o, p) = IF p.bit + 1 = W THEN At(p.byte + 1, 0, 1)
                            ELSE At(p.byte, p.bit + 1, 1)
    <3>1. p.bit < W - 1 <=> p.bit + 1 # W
      BY <1>1, Widths
    <3> QED BY <2>1, <2>4, <2>7, <3>1 DEF Then
  <2> QED BY <2>4, <2>5, <2>6, <2>7
<1>5. ASSUME p = Shut(o) PROVE MovesAt(o, p)[1] = Plain(61, TRUE) /\ Ends(o, p)
  <2>1. p.byte = Len(o.bytes) + 1 /\ p.half = 1
    BY <1>5 DEF Shut, At
  <2>2. p.byte # 0 /\ p.byte \notin DOMAIN o.bytes /\ p.byte > Len(o.bytes)
    BY <1>1, <2>1
  <2>3. MovesAt(o, p) = Closing(o)
    BY <2>2 DEF MovesAt
  <2> QED BY <1>2, <2>1, <2>2, <2>3 DEF Ends
<1> QED BY <1>3, <1>4, <1>5

(* And of a card transaction.                                               *)
LEMMA CardPlaces ==
  ASSUME NEW o \in Ops, o.dev = "card", NEW p \in Positions
  PROVE  /\ p.byte = 0 =>
              /\ MovesAt(o, p)[1] = Plain(60, TRUE) /\ MovesAt(o, p)[2] = Plain(61, o.mode = 3)
              /\ MovesAt(o, p)[3] = Plain(60, FALSE)
              /\ ~Ends(o, p) /\ (p.half = 1 => Then(o, p) = At(0, p.bit, 2))
              /\ p.half = 2 => Then(o, p) = At(0, p.bit, 3)
              /\ p.half = 3 => Then(o, p) = At(1, 0, 1)
         /\ p.byte \in DOMAIN o.bytes =>
              /\ MovesAt(o, p)[IF o.mode = 3 THEN 2 ELSE 1]
                   = Move(61, TRUE, [byte |-> o.bytes[p.byte], at |-> p.bit], "before")
              /\ MovesAt(o, p)[IF o.mode = 3 THEN 1 ELSE 2] = Plain(61, FALSE) /\ ~Ends(o, p)
              /\ p.half = 1 => Then(o, p) = At(p.byte, p.bit, 2)
              /\ p.half = 2 => Then(o, p) = IF p.bit + 1 = W THEN At(p.byte + 1, 0, 1)
                                            ELSE At(p.byte, p.bit + 1, 1)
         /\ p.byte = Len(o.bytes) + 1 =>
              /\ MovesAt(o, p)[1] = Plain(60, TRUE) /\ MovesAt(o, p)[2] = Plain(61, TRUE)
              /\ Ends(o, p) <=> p.half = 2
              /\ p.half = 1 => Then(o, p) = At(p.byte, p.bit, 2)
<1>1. /\ Len(o.bytes) \in Nat /\ Len(o.bytes) >= 1 /\ DOMAIN o.bytes = 1..Len(o.bytes)
      /\ p.byte \in Nat /\ p.bit \in 0..W - 1 /\ p.half \in 1..3
  BY CardSpoken DEF Positions
<1>2. /\ Opening(o) = <<Plain(60, TRUE), Plain(61, o.mode = 3), Plain(60, FALSE)>>
      /\ Closing(o) = <<Plain(60, TRUE), Plain(61, TRUE)>>
      /\ Len(Opening(o)) = 3 /\ Len(Closing(o)) = 2
  BY DEF Opening, Closing
<1>3. ASSUME p.byte = 0
      PROVE  /\ MovesAt(o, p)[1] = Plain(60, TRUE) /\ MovesAt(o, p)[2] = Plain(61, o.mode = 3)
             /\ MovesAt(o, p)[3] = Plain(60, FALSE)
             /\ ~Ends(o, p) /\ (p.half = 1 => Then(o, p) = At(0, p.bit, 2))
             /\ p.half = 2 => Then(o, p) = At(0, p.bit, 3)
             /\ p.half = 3 => Then(o, p) = At(1, 0, 1)
  <2>1. MovesAt(o, p) = Opening(o)
    BY <1>1, <1>3 DEF MovesAt
  <2>2. MovesAt(o, p)[1] = Plain(60, TRUE) /\ MovesAt(o, p)[2] = Plain(61, o.mode = 3)
        /\ MovesAt(o, p)[3] = Plain(60, FALSE)
    BY <1>2, <2>1
  <2>3. ~Ends(o, p)
    BY <1>1, <1>3 DEF Ends
  <2>4. p.half = 1 => Then(o, p) = At(0, p.bit, 2)
    BY <1>2, <1>3, <2>1 DEF Then
  <2>5. p.half = 2 => Then(o, p) = At(0, p.bit, 3)
    BY <1>2, <1>3, <2>1 DEF Then
  <2>6. p.half = 3 => Then(o, p) = At(1, 0, 1)
    BY <1>2, <1>3, <2>1 DEF Then
  <2> QED BY <2>2, <2>3, <2>4, <2>5, <2>6
<1>4. ASSUME p.byte \in DOMAIN o.bytes
      PROVE  /\ MovesAt(o, p)[IF o.mode = 3 THEN 2 ELSE 1]
                   = Move(61, TRUE, [byte |-> o.bytes[p.byte], at |-> p.bit], "before")
             /\ MovesAt(o, p)[IF o.mode = 3 THEN 1 ELSE 2] = Plain(61, FALSE) /\ ~Ends(o, p)
             /\ p.half = 1 => Then(o, p) = At(p.byte, p.bit, 2)
             /\ p.half = 2 => Then(o, p) = IF p.bit + 1 = W THEN At(p.byte + 1, 0, 1)
                                            ELSE At(p.byte, p.bit + 1, 1)
  <2>1. p.byte # 0 /\ p.byte \in 1..Len(o.bytes)
    BY <1>1, <1>4
  <2>2. MovesAt(o, p) = BitMoves(o, o.bytes[p.byte], p.bit)
    BY <1>4, <2>1 DEF MovesAt
  <2> DEFINE di == [byte |-> o.bytes[p.byte], at |-> p.bit]
  <2>3. MovesAt(o, p) = IF o.mode = 3 THEN <<Plain(61, FALSE), Move(61, TRUE, di, "before")>>
                        ELSE <<Move(61, TRUE, di, "before"), Plain(61, FALSE)>>
    BY <2>2 DEF BitMoves
  <2> HIDE DEF di
  <2>4. /\ MovesAt(o, p)[IF o.mode = 3 THEN 2 ELSE 1] = Move(61, TRUE, di, "before")
        /\ MovesAt(o, p)[IF o.mode = 3 THEN 1 ELSE 2] = Plain(61, FALSE)
        /\ Len(MovesAt(o, p)) = 2
    <3>1. CASE o.mode = 3
      BY <2>3, <3>1
    <3>2. CASE o.mode # 3
      BY <2>3, <3>2
    <3> QED BY <3>1, <3>2
  <2>5. ~Ends(o, p)
    BY <1>1, <2>1 DEF Ends
  <2>6. p.half = 1 => Then(o, p) = At(p.byte, p.bit, 2)
    BY <2>4 DEF Then
  <2>7. ASSUME p.half = 2
        PROVE  Then(o, p) = IF p.bit + 1 = W THEN At(p.byte + 1, 0, 1)
                            ELSE At(p.byte, p.bit + 1, 1)
    <3>1. p.bit < W - 1 <=> p.bit + 1 # W
      BY <1>1, Widths
    <3> QED BY <2>1, <2>4, <2>7, <3>1 DEF Then
  <2> QED BY <2>4, <2>5, <2>6, <2>7 DEF di
<1>5. ASSUME p.byte = Len(o.bytes) + 1
      PROVE  /\ MovesAt(o, p)[1] = Plain(60, TRUE) /\ MovesAt(o, p)[2] = Plain(61, TRUE)
             /\ Ends(o, p) <=> p.half = 2
             /\ p.half = 1 => Then(o, p) = At(p.byte, p.bit, 2)
  <2>1. p.byte # 0 /\ p.byte \notin DOMAIN o.bytes /\ p.byte > Len(o.bytes)
    BY <1>1, <1>5
  <2>2. MovesAt(o, p) = Closing(o)
    BY <2>1 DEF MovesAt
  <2>3. MovesAt(o, p)[1] = Plain(60, TRUE) /\ MovesAt(o, p)[2] = Plain(61, TRUE)
    BY <1>2, <2>2
  <2>4. p.half = 1 => Then(o, p) = At(p.byte, p.bit, 2)
    BY <1>2, <2>2 DEF Then
  <2>5. Ends(o, p) <=> p.half = 2
    BY <1>2, <2>1 DEF Ends
  <2> QED BY <2>3, <2>4, <2>5
<1> QED BY <1>3, <1>4, <1>5

(* The moves of one bit.                                                    *)
LEMMA CardBits ==
  ASSUME NEW o \in Ops, o.dev = "card", NEW p \in Positions, p.byte \in DOMAIN o.bytes
  PROVE  /\ MovesAt(o, p)[IF o.mode = 3 THEN 2 ELSE 1]
              = Move(61, TRUE, [byte |-> o.bytes[p.byte], at |-> p.bit], "before")
         /\ MovesAt(o, p)[IF o.mode = 3 THEN 1 ELSE 2] = Plain(61, FALSE) /\ ~Ends(o, p)
         /\ p.half = 1 => Then(o, p) = At(p.byte, p.bit, 2)
         /\ p.half = 2 => Then(o, p) = IF p.bit + 1 = W THEN At(p.byte + 1, 0, 1)
                                       ELSE At(p.byte, p.bit + 1, 1)
BY CardPlaces

(* A move that neither sends a bit nor reads one.                           *)
LEMMA PlainMove ==
  ASSUME PinMove, NEW pin, NEW high, MovesAt(op, pos)[pos.half] = Plain(pin, high)
  PROVE  /\ p60' = (IF pin = 60 THEN high ELSE p60) /\ p61' = (IF pin = 61 THEN high ELSE p61)
         /\ flash' = FlashSees(flash, p60', p61', Glue)
         /\ card' = CardSees(card, p61', p60', Glue)
         /\ UNCHANGED <<bits, got, cells, disk, greeted>>
         /\ armed' = IF Ends(op, pos) /\ armed = "using" THEN "no" ELSE armed
<1> DEFINE m == MovesAt(op, pos)[pos.half]
<1>1. m = Plain(pin, high)
  OBVIOUS
<1>2. /\ p60' = IF m.pin = 60 THEN m.high ELSE p60
      /\ p61' = IF m.pin = 61 THEN m.high ELSE p61
      /\ flash' = FlashSees(flash, p60', p61', m.di)
      /\ card' = CardSees(card, p61', p60', m.di)
      /\ Reads(m, flash', card')
      /\ IF LastBit(m) THEN Believe(op, pos.byte)
         ELSE /\ armed' = IF Ends(op, pos) /\ armed = "using" THEN "no" ELSE armed
              /\ UNCHANGED <<cells, disk, greeted>>
  BY DEF PinMove
<1> HIDE DEF m
<1>3. m.pin = pin /\ m.high = high /\ m.di = Glue /\ m.reads = "no"
  BY <1>1 DEF Plain, Move
<1>4. ~LastBit(m)
  BY <1>3, Widths DEF LastBit, Glue
<1>5. UNCHANGED <<bits, got>>
  BY <1>2, <1>3 DEF Reads
<1> QED BY <1>2, <1>3, <1>4, <1>5

(* And one that sends a bit to the card or the flash.                       *)
LEMMA BitMove ==
  ASSUME PinMove, NEW pin, NEW high, NEW di, NEW reads, di.at = pos.bit,
         MovesAt(op, pos)[pos.half] = Move(pin, high, di, reads), ~Ends(op, pos)
  PROVE  LET m == MovesAt(op, pos)[pos.half] IN
         /\ m.reads = reads /\ Reads(m, flash', card')
         /\ p60' = (IF pin = 60 THEN high ELSE p60) /\ p61' = (IF pin = 61 THEN high ELSE p61)
         /\ flash' = FlashSees(flash, p60', p61', di)
         /\ card' = CardSees(card, p61', p60', di)
         /\ pos.bit = W - 1 => Believe(op, pos.byte)
         /\ pos.bit # W - 1 => UNCHANGED <<armed, cells, disk, greeted>>
<1> DEFINE m == MovesAt(op, pos)[pos.half]
<1>1. m = Move(pin, high, di, reads)
  OBVIOUS
<1>2. /\ p60' = IF m.pin = 60 THEN m.high ELSE p60
      /\ p61' = IF m.pin = 61 THEN m.high ELSE p61
      /\ flash' = FlashSees(flash, p60', p61', m.di)
      /\ card' = CardSees(card, p61', p60', m.di)
      /\ Reads(m, flash', card')
      /\ IF LastBit(m) THEN Believe(op, pos.byte)
         ELSE /\ armed' = IF Ends(op, pos) /\ armed = "using" THEN "no" ELSE armed
              /\ UNCHANGED <<cells, disk, greeted>>
  BY DEF PinMove
<1> HIDE DEF m
<1>3. m.pin = pin /\ m.high = high /\ m.di = di /\ m.reads = reads
  BY <1>1 DEF Move
<1>4. LastBit(m) <=> pos.bit = W - 1
  BY <1>3 DEF LastBit
<1> QED BY <1>2, <1>3, <1>4 DEF m

(* The six facts of the types that no proof does without.                   *)
LEMMA BusTypes ==
  ASSUME TypeOK
  PROVE  /\ p60 \in BOOLEAN /\ p61 \in BOOLEAN /\ greeted \in BOOLEAN
         /\ flash \in Flashes /\ card \in Cards /\ cells \in Arrays /\ disk \in Disks
         /\ op \in Ops \cup {NoOp} /\ armed \in {"no", "yes", "using"} /\ pos \in Positions
         /\ bits \in Seq(Levels) /\ Len(bits) < W /\ got \in [n : Nat, byte : Codes]
  BY DEF TypeOK, Positions

(* An edge while neither part is spoken to.                                 *)
LEMMA QuietMove ==
  ASSUME TypeOK, Wires, HoldsWhatWasWritten, PinMove, FlashQuiet(flash), CardQuiet(card),
         NEW pin \in {60, 61}, NEW high \in BOOLEAN,
         MovesAt(op, pos)[pos.half] = Plain(pin, high),
         pin = 60 /\ high /\ ~p60 /\ ~p61 => flash.shift.count = 0,
         pin = 61 /\ high /\ ~p61 /\ ~p60 => card.count = 0
  PROVE  /\ p60' = (IF pin = 60 THEN high ELSE p60) /\ p61' = (IF pin = 61 THEN high ELSE p61)
         /\ p60' \in BOOLEAN /\ p61' \in BOOLEAN /\ flash' \in Flashes /\ card' \in Cards
         /\ FlashQuiet(flash)' /\ (flash'.wel <=> flash.wel) /\ flash'.phase = "Command"
         /\ flash'.shift.count = IF p61' # p61 THEN 0
                                 ELSE IF p60' /\ ~p60 /\ ~p61 THEN 1 ELSE flash.shift.count
         /\ CardQuiet(card)'
         /\ card'.count = IF p60' # p60 THEN 0
                          ELSE IF p61' /\ ~p61 /\ ~p60 THEN 1 ELSE card.count
         /\ ~p60' /\ p60 => card'.dout = IF greeted THEN <<FF, 0>> ELSE Released
         /\ Wires' /\ HoldsWhatWasWritten' /\ UNCHANGED <<bits, got, cells, disk, greeted>>
         /\ armed' = IF Ends(op, pos) /\ armed = "using" THEN "no" ELSE armed
<1>1. /\ p60 \in BOOLEAN /\ p61 \in BOOLEAN /\ greeted \in BOOLEAN
      /\ flash \in Flashes /\ card \in Cards
  BY BusTypes
<1>2. /\ p60' = (IF pin = 60 THEN high ELSE p60) /\ p61' = (IF pin = 61 THEN high ELSE p61)
      /\ flash' = FlashSees(flash, p60', p61', Glue)
      /\ card' = CardSees(card, p61', p60', Glue)
      /\ UNCHANGED <<bits, got, cells, disk, greeted>>
      /\ armed' = IF Ends(op, pos) /\ armed = "using" THEN "no" ELSE armed
  BY PlainMove
<1>3. PICK a \in BOOLEAN : a = p60'
  BY <1>1, <1>2
<1>4. PICK b \in BOOLEAN : b = p61'
  BY <1>1, <1>2
<1>5. /\ flash.clk = p60 /\ flash.sel = ~p61 /\ card.clk = p61 /\ card.sel = ~p60
      /\ card.driven = greeted /\ card.card.spi = greeted
  BY DEF Wires
<1>6. /\ a = p60 \/ b = p61
      /\ a /\ ~p60 => b = p61 /\ (~p61 => flash.shift.count = 0)
      /\ b /\ ~p61 => a = p60 /\ (~p60 => card.count = 0)
  <2>1. CASE pin = 60
    <3>1. a = high /\ b = p61
      BY <1>2, <1>3, <1>4, <2>1
    <3>2. a /\ ~p60 /\ ~p61 => flash.shift.count = 0
      BY <2>1, <3>1
    <3> QED BY <1>1, <3>1, <3>2
  <2>2. CASE pin = 61
    <3>1. a = p60 /\ b = high
      BY <1>2, <1>3, <1>4, <2>2
    <3>2. b /\ ~p61 /\ ~p60 => card.count = 0
      BY <2>2, <3>1
    <3> QED BY <1>1, <3>1, <3>2
  <2> QED BY <2>1, <2>2
<1>7. /\ flash' = FlashSees(flash, a, b, Glue) /\ card' = CardSees(card, b, a, Glue)
  BY <1>2, <1>3, <1>4
<1>8. /\ flash' \in Flashes /\ FlashQuiet(flash') /\ flash'.sel = ~b /\ flash'.clk = a
      /\ flash'.image = flash.image /\ (flash'.wel <=> flash.wel)
      /\ flash'.shift.count = IF flash.sel # ~b THEN 0
                              ELSE IF a /\ ~flash.clk /\ flash.sel THEN 1 ELSE flash.shift.count
  <2>1. a = flash.clk \/ flash.sel = ~b
    BY <1>5, <1>6
  <2>2. a /\ ~flash.clk /\ flash.sel => flash.shift.count = 0
    BY <1>1, <1>5, <1>6
  <2> DEFINE x == FlashSees(flash, a, b, Glue)
  <2>3. /\ x \in Flashes /\ FlashQuiet(x) /\ x.sel = ~b /\ x.clk = a
        /\ x.image = flash.image /\ (x.wel <=> flash.wel)
        /\ x.shift.count = IF flash.sel # ~b THEN 0
                           ELSE IF a /\ ~flash.clk /\ flash.sel THEN 1 ELSE flash.shift.count
    BY <1>1, <2>1, <2>2, QuietFlash
  <2>4. flash' = x
    BY <1>7
  <2> HIDE DEF x
  <2> QED BY <2>3, <2>4
<1>9. /\ card' \in Cards /\ CardQuiet(card') /\ card'.sel = ~a /\ card'.clk = b
      /\ card'.driven = card.driven /\ card'.card.spi = card.card.spi
      /\ card'.card.blocks = card.card.blocks
      /\ card'.count = IF card.sel # ~a THEN 0
                       ELSE IF b /\ ~card.clk /\ card.sel THEN 1 ELSE card.count
      /\ ~a /\ card.sel # ~a => card'.dout = IF card.driven THEN <<FF, 0>> ELSE Released
  <2>1. b = card.clk \/ card.sel = ~a
    BY <1>5, <1>6
  <2>2. b /\ ~card.clk /\ card.sel => card.count = 0
    BY <1>1, <1>5, <1>6
  <2> DEFINE x == CardSees(card, b, a, Glue)
  <2>3. /\ x \in Cards /\ CardQuiet(x) /\ x.sel = ~a /\ x.clk = b
        /\ x.driven = card.driven /\ x.card.spi = card.card.spi
        /\ x.card.blocks = card.card.blocks
        /\ x.count = IF card.sel # ~a THEN 0
                     ELSE IF b /\ ~card.clk /\ card.sel THEN 1 ELSE card.count
        /\ ~a /\ card.sel # ~a => x.dout = IF card.driven THEN <<FF, 0>> ELSE Released
    BY <1>1, <2>1, <2>2, QuietCard
  <2>4. card' = x
    BY <1>7
  <2> HIDE DEF x
  <2> QED BY <2>3, <2>4
<1>10. FlashQuiet(flash)' /\ CardQuiet(card)'
  BY <1>8, <1>9 DEF FlashQuiet, CardQuiet, CardIdle
<1>11. Wires'
  BY <1>2, <1>3, <1>4, <1>5, <1>8, <1>9 DEF Wires
<1>12. HoldsWhatWasWritten'
  BY <1>2, <1>8, <1>9 DEF HoldsWhatWasWritten
<1>13. flash'.phase = "Command"
  BY <1>8 DEF FlashQuiet
<1>14. flash'.shift.count = IF p61' # p61 THEN 0
                            ELSE IF p60' /\ ~p60 /\ ~p61 THEN 1 ELSE flash.shift.count
  BY <1>1, <1>3, <1>4, <1>5, <1>8
<1>15. /\ card'.count = IF p60' # p60 THEN 0
                        ELSE IF p61' /\ ~p61 /\ ~p60 THEN 1 ELSE card.count
       /\ ~p60' /\ p60 => card'.dout = IF greeted THEN <<FF, 0>> ELSE Released
  BY <1>1, <1>3, <1>4, <1>5, <1>9
<1> QED BY <1>2, <1>3, <1>4, <1>8, <1>9, <1>10, <1>11, <1>12, <1>13, <1>14, <1>15

(* The types of the next state, from what each move makes of its parts.     *)
LEMMA TypesNext ==
  ASSUME p60' \in BOOLEAN, p61' \in BOOLEAN, greeted' \in BOOLEAN, flash' \in Flashes,
         card' \in Cards, HoldsWhatWasWritten', op' \in Ops \cup {NoOp},
         armed' \in {"no", "yes", "using"}, pos' \in Positions, bits' \in Seq(Levels),
         Len(bits') < W, got' \in [n : Nat, byte : Codes]
  PROVE  TypeOK'
<1>1. flash'.image \in Arrays
  BY DEF Flashes
<1>2. card'.card \in Protocols
  BY DEF Cards
<1>3. card'.card.blocks \in Disks
  BY <1>2 DEF Protocols
<1>4. cells' \in Arrays /\ disk' \in Disks
  BY <1>1, <1>3 DEF HoldsWhatWasWritten
<1> QED BY <1>4 DEF TypeOK, Positions

(* Places of a transaction are positions.                                   *)
LEMMA Placed ==
  ASSUME NEW b \in Nat, NEW i \in 0..W - 1, NEW h \in 1..3
  PROVE  At(b, i, h) \in Positions /\ At(b, i, h).byte = b /\ At(b, i, h).bit = i
         /\ At(b, i, h).half = h
  BY DEF At, Positions

(* Where the master goes from a place.                                      *)
LEMMA Goes ==
  ASSUME PinMove
  PROVE  /\ op # NoOp
         /\ Ends(op, pos) => op' = NoOp /\ pos' = At(0, 0, 1)
         /\ ~Ends(op, pos) => op' = op /\ pos' = Then(op, pos)
  BY DEF PinMove

(* The flash asked for: the moves before its first bit.                     *)
LEMMA FlashOpening ==
  ASSUME BusInv, PinMove, NEW o \in Ops, o = op, o.dev = "flash", pos.byte = 0
  PROVE  BusInv'
<1>1. TypeOK /\ Wires /\ Introduced /\ EnableOK /\ HoldsWhatWasWritten /\ o # NoOp
  BY Devices DEF BusInv
<1>2. /\ p60 \in BOOLEAN /\ p61 \in BOOLEAN /\ greeted \in BOOLEAN
      /\ flash \in Flashes /\ card \in Cards /\ pos \in Positions
      /\ armed \in {"no", "yes", "using"} /\ bits \in Seq(Levels) /\ Len(bits) < W
      /\ got \in [n : Nat, byte : Codes]
  BY <1>1, BusTypes
<1>3. FlashOpens
  BY <1>1 DEF BusInv, Talking
<1>4. /\ pos.half \in 1..2 /\ p61 /\ (pos.half = 2 => ~p60)
      /\ FlashQuiet(flash) /\ flash.shift.count = 0
      /\ CardQuiet(card) /\ (p60 => card.count = 0) /\ got.n = 0 /\ bits = <<>> /\ armed # "using"
  BY <1>3 DEF FlashOpens
<1>5. /\ MovesAt(o, pos)[1] = Plain(60, FALSE) /\ MovesAt(o, pos)[2] = Plain(61, FALSE)
      /\ ~Ends(o, pos) /\ (pos.half = 1 => Then(o, pos) = At(0, pos.bit, 2))
      /\ pos.half = 2 => Then(o, pos) = At(1, 0, 1)
  BY <1>2, FlashPlaces
<1>6. op' = o /\ pos' = Then(o, pos)
  BY <1>5, Goes
<1> DEFINE pin == IF pos.half = 1 THEN 60 ELSE 61
<1>7. pin \in {60, 61} /\ FALSE \in BOOLEAN /\ MovesAt(op, pos)[pos.half] = Plain(pin, FALSE)
  <2>1. CASE pos.half = 1
    BY <1>5, <2>1
  <2>2. CASE pos.half = 2
    BY ZenonT(40), <1>5, <2>2
  <2>3. pos.half = 1 \/ pos.half = 2
    BY <1>4
  <2> QED BY <2>1, <2>2, <2>3
<1> HIDE DEF pin
<1>8. /\ p60' = (IF pin = 60 THEN FALSE ELSE p60) /\ p61' = (IF pin = 61 THEN FALSE ELSE p61)
      /\ p60' \in BOOLEAN /\ p61' \in BOOLEAN /\ flash' \in Flashes /\ card' \in Cards
      /\ FlashQuiet(flash)' /\ (flash'.wel <=> flash.wel) /\ flash'.phase = "Command"
      /\ flash'.shift.count = IF p61' # p61 THEN 0
                              ELSE IF p60' /\ ~p60 /\ ~p61 THEN 1 ELSE flash.shift.count
      /\ CardQuiet(card)'
      /\ card'.count = IF p60' # p60 THEN 0
                       ELSE IF p61' /\ ~p61 /\ ~p60 THEN 1 ELSE card.count
      /\ Wires' /\ HoldsWhatWasWritten' /\ UNCHANGED <<bits, got, cells, disk, greeted>>
      /\ armed' = IF Ends(op, pos) /\ armed = "using" THEN "no" ELSE armed
  BY ZenonT(40), <1>1, <1>4, <1>7, QuietMove
<1>9. armed' = armed
  BY <1>5, <1>8
<1>10. flash'.shift.count = 0
  BY <1>4, <1>8
<1>11. pos' \in Positions /\ TypeOK'
  <2>1. pos' \in Positions
    <3>1. 0 \in 0..W - 1 /\ pos.bit \in 0..W - 1
      BY <1>2, Widths DEF Positions
    <3>2. At(0, pos.bit, 2) \in Positions /\ At(1, 0, 1) \in Positions
      BY <3>1, Placed
    <3> QED BY <1>4, <1>5, <1>6, <3>2
  <2> QED BY <1>2, <1>6, <1>8, <1>9, <2>1, TypesNext
<1>12. Introduced'
  BY <1>1, <1>6, <1>8 DEF Introduced
<1>13. EnableOK'
  <2>1. flash.wel \in BOOLEAN /\ flash'.wel \in BOOLEAN
    BY <1>2, <1>8 DEF Flashes
  <2>2. flash'.phase \notin Writing
    BY <1>8 DEF Writing
  <2> QED BY <1>1, <1>4, <1>8, <1>9, <2>1, <2>2 DEF EnableOK
<1>14. AnswersInPlace'
  BY <1>2, <1>4, <1>8 DEF AnswersInPlace
<1>15. Talking'
  <2>1. CASE pos.half = 1
    <3>1. pos'.byte = 0 /\ pos'.half = 2 /\ p60' = FALSE /\ p61' = p61
      BY <1>5, <1>6, <1>8, <2>1 DEF At, pin
    <3>2. FlashOpens'
      BY <1>4, <1>8, <1>9, <1>10, <3>1 DEF FlashOpens
    <3> QED BY <1>1, <1>6, <3>1, <3>2, Devices DEF Talking
  <2>2. CASE pos.half = 2
    <3>1. pos' = At(1, 0, 1) /\ pos'.byte = 1 /\ pos'.bit = 0 /\ pos'.half = 1
          /\ p60' = FALSE /\ p61' = FALSE
      BY <1>4, <1>5, <1>6, <1>8, <2>2 DEF At, pin
    <3>2. /\ flash'.phase = "Command" /\ flash'.have = 0 /\ ~flash'.loaded
          /\ flash'.shift.shown = 0
      BY <1>8, <1>10 DEF FlashQuiet
    <3>3. FlashAfter(o, 0, flash)'
      <4>1. FlashPhase(o, 0) = "Command" /\ ~Outputs("Command")
        BY Widths DEF FlashPhase, Outputs
      <4>2. FlashSpot(o, 0, flash', 1)
        BY <3>2, <4>1, Widths DEF FlashSpot
      <4>3. FlashGrant(o, 0, flash', armed')
        BY <1>4, <1>9 DEF FlashGrant
      <4>4. flash'.loaded <=> Outputs(flash'.phase)
        <5>1. flash'.loaded \in BOOLEAN
          BY <1>8 DEF Flashes
        <5> QED BY <3>2, <5>1 DEF Outputs
      <4> QED BY <4>2, <4>3, <4>4 DEF FlashAfter
    <3>4. bits' = [j \in 1..0 |-> <<Answer(o, 1)', j - 1>>] /\ got'.n = 0
      BY <1>4, <1>8
    <3>5. ~p61' /\ ~p60' /\ CardQuiet(card)' /\ ~flash'.loaded
          /\ flash'.shift.count = Folded(0) /\ flash'.shift.shown = Folded(0)
      BY <1>8, <1>10, <3>1, <3>2, Widths DEF Folded
    <3>6. FlashInBytes(o, 1, 0, 1)'
      BY <3>3, <3>4, <3>5, Widths DEF FlashInBytes
    <3>7. pos'.byte \in 1..Len(o.bytes) /\ pos'.half \in 1..2
      BY <3>1, Devices
    <3> QED BY <1>1, <1>6, <3>1, <3>6, <3>7, Devices DEF Talking
  <2> QED BY <1>4, <2>1, <2>2
<1> QED BY <1>8, <1>11, <1>12, <1>13, <1>14, <1>15 DEF BusInv

(* A move that reads the bit the flash has shown.                           *)
LEMMA ReadMove ==
  ASSUME PinMove, NEW pin, NEW high,
         MovesAt(op, pos)[pos.half] = Move(pin, high, Glue, "after"), ~Ends(op, pos)
  PROVE  LET m == MovesAt(op, pos)[pos.half] IN
         /\ m.reads = "after" /\ Reads(m, flash', card')
         /\ p60' = (IF pin = 60 THEN high ELSE p60) /\ p61' = (IF pin = 61 THEN high ELSE p61)
         /\ flash' = FlashSees(flash, p60', p61', Glue)
         /\ card' = CardSees(card, p61', p60', Glue)
         /\ UNCHANGED <<armed, cells, disk, greeted>>
<1> DEFINE m == MovesAt(op, pos)[pos.half]
<1>1. m = Move(pin, high, Glue, "after")
  OBVIOUS
<1>2. /\ p60' = IF m.pin = 60 THEN m.high ELSE p60
      /\ p61' = IF m.pin = 61 THEN m.high ELSE p61
      /\ flash' = FlashSees(flash, p60', p61', m.di)
      /\ card' = CardSees(card, p61', p60', m.di)
      /\ Reads(m, flash', card')
      /\ IF LastBit(m) THEN Believe(op, pos.byte)
         ELSE /\ armed' = IF Ends(op, pos) /\ armed = "using" THEN "no" ELSE armed
              /\ UNCHANGED <<cells, disk, greeted>>
  BY DEF PinMove
<1> HIDE DEF m
<1>3. m.pin = pin /\ m.high = high /\ m.di = Glue /\ m.reads = "after"
  BY <1>1 DEF Move
<1>4. ~LastBit(m)
  BY <1>3, Widths DEF LastBit, Glue
<1> QED BY <1>2, <1>3, <1>4 DEF m

(* Nothing that is said to the flash tells the master of the card.          *)
LEMMA FlashLeavesCard ==
  ASSUME NEW o \in Ops, o.dev = "flash", NEW k \in 1..Len(o.bytes), Believe(o, k),
         greeted \in BOOLEAN
  PROVE  disk' = disk /\ greeted' = greeted
<1>1. o.due[k] = FlashDue(o, k) /\ o.kind \in {"Enable", "Disable", "Status", "Jedec", "Read", "Program", "Erase"}
  BY FlashSpoken, FlashKinds
<1>2. o.due[k].stage \notin {"seal", "frame"}
  BY <1>1 DEF FlashDue, Rest, Label
<1>3. greeted \in BOOLEAN => greeted' = greeted
  BY <1>2 DEF Believe, Due
<1>4. disk' = disk
  BY <1>2 DEF Believe, Due
<1>5. greeted' = (greeted \/ (o.due[k].stage = "frame" /\ o.due[k].cmd = "CMD0" /\ o.due[k].at = FrameBytes))
  BY DEF Believe, Due
<1> QED BY <1>2, <1>4, <1>5

(* What the flash says is what is promised, now and after the next step.    *)
FlashAnswers ==
  \A o \in Ops : o.dev = "flash" => \A k \in Nat : k < Len(o.bytes) => \A f \in Flashes :
    f.image = cells /\ (o.kind = "Status" => (armed = "no" <=> ~f.wel))
      => /\ Outputs(FlashPhase(o, k)) => Answer(o, k + 1) = Spoke(o, k, f)
         /\ ~Outputs(FlashPhase(o, k)) => Answer(o, k + 1) = FF

(* Said of this state ...                                                   *)
LEMMA FlashAnswered == FlashAnswers
  BY AnswerOfFlash DEF FlashAnswers

(* ... and of the next.                                                     *)
LEMMA FlashAnsweredNext == FlashAnswers'
  BY FlashAnswered, PTL

(* The facts with which every step of a transaction begins.                 *)
LEMMA Begins ==
  ASSUME BusInv
  PROVE  /\ TypeOK /\ Wires /\ Introduced /\ EnableOK /\ HoldsWhatWasWritten /\ AnswersInPlace
         /\ p60 \in BOOLEAN /\ p61 \in BOOLEAN /\ greeted \in BOOLEAN
         /\ flash \in Flashes /\ card \in Cards /\ cells \in Arrays /\ disk \in Disks
         /\ armed \in {"no", "yes", "using"} /\ pos \in Positions
         /\ bits \in Seq(Levels) /\ Len(bits) < W /\ got \in [n : Nat, byte : Codes]
         /\ flash.clk = p60 /\ flash.sel = ~p61 /\ card.clk = p61 /\ card.sel = ~p60
         /\ card.driven = greeted /\ card.card.spi = greeted
         /\ flash.image = cells /\ card.card.blocks = disk /\ card.card \in Protocols
         /\ flash.wel \in BOOLEAN /\ flash.loaded \in BOOLEAN /\ flash.driving \in BOOLEAN
<1>1. TypeOK /\ Wires /\ Introduced /\ EnableOK /\ HoldsWhatWasWritten /\ AnswersInPlace
  BY DEF BusInv
<1>2. /\ flash.clk = p60 /\ flash.sel = ~p61 /\ card.clk = p61 /\ card.sel = ~p60
      /\ card.driven = greeted /\ card.card.spi = greeted
      /\ flash.image = cells /\ card.card.blocks = disk
  BY <1>1 DEF Wires, HoldsWhatWasWritten
<1>3. /\ p60 \in BOOLEAN /\ p61 \in BOOLEAN /\ greeted \in BOOLEAN
      /\ flash \in Flashes /\ card \in Cards /\ cells \in Arrays /\ disk \in Disks
      /\ armed \in {"no", "yes", "using"} /\ pos \in Positions
      /\ bits \in Seq(Levels) /\ Len(bits) < W /\ got \in [n : Nat, byte : Codes]
  BY <1>1, BusTypes
<1>4. card.card \in Protocols
  BY <1>3 DEF Cards
<1>5. flash.wel \in BOOLEAN /\ flash.loaded \in BOOLEAN /\ flash.driving \in BOOLEAN
  BY <1>3 DEF Flashes
<1> QED BY <1>1, <1>2, <1>3, <1>4, <1>5

(* The enable as the two ways of saying it have it.                         *)
LEMMA Held ==
  ASSUME NEW o \in Ops, o = op, o.dev = "flash"
  PROVE  EnableOK <=> HeldOK(armed, flash, o)
<1>1. op # NoOp
  BY Devices
<1> QED BY <1>1 DEF EnableOK, HeldOK

(* A bit that the master sends to the flash, but not the last of its byte.  *)
LEMMA FlashTakesBit ==
  ASSUME NEW o, NEW k, NEW f \in Flashes, f.shift.count + 1 # W, f.sel, ~f.clk,
         f.shift.shown = f.shift.count, f.shift.count # 0 => f.shift.whole, FlashAfter(o, k, f),
         NEW di, di.at = f.shift.count
  PROVE  LET g == FlashClock(f, TRUE, di) IN
         /\ g \in Flashes /\ g.sel /\ g.clk /\ (g.driving <=> f.loaded) /\ (g.loaded <=> f.loaded)
         /\ g.shift.count = f.shift.count + 1 /\ g.shift.shown = f.shift.count + 1 /\ g.shift.whole
         /\ g.shift.out = f.shift.out /\ g.shift.dout = <<f.shift.out, f.shift.count>>
         /\ g.phase = f.phase /\ (g.wel <=> f.wel) /\ g.image = f.image
         /\ FlashAfter(o, k, g)
<1> DEFINE g == FlashClock(f, TRUE, di)
           s == Rise(f.shift, di)
<1>1. g = [f EXCEPT !.clk = TRUE, !.shift = s, !.driving = f.loaded]
  BY FlashBit
<1>2. f.shift \in Shifters
  BY DEF Flashes
<1>3. /\ s \in Shifters /\ s.shown = s.count /\ s.out = f.shift.out
      /\ s.dout = <<f.shift.out, f.shift.count>>
      /\ s.count = (IF f.shift.count + 1 = W THEN 0 ELSE f.shift.count + 1)
      /\ s.whole <=> ((f.shift.whole \/ f.shift.count = 0) /\ di.at = f.shift.count)
  BY <1>2, Risen
<1> HIDE DEF g, s
<1>4. s.count = f.shift.count + 1 /\ s.shown = f.shift.count + 1 /\ s.whole
  BY <1>3
<1>5. g \in Flashes /\ g.sel /\ g.clk /\ g.driving = f.loaded /\ g.loaded = f.loaded /\ g.shift = s
  BY <1>1, <1>3 DEF Flashes
<1>6. g.phase = f.phase /\ g.wel = f.wel /\ g.image = f.image /\ g.have = f.have /\ g.at = f.at
  BY <1>1 DEF Flashes
<1>7. FlashAfter(o, k, g)
  <2>1. FlashSpot(o, k, g, 1)
    BY <1>6 DEF FlashAfter, FlashSpot
  <2>2. FlashGrant(o, k, g, armed)
    BY <1>6 DEF FlashAfter, FlashGrant
  <2> QED BY <1>5, <1>6, <2>1, <2>2 DEF FlashAfter
<1> QED BY <1>3, <1>4, <1>5, <1>6, <1>7 DEF g

(* What a clock edge for the flash does to the card: it moves its select.   *)
LEMMA CardAside ==
  ASSUME BusInv, CardQuiet(card), ~p61, NEW high \in BOOLEAN, NEW di,
         card' = CardSees(card, p61, high, di), greeted' = greeted, disk' = disk
  PROVE  /\ card' \in Cards /\ CardQuiet(card)' /\ card'.sel = ~high /\ card'.clk = FALSE
         /\ card'.driven = greeted /\ card'.card.spi = greeted /\ card'.card.blocks = disk
         /\ card'.dout \in {Released, <<FF, 0>>, <<FF, 1>>}
         /\ high # p60 \/ card.count = 0 => card'.count = 0
<1>1. /\ p60 \in BOOLEAN /\ p61 \in BOOLEAN /\ card \in Cards /\ card.clk = p61 /\ card.sel = ~p60
      /\ card.driven = greeted /\ card.card.spi = greeted /\ card.card.blocks = disk
  BY Begins
<1>2. p61 = FALSE
  BY <1>1
<1>3. /\ card' \in Cards /\ CardQuiet(card') /\ card'.sel = ~high /\ card'.clk = p61
      /\ card'.driven = card.driven /\ card'.card.spi = card.card.spi
      /\ card'.card.blocks = card.card.blocks
      /\ card'.count = IF card.sel # ~high THEN 0
                       ELSE IF p61 /\ ~card.clk /\ card.sel THEN 1 ELSE card.count
  BY <1>1, QuietCard
<1>4. CardQuiet(card)' /\ card'.dout \in {Released, <<FF, 0>>, <<FF, 1>>}
  BY <1>3 DEF CardQuiet, CardIdle
<1>5. high # p60 \/ card.count = 0 => card'.count = 0
  BY <1>1, <1>3
<1> QED BY <1>1, <1>2, <1>3, <1>4, <1>5

(* The moves amid a byte, and where the flash transaction stands.           *)
LEMMA FlashStands ==
  ASSUME BusInv, NEW o \in Ops, o = op, o.dev = "flash", NEW b \in 1..Len(o.bytes),
         NEW i \in 0..W - 1, NEW h \in 1..2, pos = At(b, i, h)
  PROVE  /\ FlashInBytes(o, b, i, h) /\ HeldOK(armed, flash, o)
         /\ b \in Nat /\ b - 1 \in Nat /\ b - 1 < Len(o.bytes) /\ (b - 1) + 1 = b
         /\ i \in Nat /\ i < W /\ Len(o.bytes) \in Nat /\ o # NoOp
<1>1. op # NoOp /\ Len(o.bytes) \in Nat /\ pos.byte = b /\ pos.bit = i /\ pos.half = h
  BY Devices DEF At
<1>2. FlashInBytes(o, b, i, h)
  BY <1>1 DEF BusInv, Talking
<1>3. HeldOK(armed, flash, o)
  BY Held DEF BusInv
<1> QED BY <1>1, <1>2, <1>3, Widths

(* A bit of a byte, sent.                                                   *)
LEMMA FlashSends ==
  ASSUME BusInv, PinMove, NEW o \in Ops, o = op, o.dev = "flash", NEW b \in 1..Len(o.bytes),
         NEW i \in 0..W - 1, pos = At(b, i, 1)
  PROVE  BusInv'
<1>1. /\ TypeOK /\ Wires /\ Introduced /\ AnswersInPlace
      /\ p60 \in BOOLEAN /\ p61 \in BOOLEAN /\ greeted \in BOOLEAN
      /\ flash \in Flashes /\ card \in Cards /\ cells \in Arrays /\ disk \in Disks
      /\ armed \in {"no", "yes", "using"} /\ pos \in Positions
      /\ bits \in Seq(Levels) /\ Len(bits) < W /\ got \in [n : Nat, byte : Codes]
      /\ flash.clk = p60 /\ flash.sel = ~p61 /\ flash.image = cells
      /\ flash.wel \in BOOLEAN /\ flash.loaded \in BOOLEAN
  BY Begins
<1>2. /\ FlashInBytes(o, b, i, 1) /\ HeldOK(armed, flash, o)
      /\ b \in Nat /\ b - 1 \in Nat /\ b - 1 < Len(o.bytes) /\ (b - 1) + 1 = b
      /\ i \in Nat /\ i < W /\ i # W /\ Len(o.bytes) \in Nat /\ o # NoOp
  BY FlashStands
<1> DEFINE k == b - 1
<1>3. /\ ~p61 /\ ~p60 /\ CardQuiet(card)
      /\ flash.shift.count = i /\ flash.shift.shown = i /\ (i # 0 => flash.shift.whole)
      /\ FlashAfter(o, k, flash)
      /\ flash.loaded => flash.shift.out = Answer(o, b)
      /\ bits = [j \in 1..i |-> <<Answer(o, b), j - 1>>] /\ got.n = k
  BY <1>2 DEF FlashInBytes, Folded
<1> HIDE DEF k
<1>4. pos.byte = b /\ pos.bit = i /\ pos.half = 1
  BY DEF At
<1>5. /\ MovesAt(o, pos)[1] = Move(60, TRUE, [byte |-> o.bytes[b], at |-> i], "no")
      /\ ~Ends(o, pos) /\ Then(o, pos) = At(b, i, 2)
  <2>1. b \in DOMAIN o.bytes
    BY Devices
  <2>2. /\ MovesAt(o, pos)[1] = Move(60, TRUE, [byte |-> o.bytes[pos.byte], at |-> pos.bit], "no")
        /\ ~Ends(o, pos) /\ Then(o, pos) = At(pos.byte, pos.bit, 2)
    BY ZenonT(40), <1>1, <1>4, <2>1, FlashPlaces
  <2> QED BY <1>4, <2>2
<1>6. op' = o /\ pos' = At(b, i, 2)
  BY <1>5, Goes
<1> DEFINE m == MovesAt(op, pos)[pos.half]
<1>7. PICK di : di = [byte |-> o.bytes[b], at |-> i]
  OBVIOUS
<1>8. /\ di.byte = o.bytes[b] /\ di.at = i /\ m.reads = "no" /\ Reads(m, flash', card')
      /\ p60' = TRUE /\ p61' = p61
      /\ flash' = FlashSees(flash, p60', p61', di) /\ card' = CardSees(card, p61', p60', di)
      /\ i = W - 1 => Believe(o, b)
      /\ i # W - 1 => UNCHANGED <<armed, cells, disk, greeted>>
  <2>1. PICK up \in BOOLEAN : up = TRUE
    OBVIOUS
  <2>2. MovesAt(op, pos)[pos.half] = Move(60, up, di, "no") /\ ~Ends(op, pos) /\ di.at = pos.bit
    BY <1>4, <1>5, <1>7, <2>1
  <2>3. /\ m.reads = "no" /\ Reads(m, flash', card')
        /\ p60' = up /\ p61' = p61
        /\ flash' = FlashSees(flash, p60', p61', di)
        /\ card' = CardSees(card, p61', p60', di)
        /\ pos.bit = W - 1 => Believe(op, pos.byte)
        /\ pos.bit # W - 1 => UNCHANGED <<armed, cells, disk, greeted>>
    BY <2>2, BitMove
  <2> HIDE DEF m
  <2> QED BY <1>4, <1>7, <2>1, <2>3
<1> HIDE DEF m
<1>9. bits' = bits /\ got' = got
  BY <1>8 DEF Reads
<1>10. flash' = FlashClock(flash, TRUE, di) /\ card' = CardSees(card, p61, TRUE, di)
       /\ di.byte = o.bytes[b] /\ di.at = i
  <2>1. flash.sel = ~p61' /\ p61' \in BOOLEAN
    BY <1>1, <1>8
  <2>2. FlashSelect(flash, ~p61') = flash
    BY <2>1, FlashSelectStays
  <2> QED BY <1>8, <2>2 DEF FlashSees
<1>11. flash.sel /\ ~flash.clk
  BY <1>1, <1>3
<1>12. greeted' = greeted /\ disk' = disk
  BY <1>1, <1>2, <1>8, FlashLeavesCard
<1>13. /\ card' \in Cards /\ CardQuiet(card)' /\ card'.sel = ~TRUE /\ card'.clk = FALSE
       /\ card'.driven = greeted /\ card'.card.spi = greeted /\ card'.card.blocks = disk
       /\ TRUE # p60 \/ card.count = 0 => card'.count = 0
  BY <1>3, <1>10, <1>12, CardAside
<1>14. card'.count = 0
  BY <1>3, <1>13
<1>15. p60' = TRUE /\ p61' = FALSE
  BY <1>1, <1>3, <1>8
<1>16. pos' \in Positions /\ pos'.byte = b /\ pos'.bit = i /\ pos'.half = 2
  BY <1>2, <1>6, Placed
<1>17. ASSUME flash' \in Flashes, flash'.sel, flash'.clk, HeldOK(armed', flash', o),
              armed' \in {"no", "yes", "using"}, flash'.image = cells',
              k > 0 => Answer(o, k)' = Answer(o, k),
              FlashInBytes(o, b, i, 2)'
       PROVE  BusInv'
  <2>1. HoldsWhatWasWritten'
    BY <1>12, <1>13, <1>17 DEF HoldsWhatWasWritten
  <2>2. TypeOK'
    BY <1>1, <1>6, <1>9, <1>12, <1>13, <1>15, <1>16, <1>17, <2>1, TypesNext
  <2>3. flash'.sel \in BOOLEAN /\ flash'.clk \in BOOLEAN
    BY <1>17 DEF Flashes
  <2>4. Wires'
    BY <1>12, <1>13, <1>15, <1>17, <2>3 DEF Wires
  <2>5. Introduced'
    BY <1>6 DEF Introduced
  <2>6. EnableOK'
    BY <1>2, <1>6, <1>17 DEF EnableOK, HeldOK
  <2>7. AnswersInPlace'
    BY <1>1, <1>2, <1>3, <1>6, <1>9, <1>17 DEF AnswersInPlace
  <2>8. Talking'
    BY <1>2, <1>6, <1>16, <1>17, Devices DEF Talking
  <2> QED BY <2>1, <2>2, <2>4, <2>5, <2>6, <2>7, <2>8 DEF BusInv
<1>18. ~flash.loaded => Answer(o, b) = FF
  <2>1. ~Outputs(FlashPhase(o, k))
        \/ flash.loaded
    BY <1>3 DEF FlashAfter, FlashSpot
  <2>2. o.kind = "Status" => (armed = "no" <=> ~flash.wel)
    BY <1>1, <1>2 DEF HeldOK
  <2>3. k \in Nat /\ k < Len(o.bytes) /\ k + 1 = b
    BY <1>2 DEF k
  <2>4. ~Outputs(FlashPhase(o, k)) => Answer(o, k + 1) = FF
    BY <1>1, <2>2, <2>3, AnswerOfFlash
  <2> QED BY <2>1, <2>3, <2>4
<1>19. CASE i + 1 # W
  <2>1. /\ flash' \in Flashes /\ flash'.sel /\ flash'.clk
        /\ (flash'.driving <=> flash.loaded) /\ (flash'.loaded <=> flash.loaded)
        /\ flash'.shift.count = i + 1 /\ flash'.shift.shown = i + 1 /\ flash'.shift.whole
        /\ flash'.shift.out = flash.shift.out /\ flash'.shift.dout = <<flash.shift.out, i>>
        /\ flash'.phase = flash.phase /\ (flash'.wel <=> flash.wel) /\ flash'.image = flash.image
        /\ FlashAfter(o, k, flash')
    <3> DEFINE g == FlashClock(flash, TRUE, di)
    <3>1. flash.shift.count + 1 # W /\ di.at = flash.shift.count /\ i = flash.shift.count
          /\ flash.shift.shown = flash.shift.count /\ (flash.shift.count # 0 => flash.shift.whole)
          /\ flash \in Flashes /\ FlashAfter(o, k, flash)
      BY <1>1, <1>3, <1>10, <1>19
    <3>2. g \in Flashes /\ g.sel /\ g.clk /\ (g.driving <=> flash.loaded)
      BY <1>11, <3>1, FlashTakesBit
    <3>3. g.loaded <=> flash.loaded
      BY <1>11, <3>1, FlashTakesBit
    <3>4. /\ g.shift.count = flash.shift.count + 1 /\ g.shift.shown = flash.shift.count + 1
          /\ g.shift.whole /\ g.shift.out = flash.shift.out
      BY ZenonT(40), <1>11, <3>1, FlashTakesBit
    <3>5. /\ g.shift.dout = <<flash.shift.out, flash.shift.count>>
          /\ g.phase = flash.phase /\ (g.wel <=> flash.wel) /\ g.image = flash.image
          /\ FlashAfter(o, k, g)
      BY ZenonT(40), <1>11, <3>1, FlashTakesBit
    <3>6. flash' = g
      BY <1>10
    <3> HIDE DEF g
    <3> QED BY <3>1, <3>2, <3>3, <3>4, <3>5, <3>6
  <2>2. UNCHANGED <<armed, cells, disk, greeted>>
    BY <1>2, <1>8, <1>19, Widths
  <2>3. HeldOK(armed', flash', o)
    BY <1>2, <2>1, <2>2 DEF HeldOK
  <2>4. \A j : Answer(o, j)' = Answer(o, j)
    BY <2>2 DEF Answer, Due
  <2>5. FlashAfter(o, k, flash)'
    BY <2>1, <2>2 DEF FlashAfter, FlashGrant, FlashSpot
  <2>6. Folded(i + 1) = i + 1 /\ i + 1 # W /\ (b - 1) + 1 = b
    BY <1>2, <1>19 DEF Folded
  <2>7. flash'.loaded => flash'.shift.out = Answer(o, b)'
    BY <1>3, <2>1, <2>4
  <2>8. IF flash'.driving THEN flash'.shift.dout = <<Answer(o, b)', i>> ELSE Answer(o, b)' = FF
    BY <1>1, <1>3, <1>18, <2>1, <2>4
  <2>9. bits' = [j \in 1..i |-> <<Answer(o, b)', j - 1>>] /\ got'.n = b - 1
    BY <1>3, <1>9, <2>4 DEF k
  <2>10. FlashInBytes(o, b, i, 2)'
    BY <1>13, <1>14, <1>15, <2>1, <2>5, <2>6, <2>7, <2>8, <2>9 DEF FlashInBytes, k
  <2> QED BY <1>17, <1>1, <2>1, <2>2, <2>3, <2>4, <2>10
<1>20. CASE i + 1 = W
  <2>1. i = W - 1 /\ Believe(o, b) /\ k \in Nat /\ k < Len(o.bytes) /\ k + 1 = b
    BY <1>2, <1>8, <1>20, Widths DEF k
  <2>2. flash.shift.whole
    BY <1>3, <1>20, <2>1, Widths
  <2>3. FlashSpot(o, k, flash, 1) /\ FlashGrant(o, k, flash, armed)
    BY <1>3 DEF FlashAfter
  <2>4. /\ flash' \in Flashes /\ flash'.sel /\ flash'.clk /\ (flash'.driving <=> flash.loaded)
        /\ flash'.shift.count = 0 /\ flash'.shift.shown = 0 /\ flash'.shift.whole
        /\ flash'.shift.dout = <<flash.shift.out, W - 1>>
        /\ FlashSpot(o, k + 1, flash', 1) /\ (flash'.loaded <=> Outputs(flash'.phase))
        /\ flash'.wel <=> Granted(o, k, flash.wel)
        /\ flash'.image = Stored(o, k, flash)
        /\ flash'.loaded => flash'.shift.out = Spoke(o, k + 1, flash')
    <3>1. di.byte = o.bytes[k + 1] /\ di.at = W - 1 /\ flash.shift.count + 1 = W
          /\ flash.shift.shown = flash.shift.count
      BY <1>3, <1>10, <1>20, <2>1
    <3> DEFINE g == FlashClock(flash, TRUE, di)
    <3>2. /\ g \in Flashes /\ g.sel /\ g.clk /\ (g.driving <=> flash.loaded)
          /\ g.shift.count = 0 /\ g.shift.shown = 0 /\ g.shift.whole
          /\ g.shift.dout = <<flash.shift.out, W - 1>>
          /\ FlashSpot(o, k + 1, g, 1) /\ (g.loaded <=> Outputs(g.phase))
          /\ g.wel <=> Granted(o, k, flash.wel)
          /\ g.image = Stored(o, k, flash)
          /\ g.loaded => g.shift.out = Spoke(o, k + 1, g)
      BY ZenonT(40), <1>1, <1>11, <2>1, <2>2, <2>3, <3>1, FlashTakesByte
    <3>3. flash' = g
      BY <1>10
    <3> HIDE DEF g
    <3> QED BY <3>2, <3>3
  <2>5. Believe(o, k + 1)
    BY <2>1
  <2>6. cells' = Stored(o, k, flash)
    BY <1>1, <1>2, <2>1, <2>3, <2>5, FlashKept
  <2>7. armed' \in {"no", "yes", "using"} /\ FlashGrant(o, k + 1, flash', armed')
        /\ HeldOK(armed', flash', o)
    <3>1. armed' = CASE o.kind = "Enable" -> "yes"
                     [] o.kind = "Disable" -> "no"
                     [] o.kind \in {"Program", "Erase"} /\ armed = "yes" -> "using"
                     [] OTHER -> armed
      BY <2>5 DEF Believe
    <3>2. flash' \in Flashes /\ FlashSpot(o, k + 1, flash', 1)
          /\ (flash'.wel <=> Granted(o, k, flash.wel))
      BY <2>4
    <3> QED BY <1>1, <1>2, <2>1, <2>3, <3>1, <3>2, FlashHeld
  <2>8. \A j \in 1..Len(o.bytes) : Answer(o, j)' = Answer(o, j)
    <3>1. armed = "using" => o.kind \in {"Program", "Erase"}
      BY <1>2 DEF HeldOK
    <3> QED BY <1>1, <2>1, <3>1, FlashAnswerStays
  <2>9. Answer(o, b)' = Answer(o, b) /\ (k > 0 => Answer(o, k)' = Answer(o, k))
    BY <1>2, <2>1, <2>8
  <2>10. FlashAfter(o, b, flash)'
    <3>1. FlashSpot(o, b, flash', 1) /\ FlashGrant(o, b, flash', armed')
      BY <2>1, <2>4, <2>7
    <3> QED BY <2>4, <3>1 DEF FlashAfter, FlashGrant, FlashSpot
  <2>11. flash'.loaded /\ b < Len(o.bytes) => flash'.shift.out = Answer(o, b + 1)'
    <3>1. flash'.phase = FlashPhase(o, b)
      BY <2>1, <2>4 DEF FlashSpot
    <3>2. flash'.wel \in BOOLEAN
      BY <2>4 DEF Flashes
    <3>3. o.kind = "Status" => (armed' = "no" <=> ~flash'.wel)
      BY <2>7, <3>2 DEF HeldOK
    <3>4. flash'.image = cells'
      BY <2>4, <2>6
    <3>5. ASSUME b < Len(o.bytes), Outputs(FlashPhase(o, b))
          PROVE  Answer(o, b + 1)' = Spoke(o, b, flash')
      BY <1>2, <2>4, <3>3, <3>4, <3>5, FlashAnsweredNext DEF FlashAnswers
    <3> QED BY <2>1, <2>4, <3>1, <3>5
  <2>12. Folded(W) = 0 /\ i + 1 = W
    BY <1>20 DEF Folded
  <2>13. IF flash'.driving THEN flash'.shift.dout = <<Answer(o, b)', i>> ELSE Answer(o, b)' = FF
    BY <1>1, <1>3, <1>18, <2>1, <2>4, <2>9
  <2>14. bits' = [j \in 1..i |-> <<Answer(o, b)', j - 1>>] /\ got'.n = b - 1
    BY <1>3, <1>9, <2>9 DEF k
  <2>15. FlashInBytes(o, b, i, 2)'
    BY <1>13, <1>14, <1>15, <2>4, <2>10, <2>11, <2>12, <2>13, <2>14 DEF FlashInBytes
  <2> QED BY <1>17, <2>4, <2>6, <2>7, <2>9, <2>15
<1> QED BY <1>19, <1>20

(* A bit of a byte, read back.                                              *)
LEMMA FlashReads ==
  ASSUME BusInv, PinMove, NEW o \in Ops, o = op, o.dev = "flash", NEW b \in 1..Len(o.bytes),
         NEW i \in 0..W - 1, pos = At(b, i, 2)
  PROVE  BusInv'
<1>1. /\ TypeOK /\ Wires /\ Introduced /\ AnswersInPlace
      /\ p60 \in BOOLEAN /\ p61 \in BOOLEAN /\ greeted \in BOOLEAN
      /\ flash \in Flashes /\ card \in Cards /\ cells \in Arrays /\ disk \in Disks
      /\ armed \in {"no", "yes", "using"} /\ pos \in Positions
      /\ bits \in Seq(Levels) /\ Len(bits) < W /\ got \in [n : Nat, byte : Codes]
      /\ flash.clk = p60 /\ flash.sel = ~p61 /\ flash.image = cells
      /\ flash.wel \in BOOLEAN /\ flash.loaded \in BOOLEAN /\ flash.driving \in BOOLEAN
  BY Begins
<1>2. /\ FlashInBytes(o, b, i, 2) /\ HeldOK(armed, flash, o)
      /\ b \in Nat /\ b - 1 \in Nat /\ b - 1 < Len(o.bytes) /\ (b - 1) + 1 = b
      /\ i \in Nat /\ i < W /\ Len(o.bytes) \in Nat /\ o # NoOp
  BY FlashStands
<1> DEFINE k == IF i + 1 = W THEN b ELSE b - 1
<1>3. /\ ~p61 /\ p60 /\ CardQuiet(card) /\ card.count = 0
      /\ flash.shift.count = Folded(i + 1) /\ flash.shift.shown = Folded(i + 1)
      /\ flash.shift.whole /\ FlashAfter(o, k, flash)
      /\ flash.loaded /\ k < Len(o.bytes) => flash.shift.out = Answer(o, k + 1)
      /\ flash.driving => flash.shift.dout = <<Answer(o, b), i>>
      /\ ~flash.driving => Answer(o, b) = FF
      /\ bits = [j \in 1..i |-> <<Answer(o, b), j - 1>>] /\ got.n = b - 1
  <2>1. i + 1 # 0
    BY <1>2
  <2> QED BY <1>2, <2>1 DEF FlashInBytes
<1> HIDE DEF k
<1>4. pos.byte = b /\ pos.bit = i /\ pos.half = 2
  BY DEF At
<1>5. /\ MovesAt(o, pos)[2] = Move(60, FALSE, Glue, "after") /\ ~Ends(o, pos)
      /\ Then(o, pos) = IF i + 1 = W THEN At(b + 1, 0, 1) ELSE At(b, i + 1, 1)
  <2>1. b \in DOMAIN o.bytes
    BY Devices
  <2>2. /\ MovesAt(o, pos)[2] = Move(60, FALSE, Glue, "after") /\ ~Ends(o, pos)
        /\ Then(o, pos) = IF pos.bit + 1 = W THEN At(pos.byte + 1, 0, 1)
                          ELSE At(pos.byte, pos.bit + 1, 1)
    BY ZenonT(40), <1>1, <1>4, <2>1, FlashPlaces
  <2> QED BY <1>4, <2>2
<1>6. op' = o /\ pos' = Then(o, pos)
  BY <1>5, Goes
<1> DEFINE m == MovesAt(op, pos)[pos.half]
<1>7. /\ m.reads = "after" /\ Reads(m, flash', card')
      /\ p60' = FALSE /\ p61' = p61
      /\ flash' = FlashSees(flash, p60', p61', Glue) /\ card' = CardSees(card, p61', p60', Glue)
      /\ UNCHANGED <<armed, cells, disk, greeted>>
  <2>1. PICK low \in BOOLEAN : low = FALSE
    OBVIOUS
  <2>2. MovesAt(op, pos)[pos.half] = Move(60, low, Glue, "after") /\ ~Ends(op, pos)
    BY <1>4, <1>5, <2>1
  <2>3. /\ m.reads = "after" /\ Reads(m, flash', card') /\ p60' = low /\ p61' = p61
        /\ flash' = FlashSees(flash, p60', p61', Glue)
        /\ card' = CardSees(card, p61', p60', Glue)
        /\ UNCHANGED <<armed, cells, disk, greeted>>
    BY <2>2, ReadMove
  <2> HIDE DEF m
  <2> QED BY <2>1, <2>3
<1> HIDE DEF m
<1>8. flash' = [flash EXCEPT !.clk = FALSE]
  <2>1. flash.sel = ~p61' /\ p61' \in BOOLEAN
    BY <1>1, <1>7
  <2>2. FlashSelect(flash, ~p61') = flash
    BY <2>1, FlashSelectStays
  <2>3. flash' = FlashClock(flash, FALSE, Glue)
    BY <1>7, <2>2 DEF FlashSees
  <2>4. FlashClock(flash, FALSE, Glue) = [flash EXCEPT !.clk = FALSE]
    BY <1>1, FlashClockIdles
  <2> QED BY <2>3, <2>4
<1>9. /\ flash' \in Flashes /\ flash'.clk = FALSE /\ flash'.sel = TRUE
      /\ flash'.driving = flash.driving /\ flash'.loaded = flash.loaded
  BY <1>1, <1>3, <1>8 DEF Flashes
<1>10. /\ flash'.phase = flash.phase /\ flash'.wel = flash.wel /\ flash'.image = flash.image
       /\ flash'.have = flash.have /\ flash'.at = flash.at /\ flash'.shift = flash.shift
  BY <1>1, <1>8 DEF Flashes
<1>11. /\ card' \in Cards /\ CardQuiet(card)' /\ card'.sel = TRUE /\ card'.clk = FALSE
       /\ card'.driven = greeted /\ card'.card.spi = greeted /\ card'.card.blocks = disk
       /\ card'.dout \in {Released, <<FF, 0>>, <<FF, 1>>} /\ card'.count = 0
  <2>1. card' = CardSees(card, p61, FALSE, Glue) /\ greeted' = greeted /\ disk' = disk
    BY <1>7
  <2>2. /\ card' \in Cards /\ CardQuiet(card)' /\ card'.sel = ~FALSE /\ card'.clk = FALSE
        /\ card'.driven = greeted /\ card'.card.spi = greeted /\ card'.card.blocks = disk
        /\ card'.dout \in {Released, <<FF, 0>>, <<FF, 1>>}
        /\ FALSE # p60 \/ card.count = 0 => card'.count = 0
    BY <1>3, <2>1, CardAside
  <2> QED BY <1>3, <2>2
<1>12. Answer(o, b) \in Codes
  <2>1. FF \in Codes
    BY DEF Codes, FF
  <2>2. flash.shift.dout \in Codes \X Nat
    BY <1>1 DEF Flashes, Shifters, Levels
  <2> QED BY <1>1, <1>3, <2>1, <2>2
<1>13. Line(flash', card') = <<Answer(o, b), i>>
  <2>1. Len(bits) = i
    BY <1>2, <1>3
  <2>2. CASE flash.driving
    <3>1. flash'.sel /\ flash'.driving /\ flash'.shift.dout = <<Answer(o, b), i>>
      BY <1>3, <1>9, <1>10, <2>2
    <3> QED BY <2>1, <3>1, Lines
  <2>3. CASE ~flash.driving
    BY <1>3, <1>9, <1>11, <2>1, <2>3, Lines
  <2> QED BY <2>2, <2>3
<1>14. /\ bits' = [j \in 1..Folded(i + 1) |-> <<Answer(o, b), j - 1>>]
       /\ bits' \in Seq(Levels) /\ Len(bits') < W /\ got' \in [n : Nat, byte : Codes]
       /\ got' = IF i + 1 = W THEN [n |-> got.n + 1, byte |-> Answer(o, b)] ELSE got
  BY <1>1, <1>3, <1>7, <1>12, <1>13, BitRead
<1>15. p60' = FALSE /\ p61' = FALSE
  BY <1>1, <1>3, <1>7
<1>16. \A j : Answer(o, j)' = Answer(o, j)
  BY <1>7 DEF Answer, Due
<1>17. pos' \in Positions
  <2>1. CASE i + 1 = W
    <3>1. b + 1 \in Nat /\ 0 \in 0..W - 1
      BY <1>2, Widths
    <3> QED BY <1>5, <1>6, <2>1, <3>1, Placed
  <2>2. CASE i + 1 # W
    <3>1. i + 1 \in 0..W - 1
      BY <1>2, <2>2, Widths
    <3> QED BY <1>2, <1>5, <1>6, <2>2, <3>1, Placed
  <2> QED BY <2>1, <2>2
<1>18. HoldsWhatWasWritten'
  BY <1>1, <1>7, <1>10, <1>11 DEF HoldsWhatWasWritten
<1>19. TypeOK'
  BY <1>1, <1>6, <1>7, <1>9, <1>11, <1>14, <1>15, <1>17, <1>18, TypesNext
<1>20. Wires'
  BY <1>7, <1>9, <1>11, <1>15 DEF Wires
<1>21. Introduced'
  BY <1>6 DEF Introduced
<1>22. EnableOK'
  BY <1>2, <1>6, <1>7, <1>10 DEF EnableOK, HeldOK
<1>23. AnswersInPlace'
  <2>1. CASE i + 1 = W
    <3>1. got'.n = b /\ got'.byte = Answer(o, b)
      BY <1>2, <1>3, <1>14, <2>1
    <3> QED BY <1>6, <1>16, <3>1 DEF AnswersInPlace
  <2>2. CASE i + 1 # W
    BY <1>1, <1>2, <1>6, <1>14, <1>16, <2>2 DEF AnswersInPlace
  <2> QED BY <2>1, <2>2
<1>24. FlashAfter(o, k, flash)'
  BY <1>3, <1>7, <1>9, <1>10 DEF FlashAfter, FlashGrant, FlashSpot
<1>25. Talking'
  <2>1. CASE i + 1 # W
    <3>1. k = b - 1 /\ Folded(i + 1) = i + 1
      BY <2>1 DEF k, Folded
    <3>2. pos'.byte = b /\ pos'.bit = i + 1 /\ pos'.half = 1
      BY <1>5, <1>6, <2>1 DEF At
    <3>3. bits' = [j \in 1..i + 1 |-> <<Answer(o, b)', j - 1>>] /\ got'.n = b - 1
      BY <1>3, <1>14, <1>16, <2>1, <3>1
    <3>4. flash'.loaded /\ b - 1 < Len(o.bytes) => flash'.shift.out = Answer(o, (b - 1) + 1)'
      BY <1>3, <1>9, <1>10, <1>16, <3>1
    <3>5. FlashInBytes(o, b, i + 1, 1)'
      BY <1>3, <1>10, <1>11, <1>15, <1>24, <2>1, <3>1, <3>3, <3>4 DEF FlashInBytes
    <3> QED BY <1>2, <1>6, <3>2, <3>5, Devices DEF Talking
  <2>2. CASE i + 1 = W /\ b + 1 <= Len(o.bytes)
    <3>1. k = b /\ Folded(i + 1) = 0 /\ Folded(0) = 0 /\ 0 # W /\ (b + 1) - 1 = b /\ b + 1 # 1
      BY <1>2, <2>2, Widths DEF k, Folded
    <3>2. pos'.byte = b + 1 /\ pos'.bit = 0 /\ pos'.half = 1
      BY <1>5, <1>6, <2>2 DEF At
    <3>3. bits' = [j \in 1..0 |-> <<Answer(o, b + 1)', j - 1>>] /\ got'.n = b
      BY <1>2, <1>3, <1>14, <2>2, <3>1
    <3>4. flash'.loaded /\ b < Len(o.bytes) => flash'.shift.out = Answer(o, b + 1)'
      BY <1>3, <1>9, <1>10, <1>16, <3>1
    <3>5. FlashInBytes(o, b + 1, 0, 1)'
      BY <1>3, <1>10, <1>11, <1>15, <1>24, <3>1, <3>3, <3>4 DEF FlashInBytes
    <3>6. b + 1 \in 1..Len(o.bytes) /\ b + 1 # 0
      BY <1>2, <2>2
    <3> QED BY <1>2, <1>6, <3>2, <3>5, <3>6, Devices DEF Talking
  <2>3. CASE i + 1 = W /\ ~(b + 1 <= Len(o.bytes))
    <3>1. b + 1 = Len(o.bytes) + 1
      BY <1>2, <2>3
    <3>2. pos' = Shut(o) /\ pos'.byte = Len(o.bytes) + 1 /\ pos'.half = 1
      BY <1>5, <1>6, <2>3, <3>1 DEF At, Shut
    <3>3. FlashCloses'
      BY <1>11, <1>15, <3>2 DEF FlashCloses
    <3> QED BY <1>2, <1>6, <3>2, <3>3, Devices DEF Talking
  <2> QED BY <2>1, <2>2, <2>3
<1> QED BY <1>18, <1>19, <1>20, <1>21, <1>22, <1>23, <1>25 DEF BusInv

(* The flash released: it keeps nothing of its transaction but the array.   *)
LEMMA FlashClosing ==
  ASSUME BusInv, PinMove, NEW o \in Ops, o = op, o.dev = "flash", pos.byte \notin 0..Len(o.bytes)
  PROVE  BusInv'
<1>1. /\ TypeOK /\ Wires /\ Introduced /\ EnableOK /\ AnswersInPlace
      /\ p60 \in BOOLEAN /\ p61 \in BOOLEAN /\ greeted \in BOOLEAN
      /\ flash \in Flashes /\ card \in Cards /\ cells \in Arrays /\ disk \in Disks
      /\ armed \in {"no", "yes", "using"} /\ pos \in Positions
      /\ bits \in Seq(Levels) /\ Len(bits) < W /\ got \in [n : Nat, byte : Codes]
      /\ flash.clk = p60 /\ flash.sel = ~p61 /\ card.clk = p61 /\ card.sel = ~p60
      /\ card.driven = greeted /\ card.card.spi = greeted
      /\ flash.image = cells /\ card.card.blocks = disk /\ flash.wel \in BOOLEAN
  BY Begins
<1>2. /\ o # NoOp /\ pos = Shut(o) /\ pos.half = 1 /\ ~p61 /\ CardQuiet(card) /\ card.count = 0
  <2>1. o # NoOp
    BY Devices
  <2> QED BY <2>1 DEF BusInv, Talking, FlashCloses
<1>3. HeldOK(armed, flash, o)
  BY <1>1, Held
<1>4. MovesAt(o, pos)[1] = Plain(61, TRUE) /\ Ends(o, pos)
  BY <1>1, <1>2, FlashPlaces
<1>5. op' = NoOp /\ pos' = At(0, 0, 1)
  BY <1>4, Goes
<1>6. /\ p60' = p60 /\ p61' = TRUE
      /\ flash' = FlashSees(flash, p60, TRUE, Glue) /\ card' = CardSees(card, TRUE, p60, Glue)
      /\ UNCHANGED <<bits, got, cells, disk, greeted>>
      /\ armed' = IF armed = "using" THEN "no" ELSE armed
  <2>1. PICK up \in BOOLEAN : up = TRUE
    OBVIOUS
  <2>2. MovesAt(op, pos)[pos.half] = Plain(61, up)
    BY <1>2, <1>4, <2>1
  <2>3. /\ p60' = p60 /\ p61' = up
        /\ flash' = FlashSees(flash, p60', p61', Glue)
        /\ card' = CardSees(card, p61', p60', Glue)
        /\ UNCHANGED <<bits, got, cells, disk, greeted>>
        /\ armed' = IF Ends(op, pos) /\ armed = "using" THEN "no" ELSE armed
    BY <2>2, PlainMove
  <2> QED BY <1>4, <2>1, <2>3
<1> DEFINE g == FlashSelect(flash, FALSE)
<1>7. /\ g \in Flashes /\ g.sel = FALSE /\ g.clk = flash.clk /\ g.image = flash.image
      /\ g.phase = "Command" /\ g.have = 0 /\ ~g.loaded /\ ~g.driving
      /\ g.shift.count = 0 /\ g.shift.shown = 0 /\ g.shift.out = FF
      /\ g.wel <=> (flash.wel /\ flash.phase \notin Writing)
  <2>1. PICK low \in BOOLEAN : low = FALSE
    OBVIOUS
  <2>2. flash.sel # low
    BY <1>1, <1>2, <2>1
  <2> DEFINE h == FlashSelect(flash, low)
  <2>3. /\ h \in Flashes /\ h.sel = low /\ h.clk = flash.clk /\ h.image = flash.image
        /\ h.phase = "Command" /\ h.have = 0 /\ ~h.loaded /\ ~h.driving
        /\ h.shift.count = 0 /\ h.shift.shown = 0 /\ h.shift.out = FF
        /\ h.wel <=> (flash.wel /\ (low \/ flash.phase \notin Writing))
    BY <1>1, <2>2, FlashSelectMoves
  <2> QED BY <2>1, <2>3
<1>8. flash' = [g EXCEPT !.clk = p60]
  <2>1. flash' = FlashClock(g, p60, Glue)
    BY <1>6 DEF FlashSees
  <2> HIDE DEF g
  <2>2. g.clk = p60
    BY <1>1, <1>7
  <2>3. FlashClock(g, p60, Glue) = [g EXCEPT !.clk = p60]
    BY <1>1, <1>7, <2>2, FlashClockIdles
  <2> QED BY <2>1, <2>3
<1> HIDE DEF g
<1>9. /\ flash' \in Flashes /\ flash'.sel = FALSE /\ flash'.clk = p60 /\ flash'.image = flash.image
      /\ flash'.phase = "Command" /\ flash'.have = 0
  BY <1>1, <1>7, <1>8 DEF Flashes
<1>10. ~flash'.loaded /\ ~flash'.driving /\ (flash'.wel <=> (flash.wel /\ flash.phase \notin Writing))
  BY <1>1, <1>7, <1>8 DEF Flashes
<1>11. flash'.shift.count = 0 /\ flash'.shift.shown = 0 /\ flash'.shift.out = FF
  BY <1>1, <1>7, <1>8 DEF Flashes
<1>12. FlashQuiet(flash)'
  BY <1>9, <1>10, <1>11 DEF FlashQuiet
<1>13. /\ card' \in Cards /\ CardQuiet(card)' /\ card'.sel = ~p60 /\ card'.clk = TRUE
       /\ card'.driven = card.driven /\ card'.card.spi = card.card.spi
       /\ card'.card.blocks = card.card.blocks /\ (p60 => card'.count = 0)
  <2>1. PICK up \in BOOLEAN : up = TRUE
    OBVIOUS
  <2> DEFINE x == CardSees(card, up, p60, Glue)
  <2>2. /\ x \in Cards /\ CardQuiet(x) /\ x.sel = ~p60 /\ x.clk = up
        /\ x.driven = card.driven /\ x.card.spi = card.card.spi
        /\ x.card.blocks = card.card.blocks
        /\ x.count = IF card.sel # ~p60 THEN 0
                     ELSE IF up /\ ~card.clk /\ card.sel THEN 1 ELSE card.count
    BY <1>1, <1>2, QuietCard
  <2>3. card' = x
    BY <1>6, <2>1
  <2> HIDE DEF x
  <2>4. CardQuiet(card)'
    BY <2>2, <2>3 DEF CardQuiet, CardIdle
  <2> QED BY <1>1, <1>2, <2>1, <2>2, <2>3, <2>4
<1>14. HoldsWhatWasWritten'
  BY <1>1, <1>6, <1>9, <1>13 DEF HoldsWhatWasWritten
<1>15. TypeOK'
  <2>1. pos' \in Positions /\ armed' \in {"no", "yes", "using"}
    <3>1. 0 \in 0..W - 1
      BY Widths
    <3> QED BY <1>1, <1>5, <1>6, <3>1, Placed
  <2> QED BY <1>1, <1>5, <1>6, <1>9, <1>13, <1>14, <2>1, TypesNext
<1>16. Wires'
  BY <1>1, <1>6, <1>9, <1>13 DEF Wires
<1>17. Introduced' /\ AnswersInPlace'
  BY <1>5 DEF Introduced, AnswersInPlace
<1>18. EnableOK'
  <2>1. flash'.phase \notin Writing
    BY <1>9 DEF Writing
  <2>2. armed' # "using"
    BY <1>6
  <2> QED BY <1>1, <1>3, <1>5, <1>6, <1>10, <2>1, <2>2 DEF EnableOK, HeldOK
<1>19. Talking'
  BY <1>5, <1>6, <1>11, <1>12, <1>13 DEF Talking, Idling
<1> QED BY <1>14, <1>15, <1>16, <1>17, <1>18, <1>19 DEF BusInv

(* A card that waits for a command is where every transaction begins.       *)
LEMMA RestIs ==
  ASSUME NEW c \in Protocols, CardIdle(c), NEW o
  PROVE  CardAt(Rest, c) /\ CardAfter(o, 0, c)
<1>1. Rest.stage = "idle" /\ Rest.cmd = "none" /\ Rest.arg = 0 /\ Rest.at = 0 /\ Rest \in Labels
  <2>1. Rest = [stage |-> "idle", cmd |-> "none", arg |-> 0, at |-> 0]
    BY DEF Rest, Label
  <2>2. Rest.stage = "idle" /\ Rest.cmd = "none" /\ Rest.arg = 0 /\ Rest.at = 0
    BY <2>1
  <2>3. Rest \in Labels
    BY <2>1 DEF Labels, Stages, Commands
  <2> QED BY <2>2, <2>3
<1>2. Prior(o, 0) = Rest
  BY DEF Prior
<1>3. Sensible(Rest)
  BY <1>1 DEF Sensible
<1>4. AtRest(Rest) /\ ~Streams(Rest) /\ ~Awaits(Rest) /\ ~Ran(Rest) /\ ~Framing(Rest) /\ ~Sealed(Rest)
  BY <1>1 DEF AtRest, Streams, Awaits, Ran, Framing, Sealed
<1>5. CardPhase(Rest) = "Command"
  BY <1>3, <1>4, PhaseOf
<1>6. Queued(Rest, c) = <<>>
  BY <1>1, <1>4 DEF Queued
<1>7. ~Application(Rest) /\ PendingOf(Rest) = NoBlock /\ MultiReadOf(Rest) = NoBlock
      /\ MultiWriteOf(Rest) = NoBlock
  BY <1>1, <1>4 DEF Application, PendingOf, MultiReadOf, MultiWriteOf
<1>8. Aimed(Rest, c)
  BY <1>1, <1>4, <1>7 DEF Aimed, CardIdle
<1>9. FrameIs(Rest, c)
  BY <1>4 DEF FrameIs, CardIdle
<1>10. CardAt(Rest, c)
  BY <1>3, <1>5, <1>6, <1>7, <1>8, <1>9 DEF CardAt, CardIdle
<1>11. Collected(o, 0, c)
  BY <1>1, <1>2 DEF Collected
<1> QED BY <1>2, <1>10, <1>11 DEF CardAfter

(* The first byte that comes back is the filler.                            *)
LEMMA FirstAnswer ==
  ASSUME NEW o \in Ops, o.dev = "card", NEW c \in Protocols, CardIdle(c), c.blocks = disk
  PROVE  Answer(o, 1) = FF
<1>1. CardAt(Rest, c) /\ Sensible(Rest)
  BY RestIs DEF CardAt
<1>2. 0 \in Nat /\ 0 < Len(o.bytes) /\ Prior(o, 0) = Rest
  BY CardSpoken DEF Prior
<1>3. Follows(Prior(o, 0), Prior(o, 0 + 1), o.bytes[0 + 1]) /\ Prior(o, 0 + 1) \in Labels
  BY <1>2, CardFollows
<1>4. PeekMiso(c) = Says(Prior(o, 1), c)
  BY <1>1, <1>2, <1>3, Peeked
<1>5. Sensible(Prior(o, 1))
  BY <1>1, <1>2, <1>3, Sensibly
<1>6. Answer(o, 1) = Says(Prior(o, 1), c)
  BY <1>5, AnswerOfCard
<1>7. PeekMiso(c) = FF
  BY DEF PeekMiso, CardIdle
<1> QED BY <1>4, <1>6, <1>7

(* The card asked for: the moves before its first bit.                      *)
LEMMA CardOpening ==
  ASSUME BusInv, PinMove, NEW o \in Ops, o = op, o.dev = "card", pos.byte = 0
  PROVE  BusInv'
<1>1. /\ TypeOK /\ Wires /\ Introduced /\ EnableOK /\ HoldsWhatWasWritten
      /\ p60 \in BOOLEAN /\ p61 \in BOOLEAN /\ greeted \in BOOLEAN
      /\ flash \in Flashes /\ card \in Cards /\ cells \in Arrays /\ disk \in Disks
      /\ armed \in {"no", "yes", "using"} /\ pos \in Positions
      /\ bits \in Seq(Levels) /\ Len(bits) < W /\ got \in [n : Nat, byte : Codes]
      /\ card.card.blocks = disk /\ card.card \in Protocols /\ flash.wel \in BOOLEAN
  BY Begins
<1>2. /\ o # NoOp /\ pos.half \in 1..3 /\ FlashQuiet(flash) /\ flash.shift.count = 0
      /\ CardQuiet(card) /\ got.n = 0 /\ bits = <<>>
      /\ (pos.half = 1 => p61) /\ (pos.half = 2 => p60 /\ p61)
      /\ (pos.half = 3 => p60 /\ (p61 <=> o.mode = 3))
  <2>1. o # NoOp
    BY Devices
  <2> QED BY <2>1 DEF BusInv, Talking, CardOpens
<1>3. pos.half = 1 \/ pos.half = 2 \/ pos.half = 3
  BY <1>2
<1>4. /\ MovesAt(o, pos)[1] = Plain(60, TRUE) /\ MovesAt(o, pos)[2] = Plain(61, o.mode = 3)
      /\ MovesAt(o, pos)[3] = Plain(60, FALSE)
      /\ ~Ends(o, pos) /\ (pos.half = 1 => Then(o, pos) = At(0, pos.bit, 2))
      /\ (pos.half = 2 => Then(o, pos) = At(0, pos.bit, 3))
      /\ (pos.half = 3 => Then(o, pos) = At(1, 0, 1))
  BY <1>1, CardPlaces
<1>5. op' = o /\ pos' = Then(o, pos)
  BY <1>4, Goes
<1> DEFINE pin == IF pos.half = 2 THEN 61 ELSE 60
           high == pos.half = 1 \/ (pos.half = 2 /\ o.mode = 3)
<1>6. MovesAt(op, pos)[pos.half] = Plain(pin, high)
  <2>1. CASE pos.half = 1
    BY ZenonT(40), <1>4, <2>1
  <2>2. CASE pos.half = 2
    <3>1. pin = 61 /\ high = (o.mode = 3)
      BY <2>2
    <3> HIDE DEF pin, high
    <3> QED BY <1>4, <2>2, <3>1
  <2>3. CASE pos.half = 3
    <3>1. pin = 60 /\ high = FALSE
      BY <2>3
    <3> HIDE DEF pin, high
    <3> QED BY <1>4, <2>3, <3>1
  <2> QED BY <1>3, <2>1, <2>2, <2>3
<1>7. pin \in {60, 61} /\ high \in BOOLEAN
  OBVIOUS
<1>8. pin = 61 => p61
  BY <1>2
<1>9. /\ pos.half = 1 => pin = 60 /\ high
      /\ pos.half = 2 => pin = 61 /\ (high <=> o.mode = 3)
      /\ pos.half = 3 => pin = 60 /\ ~high
  OBVIOUS
<1> HIDE DEF pin, high
<1>10. /\ p60' = (IF pin = 60 THEN high ELSE p60) /\ p61' = (IF pin = 61 THEN high ELSE p61)
       /\ p60' \in BOOLEAN /\ p61' \in BOOLEAN /\ flash' \in Flashes /\ card' \in Cards
       /\ FlashQuiet(flash)' /\ (flash'.wel <=> flash.wel) /\ flash'.phase = "Command"
       /\ flash'.shift.count = IF p61' # p61 THEN 0
                               ELSE IF p60' /\ ~p60 /\ ~p61 THEN 1 ELSE flash.shift.count
       /\ CardQuiet(card)'
       /\ card'.count = IF p60' # p60 THEN 0
                        ELSE IF p61' /\ ~p61 /\ ~p60 THEN 1 ELSE card.count
       /\ (~p60' /\ p60 => card'.dout = IF greeted THEN <<FF, 0>> ELSE Released)
       /\ Wires' /\ HoldsWhatWasWritten' /\ UNCHANGED <<bits, got, cells, disk, greeted>>
       /\ armed' = IF Ends(op, pos) /\ armed = "using" THEN "no" ELSE armed
  BY <1>1, <1>2, <1>6, <1>7, <1>8, QuietMove
<1>11. armed' = armed
  BY <1>4, <1>10
<1>12. /\ pos.half = 1 => p60' = TRUE /\ p61' = p61
       /\ pos.half = 2 => p60' = p60 /\ (p61' <=> o.mode = 3)
       /\ pos.half = 3 => p60' = FALSE /\ p61' = p61
  BY <1>7, <1>10, <1>9
<1>13. flash'.shift.count = 0
  <2>1. CASE pos.half = 1
    BY <1>1, <1>2, <1>10, <1>12, <2>1
  <2>2. CASE pos.half = 2
    BY <1>1, <1>2, <1>10, <1>12, <2>2
  <2>3. CASE pos.half = 3
    BY <1>1, <1>2, <1>10, <1>12, <2>3
  <2> QED BY <1>3, <2>1, <2>2, <2>3
<1>14. TypeOK'
  <2>1. pos' \in Positions
    <3>1. 0 \in 0..W - 1 /\ pos.bit \in 0..W - 1
      BY <1>1, Widths DEF Positions
    <3>2. At(0, pos.bit, 2) \in Positions /\ At(0, pos.bit, 3) \in Positions
          /\ At(1, 0, 1) \in Positions
      BY <3>1, Placed
    <3> QED BY <1>3, <1>4, <1>5, <3>2
  <2> QED BY <1>1, <1>5, <1>10, <1>11, <2>1, TypesNext
<1>15. Introduced'
  BY <1>1, <1>5, <1>10 DEF Introduced
<1>16. EnableOK'
  <2>1. flash.wel \in BOOLEAN /\ flash'.wel \in BOOLEAN
    BY <1>1, <1>10 DEF Flashes
  <2>2. flash'.phase \notin Writing
    BY <1>10 DEF Writing
  <2>3. armed # "using"
    BY <1>1 DEF EnableOK
  <2> QED BY <1>1, <1>10, <1>11, <2>1, <2>2, <2>3 DEF EnableOK
<1>17. AnswersInPlace'
  BY <1>1, <1>2, <1>10 DEF AnswersInPlace
<1>18. Talking'
  <2>1. CASE pos.half = 1
    <3>1. pos'.byte = 0 /\ pos'.half = 2 /\ p60' = TRUE /\ p61' = p61
      BY <1>4, <1>5, <1>12, <2>1 DEF At
    <3>2. FlashQuiet(flash)' /\ CardQuiet(card)' /\ bits' = <<>> /\ got'.n = 0
      BY <1>2, <1>10
    <3>3. p61' = TRUE /\ pos'.half \in 1..3 /\ pos'.half # 3
      BY <1>1, <1>2, <2>1, <3>1
    <3>4. CardOpens'
      BY <1>13, <3>1, <3>2, <3>3 DEF CardOpens
    <3> QED BY <1>2, <1>5, <3>1, <3>4, Devices DEF Talking
  <2>2. CASE pos.half = 2
    <3>1. pos'.byte = 0 /\ pos'.half = 3 /\ p60' = p60 /\ (p61' <=> o.mode = 3)
      BY <1>4, <1>5, <1>12, <2>2 DEF At
    <3>2. FlashQuiet(flash)' /\ CardQuiet(card)' /\ bits' = <<>> /\ got'.n = 0
      BY <1>2, <1>10
    <3>3. p60' = TRUE /\ pos'.half \in 1..3 /\ op' = o
      BY <1>1, <1>2, <1>5, <2>2, <3>1
    <3>4. CardOpens'
      BY <1>13, <3>1, <3>2, <3>3 DEF CardOpens
    <3> QED BY <1>2, <1>5, <3>1, <3>4, Devices DEF Talking
  <2>3. CASE pos.half = 3
    <3>1. pos'.byte = 1 /\ pos'.bit = 0 /\ pos'.half = 1
      BY <1>4, <1>5, <2>3 DEF At
    <3>2. p60' = FALSE /\ p60 /\ p61' = p61 /\ (p61 <=> o.mode = 3)
      BY <1>2, <1>12, <2>3
    <3>3. card'.count = 0 /\ card'.dout = IF greeted THEN <<FF, 0>> ELSE Released
      BY <1>10, <3>2
    <3>4. Answer(o, 1) = FF
      <4>1. CardIdle(card.card)
        BY <1>2 DEF CardQuiet
      <4> QED BY <1>1, <4>1, FirstAnswer
    <3>5. Answer(o, 1)' = FF
      BY <1>10, <1>11, <3>4 DEF Answer, Due
    <3>6. card'.outByte = FF /\ card'.shown = 0 /\ ~card'.card.app /\ CardAfter(o, 0, card'.card)
      <4>1. CardIdle(card'.card) /\ card'.card \in Protocols
        BY <1>10 DEF CardQuiet, CardIdle, Cards
      <4>2. card'.outByte = FF /\ card'.shown = 0 /\ ~card'.card.app
        BY <1>10, <3>3 DEF CardQuiet, CardIdle
      <4> QED BY <4>1, <4>2, RestIs
    <3>7. bits' = [j \in 1..0 |-> <<Answer(o, 1)', j - 1>>] /\ got'.n = 0
      BY <1>2, <1>10
    <3>8. Folded(0) = 0 /\ 0 # W
      BY Widths DEF Folded
    <3>9. ~greeted' => o.kind = "Greet"
      BY <1>2, <1>5, <1>15 DEF Introduced
    <3>10. ~p60' /\ (p61' <=> (o.mode = 3)) /\ FlashQuiet(flash)' /\ flash'.shift.count = 0
      BY <1>1, <1>10, <1>13, <3>2
    <3>11. card'.dout = IF greeted' THEN <<Answer(o, 1)', 0>> ELSE Released
      BY <1>10, <3>3, <3>5
    <3>12. CardMid(o, 0, 0)'
      BY <3>3, <3>5, <3>6, <3>7, <3>9, <3>10 DEF CardMid
    <3>13. CardInBytes(o, 1, 0, 1)'
      BY <3>8, <3>10, <3>11, <3>12 DEF CardInBytes
    <3>14. pos'.byte \in 1..Len(o.bytes) /\ pos'.half \in 1..2
      BY <3>1, Devices
    <3> QED BY <1>2, <1>5, <3>1, <3>13, <3>14, Devices DEF Talking
  <2> QED BY <1>3, <2>1, <2>2, <2>3
<1> QED BY <1>10, <1>14, <1>15, <1>16, <1>17, <1>18 DEF BusInv

(* What is promised of the card is what it would say, now and after a step. *)
CardAnswers ==
  \A o, c : \A k \in Nat : k >= 1 /\ Sensible(Prior(o, k)) /\ c.blocks = disk
    => Answer(o, k) = Says(Prior(o, k), c)

(* Said of this state ...                                                   *)
LEMMA CardAnswered == CardAnswers
  BY AnswerOfCard DEF CardAnswers

(* ... and of the next.                                                     *)
LEMMA CardAnsweredNext == CardAnswers'
  BY CardAnswered, PTL

(* Where the transaction of the card stands amid a byte.                    *)
LEMMA CardStands ==
  ASSUME BusInv, NEW o \in Ops, o = op, o.dev = "card", NEW b \in 1..Len(o.bytes),
         NEW i \in 0..W - 1, NEW h \in 1..2, pos = At(b, i, h)
  PROVE  /\ CardInBytes(o, b, i, h) /\ armed \in {"no", "yes"} /\ o # NoOp
         /\ (armed = "no" => ~flash.wel) /\ (armed = "yes" => flash.wel)
         /\ b \in Nat /\ b - 1 \in Nat /\ b - 1 < Len(o.bytes) /\ (b - 1) + 1 = b
         /\ i \in Nat /\ i < W /\ Len(o.bytes) \in Nat
<1>1. op # NoOp /\ Len(o.bytes) \in Nat /\ pos.byte = b /\ pos.bit = i /\ pos.half = h
  BY Devices DEF At
<1>2. CardInBytes(o, b, i, h)
  BY <1>1 DEF BusInv, Talking
<1>3. armed \in {"no", "yes", "using"} /\ EnableOK
  BY Begins
<1>4. armed \in {"no", "yes"} /\ (armed = "no" => ~flash.wel) /\ (armed = "yes" => flash.wel)
  BY <1>3 DEF EnableOK
<1> QED BY <1>1, <1>2, <1>4, Widths

(* What is left to say of a step amid a transaction of the card.            *)
LEMMA CardGoesOn ==
  ASSUME BusInv, NEW o \in Ops, o = op, o.dev = "card", op' = o, pos' \in Positions,
         p60' = FALSE, p61' \in BOOLEAN, flash' \in Flashes, FlashQuiet(flash)', FlashQuiet(flash),
         flash'.wel <=> flash.wel, flash'.sel = ~p61', flash'.clk = FALSE,
         flash'.image = flash.image, card' \in Cards, card'.sel = TRUE, card'.clk = p61',
         card'.driven = greeted', card'.card.spi = greeted', card'.card.blocks = disk',
         greeted' \in BOOLEAN, greeted => greeted', armed' = armed, cells' = cells,
         bits' \in Seq(Levels), Len(bits') < W, got' \in [n : Nat, byte : Codes],
         AnswersInPlace', Talking'
  PROVE  BusInv'
<1>1. /\ Introduced /\ EnableOK /\ armed \in {"no", "yes", "using"}
      /\ flash.image = cells /\ flash.wel \in BOOLEAN
  BY Begins
<1>2. o # NoOp
  BY Devices
<1>3. HoldsWhatWasWritten'
  BY <1>1 DEF HoldsWhatWasWritten
<1>4. TypeOK'
  BY <1>1, <1>3, TypesNext
<1>5. Wires'
  BY DEF Wires
<1>6. Introduced'
  BY <1>1 DEF Introduced
<1>7. EnableOK'
  <2>1. flash'.phase \notin Writing
    BY DEF FlashQuiet, Writing
  <2>2. armed # "using"
    BY <1>1 DEF EnableOK
  <2>3. flash'.wel \in BOOLEAN
    BY DEF Flashes
  <2> QED BY <1>1, <1>2, <2>1, <2>2, <2>3 DEF EnableOK
<1> QED BY <1>3, <1>4, <1>5, <1>6, <1>7 DEF BusInv

(* The flash while the card's clock moves: it is selected and released.     *)
LEMMA FlashAside ==
  ASSUME BusInv, FlashQuiet(flash), flash.shift.count = 0, ~p60, NEW high \in BOOLEAN, NEW di,
         high # p61, flash' = FlashSees(flash, p60, high, di)
  PROVE  /\ flash' \in Flashes /\ FlashQuiet(flash)' /\ flash'.sel = ~high /\ flash'.clk = FALSE
         /\ flash'.image = flash.image /\ (flash'.wel <=> flash.wel) /\ flash'.shift.count = 0
<1>1. p60 \in BOOLEAN /\ p61 \in BOOLEAN /\ flash \in Flashes /\ flash.clk = p60 /\ flash.sel = ~p61
  BY Begins
<1>2. p60 = FALSE
  BY <1>1
<1>3. /\ flash' \in Flashes /\ FlashQuiet(flash') /\ flash'.sel = ~high /\ flash'.clk = p60
      /\ flash'.image = flash.image /\ (flash'.wel <=> flash.wel)
      /\ flash'.shift.count = IF flash.sel # ~high THEN 0
                              ELSE IF p60 /\ ~flash.clk /\ flash.sel THEN 1 ELSE flash.shift.count
  BY <1>1, QuietFlash
<1>4. FlashQuiet(flash)'
  BY <1>3 DEF FlashQuiet
<1>5. flash'.shift.count = 0
  BY <1>1, <1>2, <1>3
<1> QED BY <1>2, <1>3, <1>4, <1>5

(* The card's clock falls: the next bit is on the line.                     *)
LEMMA CardLets ==
  ASSUME BusInv, PinMove, NEW o \in Ops, o = op, o.dev = "card", armed \in {"no", "yes"},
         NEW low \in BOOLEAN, MovesAt(op, pos)[pos.half] = Plain(61, low), ~Ends(op, pos),
         NEW k \in Nat, NEW n \in 0..W - 1, CardMid(o, k, n)
  PROVE  low = FALSE /\ p61 =>
           /\ CardMid(o, k, n)' /\ p61' = FALSE
           /\ k < Len(o.bytes) =>
                card'.dout = IF greeted' THEN <<Answer(o, k + 1)', n>> ELSE Released
           /\ pos' \in Positions /\ Talking' => BusInv'
<1>1. /\ p60 \in BOOLEAN /\ p61 \in BOOLEAN /\ greeted \in BOOLEAN
      /\ flash \in Flashes /\ card \in Cards /\ AnswersInPlace
      /\ bits \in Seq(Levels) /\ Len(bits) < W /\ got \in [n : Nat, byte : Codes]
      /\ card.clk = p61 /\ card.sel = ~p60 /\ card.driven = greeted
      /\ card.card.spi = greeted /\ card.card.blocks = disk
  BY Begins
<1>2. /\ ~p60 /\ FlashQuiet(flash) /\ flash.shift.count = 0
      /\ card.count = n /\ card.shown = n /\ (n # 0 => card.whole)
      /\ CardAfter(o, k, card.card)
      /\ (k < Len(o.bytes) => card.outByte = Answer(o, k + 1))
      /\ (~greeted => /\ o.kind = "Greet"
                      /\ k = 0 \/ (Framing(Prior(o, k)) /\ Prior(o, k).cmd = "CMD0"))
      /\ (o.kind # "Ready" => ~card.card.app)
      /\ bits = [j \in 1..n |-> <<Answer(o, k + 1), j - 1>>] /\ got.n = k
  BY DEF CardMid
<1>3. SUFFICES ASSUME low = FALSE, p61
      PROVE  /\ CardMid(o, k, n)' /\ p61' = FALSE
             /\ k < Len(o.bytes) =>
                  card'.dout = IF greeted' THEN <<Answer(o, k + 1)', n>> ELSE Released
             /\ pos' \in Positions /\ Talking' => BusInv'
  OBVIOUS
<1>4. /\ p60' = p60 /\ p61' = low
      /\ flash' = FlashSees(flash, p60', p61', Glue)
      /\ card' = CardSees(card, p61', p60', Glue)
      /\ UNCHANGED <<bits, got, cells, disk, greeted>>
      /\ armed' = IF Ends(op, pos) /\ armed = "using" THEN "no" ELSE armed
  BY PlainMove
<1>5. p60' = FALSE /\ p61' = FALSE /\ armed' = armed
  BY <1>1, <1>2, <1>3, <1>4
<1>6. flash' = FlashSees(flash, p60, low, Glue) /\ low # p61
  BY <1>1, <1>3, <1>4
<1>7. /\ flash' \in Flashes /\ FlashQuiet(flash)' /\ flash'.sel = ~low /\ flash'.clk = FALSE
      /\ flash'.image = flash.image /\ (flash'.wel <=> flash.wel) /\ flash'.shift.count = 0
  BY <1>2, <1>6, FlashAside
<1>8. card' = CardClock(card, FALSE, Glue)
  <2>1. card.sel = ~p60
    BY <1>1
  <2>2. CardSelect(card, ~p60) = card
    BY <2>1, CardSelectStays
  <2> QED BY <1>3, <1>4, <2>2 DEF CardSees
<1>9. /\ card' \in Cards /\ card'.sel /\ ~card'.clk /\ card'.driven = card.driven
      /\ card'.count = card.count /\ card'.shown = card.shown /\ card'.whole = card.whole
      /\ card'.outByte = card.outByte /\ card'.card = card.card
      /\ card'.dout = IF card.driven THEN <<card.outByte, card.shown>> ELSE Released
  <2>1. card.sel /\ card.clk
    BY <1>1, <1>2, <1>3
  <2> DEFINE x == CardClock(card, FALSE, Glue)
  <2>2. /\ x \in Cards /\ x.sel /\ ~x.clk /\ x.driven = card.driven /\ x.count = card.count
        /\ x.shown = card.shown /\ x.whole = card.whole /\ x.outByte = card.outByte
        /\ x.card = card.card
        /\ x.dout = IF card.driven THEN <<card.outByte, card.shown>> ELSE Released
    BY <1>1, <2>1, CardFalls
  <2> HIDE DEF x
  <2>3. card' = x
    BY <1>8 DEF x
  <2> QED BY <2>2, <2>3
<1>10. \A j : Answer(o, j)' = Answer(o, j)
  BY <1>4, <1>5 DEF Answer, Due
<1>11. CardMid(o, k, n)'
  <2>1. bits' = [j \in 1..n |-> <<Answer(o, k + 1)', j - 1>>] /\ got'.n = k
    BY <1>2, <1>4, <1>10
  <2>2. k < Len(o.bytes) => card'.outByte = Answer(o, k + 1)'
    BY <1>2, <1>9, <1>10
  <2>3. /\ card'.count = n /\ card'.shown = n /\ (n # 0 => card'.whole)
        /\ CardAfter(o, k, card'.card) /\ (o.kind # "Ready" => ~card'.card.app)
    BY <1>2, <1>9
  <2> QED BY <1>2, <1>4, <1>5, <1>7, <2>1, <2>2, <2>3 DEF CardMid
<1>12. k < Len(o.bytes) =>
         card'.dout = IF greeted' THEN <<Answer(o, k + 1)', n>> ELSE Released
  BY SMTT(30), <1>1, <1>2, <1>4, <1>9, <1>10
<1>13. ASSUME pos' \in Positions, Talking' PROVE BusInv'
  <2>1. op' = o
    BY Goes
  <2>2. card'.sel = TRUE /\ card'.clk = p61' /\ flash'.sel = ~p61'
    <3>1. card'.sel \in BOOLEAN /\ card'.clk \in BOOLEAN
      BY <1>9 DEF Cards
    <3> QED BY <1>3, <1>5, <1>7, <1>9, <3>1
  <2>3. /\ card'.driven = greeted' /\ card'.card.spi = greeted' /\ card'.card.blocks = disk'
        /\ greeted' \in BOOLEAN /\ (greeted => greeted')
    BY <1>1, <1>4, <1>9
  <2>4. AnswersInPlace'
    <3>1. o # NoOp
      BY Devices
    <3> QED BY <1>1, <1>4, <1>10, <2>1, <3>1 DEF AnswersInPlace
  <2> QED BY <1>1, <1>2, <1>4, <1>5, <1>7, <1>9, <1>13, <2>1, <2>2, <2>3, <2>4, CardGoesOn
<1> QED BY <1>5, <1>11, <1>12, <1>13

(* The edge at bit n of byte k + 1 rises, and the card shows what it owes.   *)
CardShows(o, up, di, k, n) ==
  /\ up = TRUE /\ ~p61 /\ pos.bit = n /\ pos.byte = k + 1 /\ di.byte = o.bytes[k + 1]
  /\ card.dout = IF greeted THEN <<Answer(o, k + 1), n>> ELSE Released

(* The card's clock rises: the master reads one bit and the card takes one. *)
LEMMA CardGets ==
  ASSUME BusInv, PinMove, NEW o \in Ops, o = op, o.dev = "card", armed \in {"no", "yes"},
         NEW up \in BOOLEAN, NEW di, di.at = pos.bit,
         MovesAt(op, pos)[pos.half] = Move(61, up, di, "before"), ~Ends(op, pos),
         NEW k \in Nat, k < Len(o.bytes), NEW n \in 0..W - 1, CardMid(o, k, n)
  PROVE  CardShows(o, up, di, k, n)
         => /\ n + 1 # W => CardMid(o, k, n + 1)'
            /\ n + 1 = W => CardMid(o, k + 1, 0)'
            /\ p61' = TRUE /\ (pos' \in Positions /\ Talking' => BusInv')
<1>1. /\ p60 \in BOOLEAN /\ p61 \in BOOLEAN /\ greeted \in BOOLEAN
      /\ flash \in Flashes /\ card \in Cards /\ cells \in Arrays /\ disk \in Disks
      /\ bits \in Seq(Levels) /\ Len(bits) < W /\ got \in [n : Nat, byte : Codes]
      /\ card.clk = p61 /\ card.sel = ~p60 /\ card.driven = greeted
      /\ card.card.spi = greeted /\ card.card.blocks = disk /\ card.card \in Protocols
      /\ AnswersInPlace
  BY Begins
<1>2. /\ ~p60 /\ FlashQuiet(flash) /\ flash.shift.count = 0
      /\ card.count = n /\ card.shown = n /\ (n # 0 => card.whole)
      /\ CardAfter(o, k, card.card) /\ card.outByte = Answer(o, k + 1)
      /\ (~greeted => /\ o.kind = "Greet"
                      /\ k = 0 \/ (Framing(Prior(o, k)) /\ Prior(o, k).cmd = "CMD0"))
      /\ (o.kind # "Ready" => ~card.card.app)
      /\ bits = [j \in 1..n |-> <<Answer(o, k + 1), j - 1>>] /\ got.n = k
  BY DEF CardMid
<1> DEFINE x == Answer(o, k + 1)
<1>3. SUFFICES ASSUME up = TRUE, ~p61, pos.bit = n, pos.byte = k + 1, di.byte = o.bytes[k + 1],
                      card.dout = IF greeted THEN <<x, n>> ELSE Released
      PROVE  /\ n + 1 # W => CardMid(o, k, n + 1)'
             /\ n + 1 = W => CardMid(o, k + 1, 0)'
             /\ p61' = TRUE /\ (pos' \in Positions /\ Talking' => BusInv')
  BY DEF CardShows
<1> DEFINE m == MovesAt(op, pos)[pos.half]
<1>4. /\ m.reads = "before" /\ Reads(m, flash', card')
      /\ p60' = p60 /\ p61' = up
      /\ flash' = FlashSees(flash, p60', p61', di)
      /\ card' = CardSees(card, p61', p60', di)
      /\ pos.bit = W - 1 => Believe(op, pos.byte)
      /\ pos.bit # W - 1 => UNCHANGED <<armed, cells, disk, greeted>>
  BY BitMove
<1> HIDE DEF m
<1>5. p60' = FALSE /\ p61' = TRUE
  BY <1>1, <1>2, <1>3, <1>4
<1>6. flash' = FlashSees(flash, p60, up, di) /\ up # p61
  BY <1>1, <1>3, <1>4
<1>7. /\ flash' \in Flashes /\ FlashQuiet(flash)' /\ flash'.sel = ~up /\ flash'.clk = FALSE
      /\ flash'.image = flash.image /\ (flash'.wel <=> flash.wel) /\ flash'.shift.count = 0
  BY <1>2, <1>6, FlashAside
<1>8. card' = CardClock(card, TRUE, di)
  <2>1. card.sel = ~p60
    BY <1>1
  <2>2. CardSelect(card, ~p60) = card
    BY <2>1, CardSelectStays
  <2> QED BY <1>3, <1>4, <2>2 DEF CardSees
<1>9. x \in Codes
  BY <1>1, <1>2 DEF Cards
<1>10. ~greeted => x = FF
  BY <1>2, Ungreeted
<1>11. Line(flash, card) = <<x, n>>
  <2>1. Len(bits) = n /\ ~(flash.sel /\ flash.driving)
    BY <1>2 DEF FlashQuiet
  <2> HIDE DEF x
  <2>2. CASE greeted
    <3>1. card.dout = <<x, n>>
      BY <1>3, <2>2
    <3> QED BY <2>1, <3>1, Lines
  <2>3. CASE ~greeted
    <3>1. card.dout \in {Released, <<FF, 0>>, <<FF, 1>>} /\ x = FF
      BY <1>3, <1>10, <2>3
    <3> QED BY <2>1, <3>1, Lines
  <2> QED BY <2>2, <2>3
<1> HIDE DEF x
<1>12. /\ bits' = [j \in 1..Folded(n + 1) |-> <<x, j - 1>>]
       /\ bits' \in Seq(Levels) /\ Len(bits') < W /\ got' \in [n : Nat, byte : Codes]
       /\ got' = IF n + 1 = W THEN [n |-> got.n + 1, byte |-> x] ELSE got
  <2>1. bits = [j \in 1..n |-> <<x, j - 1>>]
    BY <1>2 DEF x
  <2> QED BY <1>1, <1>4, <1>9, <1>11, <2>1, BitRead
<1>13. card.sel /\ ~card.clk /\ card.shown = card.count /\ card.count = n /\ di.at = n
  BY <1>1, <1>2, <1>3
<1>14. op' = o /\ o # NoOp
  BY Goes, Devices
<1>15. ASSUME card' \in Cards, card'.sel, card'.clk, card'.driven = greeted',
              card'.card.spi = greeted', card'.card.blocks = disk', greeted' \in BOOLEAN,
              greeted => greeted', armed' = armed, cells' = cells,
              n + 1 = W => x' = x, n + 1 # W => disk' = disk,
              pos' \in Positions, Talking'
       PROVE  BusInv'
  <2>1. card'.sel = TRUE /\ card'.clk = p61' /\ flash'.sel = ~p61' /\ p61' \in BOOLEAN
    <3>1. card'.sel \in BOOLEAN /\ card'.clk \in BOOLEAN
      BY <1>15 DEF Cards
    <3> QED BY <1>3, <1>5, <1>7, <1>15, <3>1
  <2>2. AnswersInPlace'
    <3>1. CASE n + 1 = W
      <4>1. got'.n = k + 1 /\ got'.byte = x'
        BY <1>2, <1>12, <1>15, <3>1
      <4> QED BY <1>14, <4>1 DEF AnswersInPlace, x
    <3>2. CASE n + 1 # W
      <4>1. got' = got /\ disk' = disk /\ armed' = armed /\ cells' = cells /\ op' = op
        BY <1>12, <1>14, <1>15, <3>2
      <4> QED BY <1>1, <4>1 DEF AnswersInPlace, Answer, Due
    <3> QED BY <3>1, <3>2
  <2> QED BY <1>2, <1>5, <1>7, <1>12, <1>14, <1>15, <2>1, <2>2, CardGoesOn
<1>16. CASE n + 1 # W
  <2>1. UNCHANGED <<armed, cells, disk, greeted>>
    BY <1>3, <1>4, <1>16, Widths
  <2>2. /\ card' \in Cards /\ card'.sel /\ card'.clk /\ card'.driven = card.driven
        /\ card'.count = n + 1 /\ card'.shown = n + 1 /\ card'.outByte = card.outByte
        /\ card'.card = card.card /\ card'.whole
    <3> DEFINE y == CardClock(card, TRUE, di)
    <3>1. card.count + 1 # W
      BY <1>13, <1>16
    <3>2. /\ y \in Cards /\ y.sel /\ y.clk /\ y.driven = card.driven /\ y.count = card.count + 1
          /\ y.shown = card.count + 1 /\ y.outByte = card.outByte /\ y.card = card.card
          /\ y.whole <=> ((card.whole \/ card.count = 0) /\ di.at = card.count)
      BY <1>1, <1>13, <3>1, CardBit
    <3> HIDE DEF y
    <3>3. card' = y
      BY <1>8 DEF y
    <3> QED BY <1>2, <1>13, <3>2, <3>3
  <2>3. Folded(n + 1) = n + 1
    BY <1>16 DEF Folded
  <2>4. Answer(o, k + 1)' = x
    BY <2>1 DEF Answer, Due, x
  <2>5. bits' = [j \in 1..n + 1 |-> <<Answer(o, k + 1)', j - 1>>] /\ got'.n = k
    BY <1>2, <1>12, <1>16, <2>3, <2>4
  <2>6. card'.outByte = Answer(o, k + 1)'
    BY <1>2, <2>2, <2>4 DEF x
  <2>7. CardAfter(o, k, card'.card) /\ (o.kind # "Ready" => ~card'.card.app)
    BY <1>2, <2>2
  <2>8. CardMid(o, k, n + 1)'
    BY <1>2, <1>5, <1>7, <2>1, <2>2, <2>5, <2>6, <2>7 DEF CardMid
  <2>9. card'.driven = greeted' /\ card'.card.spi = greeted' /\ card'.card.blocks = disk'
        /\ greeted' \in BOOLEAN /\ (greeted => greeted') /\ armed' = armed /\ cells' = cells
    BY <1>1, <2>1, <2>2
  <2>10. pos' \in Positions /\ Talking' => BusInv'
    BY <1>15, <1>16, <2>1, <2>2, <2>9
  <2> QED BY <1>5, <1>16, <2>8, <2>10
<1>17. CASE n + 1 = W
  <2>1. Believe(o, k + 1) /\ o.bytes[k + 1] = di.byte
    BY <1>3, <1>4, <1>17, Widths
  <2> DEFINE c == card.card
             d == Xfer(c, o.bytes[k + 1])
             l == Prior(o, k)
             p == Prior(o, k + 1)
  <2>2. TakenByCard(o, k, c, d)
    BY <1>1, <1>2, CardTakesByte
  <2>3. /\ d \in Protocols /\ CardAt(p, d) /\ (d.spi <=> (c.spi \/ (Ran(p) /\ p.cmd = "CMD0")))
        /\ Collected(o, k + 1, d) /\ d.blocks = StoredBlocks(o, k, c)
    BY <2>2 DEF TakenByCard, Obeys
  <2> HIDE DEF d
  <2>4. /\ card' \in Cards /\ card'.sel /\ card'.clk /\ card'.driven = d.spi /\ card'.count = 0
        /\ card'.shown = 0 /\ card'.outByte = PeekMiso(d) /\ card'.card = d
    <3> DEFINE y == CardClock(card, TRUE, di)
    <3>1. /\ card.count + 1 = W /\ card.whole /\ di.at = card.count /\ card \in Cards
          /\ card.sel /\ ~card.clk /\ card.shown = card.count
      BY <1>1, <1>2, <1>13, <1>17, Widths
    <3>2. d \in Protocols /\ d = Xfer(card.card, di.byte) /\ PeekMiso(d) \in Codes
      BY <2>1, <2>3, PeekIsByte DEF d
    <3> HIDE DEF c
    <3>3. /\ y \in Cards /\ y.sel /\ y.clk /\ y.driven = d.spi /\ y.count = 0 /\ y.shown = 0
          /\ y.outByte = PeekMiso(d) /\ y.card = d
      <4>1. y \in Cards /\ y.sel /\ y.clk /\ y.driven = d.spi /\ y.count = 0 /\ y.shown = 0
        BY ZenonT(40), <3>1, <3>2, CardByte
      <4>2. y.outByte = PeekMiso(d) /\ y.card = d
        BY ZenonT(40), <3>1, <3>2, CardByte
      <4> QED BY <4>1, <4>2
    <3> HIDE DEF y
    <3>4. card' = y
      BY <1>8 DEF y
    <3> QED BY <3>3, <3>4
  <2>5. /\ armed' = armed /\ cells' = cells /\ disk' = StoredBlocks(o, k, c)
        /\ greeted' = (greeted \/ (Ran(p) /\ p.cmd = "CMD0")) /\ x' = x
    <3>1. p = o.due[k + 1]
      BY CardFollows
    <3>2. /\ armed' = armed /\ cells' = cells /\ disk' = StoredBlocks(o, k, c)
          /\ greeted' = (greeted \/ (Ran(o.due[k + 1]) /\ o.due[k + 1].cmd = "CMD0"))
          /\ Answer(o, k + 1)' = Answer(o, k + 1)
      BY <1>1, <1>2, <2>1, CardKept
    <3> QED BY <3>1, <3>2 DEF x
  <2>6. /\ greeted' \in BOOLEAN /\ (greeted => greeted') /\ d.spi = greeted' /\ d.blocks = disk'
        /\ d.app \in BOOLEAN
    <3>1. d.spi \in BOOLEAN /\ d.app \in BOOLEAN
      BY <2>3 DEF Protocols
    <3> QED BY <1>1, <2>3, <2>5, <3>1
  <2>7. k + 1 < Len(o.bytes) => PeekMiso(d) = Answer(o, (k + 1) + 1)'
    <3>1. SUFFICES ASSUME k + 1 < Len(o.bytes) PROVE PeekMiso(d) = Answer(o, (k + 1) + 1)'
      OBVIOUS
    <3> DEFINE q == Prior(o, (k + 1) + 1)
    <3>2. Follows(p, q, o.bytes[(k + 1) + 1]) /\ q \in Labels
      BY <3>1, CardFollows
    <3>3. Sensible(p)
      BY <2>3 DEF CardAt
    <3>4. Sensible(q)
      BY <3>2, <3>3, Sensibly
    <3> HIDE DEF p
    <3>5. PeekMiso(d) = Says(q, d)
      BY <2>3, <3>2, Peeked
    <3>6. (k + 1) + 1 \in Nat /\ (k + 1) + 1 >= 1
      OBVIOUS
    <3>7. Answer(o, (k + 1) + 1)' = Says(q, d)
      BY <2>6, <3>4, <3>6, CardAnsweredNext DEF CardAnswers
    <3> QED BY <3>5, <3>7
  <2>8. ~greeted' => /\ o.kind = "Greet" /\ Framing(p) /\ p.cmd = "CMD0"
    <3>1. SUFFICES ASSUME ~greeted' PROVE o.kind = "Greet" /\ Framing(p) /\ p.cmd = "CMD0"
      OBVIOUS
    <3>2. ~greeted /\ ~(Ran(p) /\ p.cmd = "CMD0")
      BY <1>1, <2>5, <3>1
    <3>3. p.stage = "frame" /\ p.cmd = "CMD0" /\ o.kind = "Greet"
      BY <1>2, <3>2, Ungreeted
    <3> QED BY <3>2, <3>3 DEF Ran, Framing
  <2>9. o.kind # "Ready" => ~d.app
    <3>1. (c.app <=> Application(l)) /\ (d.app <=> Application(p))
      BY <1>2, <2>3 DEF CardAfter, CardAt
    <3> QED BY <1>2, <3>1, NoApplication
  <2>10. bits' = [j \in 1..0 |-> <<Answer(o, (k + 1) + 1)', j - 1>>] /\ got'.n = k + 1
    <3>1. Folded(n + 1) = 0
      BY <1>17 DEF Folded
    <3> QED BY <1>2, <1>12, <1>17, <3>1
  <2>11. CardAfter(o, k + 1, card'.card)
    BY <2>3, <2>4 DEF CardAfter
  <2>12. CardMid(o, k + 1, 0)'
    BY <1>2, <1>5, <1>7, <2>4, <2>7, <2>8, <2>9, <2>10, <2>11 DEF CardMid
  <2>13. pos' \in Positions /\ Talking' => BusInv'
    BY <1>15, <1>17, <2>4, <2>5, <2>6
  <2> QED BY <1>5, <1>17, <2>12, <2>13
<1> QED BY <1>16, <1>17

(* A transaction whose bytes are all out leaves no application command.     *)
CardEnds ==
  \A o \in Ops : o.dev = "card" /\ CardMid(o, Len(o.bytes), 0)
    => ~p60 /\ FlashQuiet(flash) /\ flash.shift.count = 0 /\ ~card.card.app

(* Whatever the transaction, it ends so, in this state ...                  *)
LEMMA CardEnded == CardEnds
<1>1. ASSUME NEW o \in Ops, o.dev = "card", CardMid(o, Len(o.bytes), 0)
      PROVE  ~p60 /\ FlashQuiet(flash) /\ flash.shift.count = 0 /\ ~card.card.app
  <2>1. /\ ~p60 /\ FlashQuiet(flash) /\ flash.shift.count = 0
        /\ CardAfter(o, Len(o.bytes), card.card) /\ (o.kind # "Ready" => ~card.card.app)
    BY <1>1 DEF CardMid
  <2>2. card.card.app <=> Application(Prior(o, Len(o.bytes)))
    BY <2>1 DEF CardAfter, CardAt
  <2> QED BY <1>1, <2>1, <2>2, ReadyIsDone
<1> QED BY <1>1 DEF CardEnds

(* ... and in the next.                                                     *)
LEMMA CardEndedNext == CardEnds'
  BY CardEnded, PTL

(* The next place after a bit, and how the card stands there.               *)
LEMMA CardNext ==
  ASSUME NEW o \in Ops, o.dev = "card", op' = o, NEW b \in 1..Len(o.bytes), NEW i \in 0..W - 1,
         pos' = IF i + 1 = W THEN At(b + 1, 0, 1) ELSE At(b, i + 1, 1),
         i + 1 # W => CardMid(o, b - 1, i + 1)', i + 1 = W => CardMid(o, b, 0)',
         p61' <=> o.mode = 3,
         i + 1 # W /\ ~p61' =>
           card'.dout = IF greeted' THEN <<Answer(o, b)', i + 1>> ELSE Released,
         i + 1 = W /\ b < Len(o.bytes) /\ ~p61' =>
           card'.dout = IF greeted' THEN <<Answer(o, b + 1)', 0>> ELSE Released
  PROVE  pos' \in Positions /\ Talking'
<1>1. o # NoOp /\ Len(o.bytes) \in Nat /\ b \in Nat /\ i \in Nat /\ i < W /\ i + 1 # 0
  BY Devices, Widths
<1>2. Folded(0) = 0 /\ 0 # W /\ 0 \in 0..W - 1
  BY Widths DEF Folded
<1>3. CASE i + 1 # W
  <2>1. i + 1 \in 0..W - 1 /\ Folded(i + 1) = i + 1
    BY <1>1, <1>3, Widths DEF Folded
  <2>2. pos' = At(b, i + 1, 1)
    BY <1>3
  <2>3. pos' \in Positions /\ pos'.byte = b /\ pos'.bit = i + 1 /\ pos'.half = 1
    BY <1>1, <2>1, <2>2, Placed
  <2>4. CardInBytes(o, b, i + 1, 1)'
    BY <1>3, <2>1 DEF CardInBytes
  <2>5. pos'.byte \in 1..Len(o.bytes) /\ pos'.half \in 1..2
    BY <2>3
  <2> QED BY <1>1, <2>3, <2>4, <2>5, Devices DEF Talking
<1>4. CASE i + 1 = W /\ b < Len(o.bytes)
  <2>1. pos' = At(b + 1, 0, 1)
    BY <1>4
  <2>2. pos' \in Positions /\ pos'.byte = b + 1 /\ pos'.bit = 0 /\ pos'.half = 1
    BY <1>1, <1>2, <2>1, Placed
  <2>3. (b + 1) - 1 = b /\ b + 1 \in 1..Len(o.bytes) /\ b + 1 # 0
    BY <1>1, <1>4
  <2>4. CardInBytes(o, b + 1, 0, 1)'
    BY <1>2, <1>4, <2>3 DEF CardInBytes
  <2>5. pos'.byte \in 1..Len(o.bytes) /\ pos'.half \in 1..2 /\ pos'.byte # 0
    BY <2>2, <2>3
  <2> QED BY <1>1, <2>2, <2>4, <2>5, Devices DEF Talking
<1>5. CASE i + 1 = W /\ ~(b < Len(o.bytes))
  <2>1. b = Len(o.bytes) /\ pos' = At(b + 1, 0, 1)
    BY <1>1, <1>5
  <2>2. /\ pos' \in Positions /\ pos'.byte = Len(o.bytes) + 1 /\ pos'.bit = 0 /\ pos'.half = 1
        /\ pos'.byte # 0
    BY <1>1, <1>2, <2>1, Placed
  <2>3. ~p60' /\ FlashQuiet(flash)' /\ flash'.shift.count = 0 /\ ~card'.card.app
    <3>1. CardMid(o, Len(o.bytes), 0)'
      BY <1>5, <2>1
    <3> QED BY <3>1, CardEndedNext DEF CardEnds
  <2>4. CardCloses'
    BY <2>2, <2>3 DEF CardCloses
  <2> QED BY <1>1, <2>2, <2>4, Devices DEF Talking
<1> QED BY <1>3, <1>4, <1>5

(* And the one amid a bit.                                                  *)
LEMMA CardHalf ==
  ASSUME NEW o \in Ops, o.dev = "card", op' = o, NEW b \in 1..Len(o.bytes), NEW i \in 0..W - 1,
         pos' = At(b, i, 2), CardInBytes(o, b, i, 2)'
  PROVE  pos' \in Positions /\ Talking'
<1>1. o # NoOp /\ b \in Nat
  BY Devices
<1>2. pos' \in Positions /\ pos'.byte = b /\ pos'.bit = i /\ pos'.half = 2
  BY <1>1, Placed
<1>3. pos'.byte \in 1..Len(o.bytes) /\ pos'.half \in 1..2 /\ pos'.byte # 0
  BY <1>2
<1> QED BY <1>1, <1>2, <1>3, Devices DEF Talking

(* The rising edges.                                                        *)
LEMMA CardRising ==
  ASSUME BusInv, PinMove, NEW o \in Ops, o = op, o.dev = "card", NEW b \in 1..Len(o.bytes),
         NEW i \in 0..W - 1, NEW h \in 1..2, h = (IF o.mode = 3 THEN 2 ELSE 1), pos = At(b, i, h)
  PROVE  BusInv'
<1>1. /\ CardInBytes(o, b, i, h) /\ armed \in {"no", "yes"} /\ o # NoOp
      /\ b \in Nat /\ b - 1 \in Nat /\ b - 1 < Len(o.bytes) /\ (b - 1) + 1 = b
      /\ i \in Nat /\ i < W /\ Len(o.bytes) \in Nat
  BY CardStands
<1> DEFINE k == b - 1
<1>2. i # W /\ Folded(i) = i
  BY <1>1 DEF Folded
<1>3. /\ CardMid(o, k, i) /\ ~p61
      /\ card.dout = IF greeted THEN <<Answer(o, k + 1), i>> ELSE Released
  BY <1>1, <1>2 DEF CardInBytes
<1>4. pos \in Positions /\ pos.byte = b /\ pos.bit = i /\ pos.half = h /\ b \in DOMAIN o.bytes
  <2>1. h \in 1..3 /\ b \in Nat /\ b \in DOMAIN o.bytes
    BY Devices
  <2>2. /\ At(b, i, h) \in Positions /\ At(b, i, h).byte = b /\ At(b, i, h).bit = i
        /\ At(b, i, h).half = h
    BY <2>1, Placed
  <2> QED BY <2>1, <2>2
<1>5. PICK di : di = [byte |-> o.bytes[b], at |-> i]
  OBVIOUS
<1>6. PICK up \in BOOLEAN : up = TRUE
  OBVIOUS
<1>7. /\ MovesAt(o, pos)[IF o.mode = 3 THEN 2 ELSE 1]
           = Move(61, TRUE, [byte |-> o.bytes[pos.byte], at |-> pos.bit], "before")
      /\ ~Ends(o, pos) /\ (pos.half = 1 => Then(o, pos) = At(pos.byte, pos.bit, 2))
      /\ pos.half = 2 => Then(o, pos) = IF pos.bit + 1 = W THEN At(pos.byte + 1, 0, 1)
                                        ELSE At(pos.byte, pos.bit + 1, 1)
  BY ZenonT(40), <1>4, CardBits
<1>8. MovesAt(op, pos)[pos.half] = Move(61, up, di, "before") /\ ~Ends(op, pos) /\ di.at = pos.bit
  BY <1>4, <1>5, <1>6, <1>7
<1>9. di.byte = o.bytes[k + 1] /\ pos.byte = k + 1 /\ k \in Nat /\ k < Len(o.bytes)
  BY <1>1, <1>4, <1>5
<1>10. op' = o /\ pos' = Then(o, pos)
  BY <1>7, Goes
<1> HIDE DEF k
<1>11. CardShows(o, up, di, k, i)
       => /\ i + 1 # W => CardMid(o, k, i + 1)'
          /\ i + 1 = W => CardMid(o, k + 1, 0)'
          /\ p61' = TRUE /\ (pos' \in Positions /\ Talking' => BusInv')
  <2>1. CardMid(o, k, i) /\ k \in Nat /\ k < Len(o.bytes) /\ armed \in {"no", "yes"}
    BY <1>1, <1>3, <1>9
  <2> QED BY <1>8, <2>1, CardGets
<1>12. /\ i + 1 # W => CardMid(o, b - 1, i + 1)'
       /\ i + 1 = W => CardMid(o, b, 0)'
       /\ p61' = TRUE /\ (pos' \in Positions /\ Talking' => BusInv')
  <2>1. CardShows(o, up, di, k, i)
    BY <1>3, <1>4, <1>6, <1>9 DEF CardShows
  <2> QED BY <1>1, <1>11, <2>1 DEF k
<1>13. CASE o.mode = 3
  <2>1. pos' = IF i + 1 = W THEN At(b + 1, 0, 1) ELSE At(b, i + 1, 1)
    BY <1>4, <1>7, <1>10, <1>13
  <2>2. p61' <=> o.mode = 3
    BY <1>12, <1>13
  <2> QED BY <1>10, <1>12, <2>1, <2>2, CardNext
<1>14. CASE o.mode # 3
  <2>1. pos' = At(b, i, 2)
    BY <1>4, <1>7, <1>10, <1>14
  <2>2. CardInBytes(o, b, i, 2)'
    <3>1. i + 1 # W => Folded(i + 1) = i + 1
      BY DEF Folded
    <3>2. Folded(W) = 0
      BY DEF Folded
    <3> QED BY <1>12, <1>14, <3>1, <3>2 DEF CardInBytes
  <2> QED BY <1>10, <1>12, <2>1, <2>2, CardHalf
<1> QED BY <1>13, <1>14

(* The falling edges.                                                       *)
LEMMA CardFalling ==
  ASSUME BusInv, PinMove, NEW o \in Ops, o = op, o.dev = "card", NEW b \in 1..Len(o.bytes),
         NEW i \in 0..W - 1, NEW h \in 1..2, h = (IF o.mode = 3 THEN 1 ELSE 2), pos = At(b, i, h)
  PROVE  BusInv'
<1>1. /\ CardInBytes(o, b, i, h) /\ armed \in {"no", "yes"} /\ o # NoOp
      /\ b \in Nat /\ b - 1 \in Nat /\ b - 1 < Len(o.bytes) /\ (b - 1) + 1 = b
      /\ i \in Nat /\ i < W /\ Len(o.bytes) \in Nat
  BY CardStands
<1> DEFINE n == IF o.mode = 3 THEN i ELSE i + 1
           k == IF n = W THEN b ELSE b - 1
<1>2. CardMid(o, k, Folded(n)) /\ p61
  BY <1>1 DEF CardInBytes
<1>3. k \in Nat /\ Folded(n) \in 0..W - 1 /\ Folded(i) = i /\ i # W
  BY <1>1, Widths DEF Folded
<1>4. pos \in Positions /\ pos.byte = b /\ pos.bit = i /\ pos.half = h /\ b \in DOMAIN o.bytes
  <2>1. h \in 1..3 /\ b \in Nat /\ b \in DOMAIN o.bytes
    BY Devices
  <2>2. /\ At(b, i, h) \in Positions /\ At(b, i, h).byte = b /\ At(b, i, h).bit = i
        /\ At(b, i, h).half = h
    BY <2>1, Placed
  <2> QED BY <2>1, <2>2
<1>5. PICK low \in BOOLEAN : low = FALSE
  OBVIOUS
<1>6. /\ MovesAt(o, pos)[IF o.mode = 3 THEN 1 ELSE 2] = Plain(61, FALSE)
      /\ ~Ends(o, pos) /\ (pos.half = 1 => Then(o, pos) = At(pos.byte, pos.bit, 2))
      /\ pos.half = 2 => Then(o, pos) = IF pos.bit + 1 = W THEN At(pos.byte + 1, 0, 1)
                                        ELSE At(pos.byte, pos.bit + 1, 1)
  BY ZenonT(40), <1>4, CardBits
<1>7. MovesAt(op, pos)[pos.half] = Plain(61, low) /\ ~Ends(op, pos)
  BY <1>4, <1>5, <1>6
<1>8. op' = o /\ pos' = Then(o, pos)
  BY <1>6, Goes
<1> HIDE DEF k, n
<1>9. low = FALSE /\ p61 =>
        /\ CardMid(o, k, Folded(n))' /\ p61' = FALSE
        /\ k < Len(o.bytes) =>
             card'.dout = IF greeted' THEN <<Answer(o, k + 1)', Folded(n)>> ELSE Released
        /\ pos' \in Positions /\ Talking' => BusInv'
  <2>1. CardMid(o, k, Folded(n)) /\ k \in Nat /\ Folded(n) \in 0..W - 1 /\ armed \in {"no", "yes"}
    BY <1>1, <1>2, <1>3
  <2> QED BY <1>7, <2>1, CardLets
<1>10. /\ CardMid(o, k, Folded(n))' /\ p61' = FALSE
       /\ k < Len(o.bytes) =>
            card'.dout = IF greeted' THEN <<Answer(o, k + 1)', Folded(n)>> ELSE Released
       /\ pos' \in Positions /\ Talking' => BusInv'
  BY <1>2, <1>5, <1>9
<1>11. CASE o.mode = 3
  <2>1. n = i /\ k = b - 1 /\ k < Len(o.bytes) /\ k + 1 = b
    BY <1>1, <1>3, <1>11 DEF n, k
  <2>2. pos' = At(b, i, 2)
    BY <1>4, <1>6, <1>8, <1>11
  <2>3. CardInBytes(o, b, i, 2)'
    BY <1>3, <1>10, <1>11, <2>1 DEF CardInBytes
  <2> QED BY <1>8, <1>10, <2>2, <2>3, CardHalf
<1>12. CASE o.mode # 3
  <2>1. n = i + 1 /\ k = IF i + 1 = W THEN b ELSE b - 1
    BY <1>12 DEF n, k
  <2>2. Folded(n) = IF i + 1 = W THEN 0 ELSE i + 1
    BY <2>1 DEF Folded
  <2>3. pos' = IF i + 1 = W THEN At(b + 1, 0, 1) ELSE At(b, i + 1, 1)
    BY <1>4, <1>6, <1>8, <1>12
  <2>4. i + 1 # W => /\ CardMid(o, b - 1, i + 1)'
                     /\ card'.dout = IF greeted' THEN <<Answer(o, b)', i + 1>> ELSE Released
    BY <1>1, <1>10, <2>1, <2>2
  <2>5. i + 1 = W => /\ CardMid(o, b, 0)'
                     /\ b < Len(o.bytes) =>
                          card'.dout = IF greeted' THEN <<Answer(o, b + 1)', 0>> ELSE Released
    BY <1>10, <2>1, <2>2
  <2>6. p61' <=> o.mode = 3
    BY <1>10, <1>12
  <2> QED BY <1>8, <1>10, <2>3, <2>4, <2>5, <2>6, CardNext
<1> QED BY <1>11, <1>12

(* The card released, and its clock left high.                              *)
LEMMA CardClosing ==
  ASSUME BusInv, PinMove, NEW o \in Ops, o = op, o.dev = "card", pos.byte \notin 0..Len(o.bytes)
  PROVE  BusInv'
<1>1. /\ TypeOK /\ Wires /\ Introduced /\ EnableOK /\ HoldsWhatWasWritten /\ AnswersInPlace
      /\ p60 \in BOOLEAN /\ p61 \in BOOLEAN /\ greeted \in BOOLEAN
      /\ flash \in Flashes /\ card \in Cards /\ cells \in Arrays /\ disk \in Disks
      /\ armed \in {"no", "yes", "using"} /\ pos \in Positions
      /\ bits \in Seq(Levels) /\ Len(bits) < W /\ got \in [n : Nat, byte : Codes]
      /\ flash.clk = p60 /\ flash.sel = ~p61 /\ card.clk = p61 /\ card.sel = ~p60
      /\ card.driven = greeted /\ card.card.spi = greeted
      /\ flash.image = cells /\ card.card.blocks = disk /\ card.card \in Protocols
      /\ flash.wel \in BOOLEAN
  BY Begins
<1>2. /\ o # NoOp /\ Len(o.bytes) \in Nat /\ pos.byte = Len(o.bytes) + 1 /\ pos.bit = 0
      /\ pos.half \in 1..2 /\ FlashQuiet(flash) /\ ~card.card.app
      /\ (pos.half = 1 => ~p60 /\ flash.shift.count = 0)
      /\ (pos.half = 2 => /\ p60 /\ CardQuiet(card) /\ card.count = 0
                          /\ p61 => flash.shift.count = 0)
  <2>1. o # NoOp /\ Len(o.bytes) \in Nat
    BY Devices
  <2> QED BY <2>1 DEF BusInv, Talking, CardCloses
<1>3. /\ MovesAt(o, pos)[1] = Plain(60, TRUE) /\ MovesAt(o, pos)[2] = Plain(61, TRUE)
      /\ (Ends(o, pos) <=> pos.half = 2)
      /\ (pos.half = 1 => Then(o, pos) = At(pos.byte, pos.bit, 2))
  BY <1>1, <1>2, CardPlaces
<1>4. armed # "using"
  BY <1>1 DEF EnableOK
<1>5. PICK up \in BOOLEAN : up = TRUE
  OBVIOUS
<1>6. 0 \in 0..W - 1
  BY Widths
<1>7. CASE pos.half = 1
  <2>1. MovesAt(op, pos)[pos.half] = Plain(60, up)
    BY <1>3, <1>5, <1>7
  <2>2. /\ p60' = up /\ p61' = p61
        /\ flash' = FlashSees(flash, p60', p61', Glue)
        /\ card' = CardSees(card, p61', p60', Glue)
        /\ UNCHANGED <<bits, got, cells, disk, greeted>>
        /\ armed' = IF Ends(op, pos) /\ armed = "using" THEN "no" ELSE armed
    BY <2>1, PlainMove
  <2>3. p60' = TRUE /\ armed' = armed /\ ~p60 /\ p60 = FALSE
    BY <1>1, <1>2, <1>4, <1>5, <1>7, <2>2
  <2>4. op' = o /\ pos' = At(Len(o.bytes) + 1, 0, 2)
    BY <1>2, <1>3, <1>7, Goes
  <2>5. pos' \in Positions /\ pos'.byte = Len(o.bytes) + 1 /\ pos'.bit = 0 /\ pos'.half = 2
    <3>1. Len(o.bytes) + 1 \in Nat
      BY <1>2
    <3> QED BY <1>6, <2>4, <3>1, Placed
  <2>6. /\ flash' \in Flashes /\ FlashQuiet(flash') /\ flash'.sel = ~p61 /\ flash'.clk = up
        /\ flash'.image = flash.image /\ (flash'.wel <=> flash.wel)
        /\ flash'.shift.count = IF flash.sel # ~p61 THEN 0
                                ELSE IF up /\ ~flash.clk /\ flash.sel THEN 1 ELSE flash.shift.count
    <3>1. flash.sel = ~p61 /\ flash.shift.count = 0 /\ FlashQuiet(flash)
      BY <1>1, <1>2, <1>7
    <3> DEFINE g == FlashSees(flash, up, p61, Glue)
    <3>2. /\ g \in Flashes /\ FlashQuiet(g) /\ g.sel = ~p61 /\ g.clk = up
          /\ g.image = flash.image /\ (g.wel <=> flash.wel)
          /\ g.shift.count = IF flash.sel # ~p61 THEN 0
                             ELSE IF up /\ ~flash.clk /\ flash.sel THEN 1 ELSE flash.shift.count
      BY <1>1, <3>1, QuietFlash
    <3>3. flash' = g
      BY <2>2
    <3> HIDE DEF g
    <3> QED BY <3>2, <3>3
  <2>7. FlashQuiet(flash)' /\ (p61 => flash'.shift.count = 0)
    BY <1>1, <1>2, <1>7, <2>6 DEF FlashQuiet
  <2> DEFINE x == CardSelect(card, FALSE)
  <2>8. /\ x \in Cards /\ x.sel = FALSE /\ x.clk = card.clk /\ x.driven = card.driven
        /\ x.count = 0 /\ x.shown = 0 /\ x.outByte = FF
        /\ x.dout = Released /\ x.card = Deselected(card.card)
    <3>1. PICK low \in BOOLEAN : low = FALSE
      OBVIOUS
    <3> DEFINE y == CardSelect(card, low)
    <3>2. card.sel # low
      BY <1>1, <2>3, <3>1
    <3>3. /\ y \in Cards /\ y.sel = low /\ y.clk = card.clk /\ y.driven = card.driven
          /\ y.count = 0 /\ y.shown = 0 /\ y.outByte = FF
          /\ y.dout = (IF low /\ card.driven THEN <<FF, 0>> ELSE Released)
          /\ y.card = (IF low THEN card.card ELSE Deselected(card.card))
      BY ZenonT(40), <1>1, <3>2, CardSelectMoves
    <3> QED BY <3>1, <3>3
  <2>9. card' = [x EXCEPT !.clk = p61]
    <3>1. card' = CardClock(x, p61, Glue)
      BY <1>5, <2>2 DEF CardSees
    <3> HIDE DEF x
    <3>2. x.clk = p61
      BY <1>1, <2>8
    <3>3. CardClock(x, p61, Glue) = [x EXCEPT !.clk = p61]
      BY <3>2, CardClockIdles
    <3> QED BY <3>1, <3>3
  <2> HIDE DEF x
  <2>10. /\ card' \in Cards /\ card'.sel = FALSE /\ card'.clk = p61 /\ card'.driven = card.driven
         /\ card'.count = 0
    BY <1>1, <2>8, <2>9 DEF Cards
  <2>11. /\ card'.shown = 0 /\ card'.outByte = FF /\ card'.dout = Released
         /\ card'.card = Deselected(card.card)
    BY <2>8, <2>9 DEF Cards
  <2>12. /\ CardIdle(card'.card) /\ ~card'.card.app /\ card'.card.spi = card.card.spi
         /\ card'.card.blocks = card.card.blocks
    <3> DEFINE d == Deselected(card.card)
    <3>1. /\ d \in Protocols /\ d.phase = "Command" /\ d.frame = <<>> /\ d.out = <<>>
          /\ d.pending = NoBlock /\ d.multiWrite = NoBlock /\ d.multiRead = NoBlock
          /\ d.app = card.card.app /\ d.spi = card.card.spi /\ d.blocks = card.card.blocks
      BY <1>1, Dropped
    <3>2. card'.card = d
      BY <2>11
    <3> HIDE DEF d
    <3> QED BY <1>2, <3>1, <3>2 DEF CardIdle
  <2>13. CardQuiet(card)'
    <3>1. 0 \in {0, 1}
      OBVIOUS
    <3> QED BY <2>10, <2>11, <2>12, <3>1 DEF CardQuiet, CardIdle
  <2>14. HoldsWhatWasWritten'
    BY <1>1, <2>2, <2>6, <2>12 DEF HoldsWhatWasWritten
  <2>15. TypeOK'
    BY <1>1, <2>2, <2>3, <2>4, <2>5, <2>6, <2>10, <2>14, TypesNext
  <2>16. Wires'
    BY <1>1, <1>5, <2>2, <2>3, <2>6, <2>10, <2>12 DEF Wires
  <2>17. Introduced' /\ AnswersInPlace'
    BY <1>1, <2>2, <2>3, <2>4 DEF Introduced, AnswersInPlace, Answer, Due
  <2>18. EnableOK'
    <3>1. flash'.phase \notin Writing /\ flash'.wel \in BOOLEAN
      BY <2>6 DEF FlashQuiet, Writing, Flashes
    <3> QED BY <1>1, <1>4, <2>3, <2>6, <3>1 DEF EnableOK
  <2>19. Talking'
    <3>1. CardCloses'
      <4>1. pos'.half \in 1..2 /\ pos'.half # 1
        BY <2>5
      <4>2. FlashQuiet(flash)' /\ ~card'.card.app /\ p60'
        BY <2>3, <2>7, <2>12
      <4>3. CardQuiet(card)' /\ card'.count = 0 /\ (p61' => flash'.shift.count = 0)
        BY <2>2, <2>7, <2>10, <2>13
      <4> QED BY <4>1, <4>2, <4>3 DEF CardCloses
    <3>2. pos'.byte # 0 /\ pos'.byte \notin 1..Len(o.bytes)
      BY <1>2, <2>5
    <3> QED BY <1>2, <2>4, <2>5, <3>1, <3>2, Devices DEF Talking
  <2> QED BY <2>14, <2>15, <2>16, <2>17, <2>18, <2>19 DEF BusInv
<1>8. CASE pos.half = 2
  <2> DEFINE pin == IF pos.half = 2 THEN 61 ELSE 60
  <2>1. MovesAt(op, pos)[pos.half] = Plain(pin, up) /\ pin \in {60, 61} /\ pin = 61
    BY <1>3, <1>5, <1>8
  <2> HIDE DEF pin
  <2>2. p60 /\ CardQuiet(card) /\ FlashQuiet(flash) /\ TypeOK /\ Wires /\ HoldsWhatWasWritten
    BY <1>1, <1>2, <1>8
  <2>3. /\ pin = 60 /\ up /\ ~p60 /\ ~p61 => flash.shift.count = 0
        /\ pin = 61 /\ up /\ ~p61 /\ ~p60 => card.count = 0
    BY <2>2
  <2>4. /\ p60' = (IF pin = 60 THEN up ELSE p60) /\ p61' = (IF pin = 61 THEN up ELSE p61)
        /\ flash' \in Flashes /\ card' \in Cards
        /\ FlashQuiet(flash)' /\ (flash'.wel <=> flash.wel) /\ flash'.phase = "Command"
        /\ flash'.shift.count = (IF p61' # p61 THEN 0
                                 ELSE IF p60' /\ ~p60 /\ ~p61 THEN 1 ELSE flash.shift.count)
        /\ CardQuiet(card)'
        /\ card'.count = (IF p60' # p60 THEN 0
                          ELSE IF p61' /\ ~p61 /\ ~p60 THEN 1 ELSE card.count)
        /\ Wires' /\ HoldsWhatWasWritten' /\ UNCHANGED <<bits, got, cells, disk, greeted>>
        /\ armed' = IF Ends(op, pos) /\ armed = "using" THEN "no" ELSE armed
    BY ZenonT(40), <2>1, <2>2, <2>3, QuietMove
  <2>5. /\ p60' = p60 /\ p61' = up
        /\ flash' \in Flashes /\ card' \in Cards
        /\ FlashQuiet(flash)' /\ (flash'.wel <=> flash.wel) /\ flash'.phase = "Command"
        /\ flash'.shift.count = (IF p61' # p61 THEN 0
                                 ELSE IF p60' /\ ~p60 /\ ~p61 THEN 1 ELSE flash.shift.count)
        /\ CardQuiet(card)'
        /\ card'.count = (IF p60' # p60 THEN 0
                          ELSE IF p61' /\ ~p61 /\ ~p60 THEN 1 ELSE card.count)
        /\ Wires' /\ HoldsWhatWasWritten' /\ UNCHANGED <<bits, got, cells, disk, greeted>>
        /\ armed' = IF Ends(op, pos) /\ armed = "using" THEN "no" ELSE armed
    BY <2>1, <2>4
  <2>6. op' = NoOp /\ pos' = At(0, 0, 1) /\ armed' = armed
    BY <1>3, <1>4, <1>8, <2>5, Goes
  <2>7. pos' \in Positions
    BY <1>6, <2>6, Placed
  <2>8. TypeOK'
    BY <1>1, <2>5, <2>6, <2>7, TypesNext
  <2>9. Introduced' /\ AnswersInPlace'
    BY <2>6 DEF Introduced, AnswersInPlace
  <2>10. EnableOK'
    <3>1. flash'.phase \notin Writing /\ flash'.wel \in BOOLEAN
      BY <2>5 DEF Writing, Flashes
    <3> QED BY <1>1, <1>4, <2>5, <2>6, <3>1 DEF EnableOK
  <2>11. Idling'
    <3>1. p61' /\ flash'.shift.count = 0 /\ card'.count = 0
      BY <1>1, <1>2, <1>5, <1>8, <2>5
    <3> QED BY <2>5, <3>1 DEF Idling
  <2>12. Talking'
    BY <2>6, <2>11 DEF Talking
  <2> QED BY <2>5, <2>8, <2>9, <2>10, <2>12 DEF BusInv
<1> QED BY <1>2, <1>7, <1>8

(* A place is its three numbers.                                            *)
LEMMA PlaceOf ==
  ASSUME NEW p \in Positions
  PROVE  p = At(p.byte, p.bit, p.half)
BY DEF Positions, At

(* A transaction begun: nothing has moved yet.                              *)
LEMMA StartKeeps ==
  ASSUME BusInv, NEW o \in Ops, Start(o)
  PROVE  BusInv'
<1>1. /\ TypeOK /\ Wires /\ EnableOK /\ HoldsWhatWasWritten
      /\ p60 \in BOOLEAN /\ p61 \in BOOLEAN /\ greeted \in BOOLEAN
      /\ flash \in Flashes /\ card \in Cards /\ armed \in {"no", "yes", "using"}
  BY Begins
<1>2. /\ op = NoOp /\ (o.dev = "card" /\ o.kind # "Greet" => greeted)
      /\ op' = o /\ pos' = At(0, 0, 1) /\ bits' = <<>> /\ got' = [n |-> 0, byte |-> FF]
      /\ UNCHANGED <<p60, p61, flash, card, cells, armed, disk, greeted>>
  BY DEF Start
<1>3. Idling /\ armed # "using"
  BY <1>1, <1>2 DEF BusInv, Talking, EnableOK
<1>4. pos' \in Positions /\ pos'.byte = 0 /\ pos'.half = 1
  <2>1. 0 \in 0..W - 1
    BY Widths
  <2> QED BY <1>2, <2>1, Placed
<1>5. Wires' /\ HoldsWhatWasWritten'
  BY <1>1, <1>2 DEF Wires, HoldsWhatWasWritten
<1>6. TypeOK'
  <2>1. bits' \in Seq(Levels) /\ Len(bits') = 0 /\ 0 < W
    BY <1>2, Widths
  <2>2. got' \in [n : Nat, byte : Codes]
    BY <1>2 DEF FF, Codes
  <2>3. op' \in Ops \cup {NoOp} /\ Len(bits') < W
    BY <1>2, <2>1
  <2>4. /\ p60' \in BOOLEAN /\ p61' \in BOOLEAN /\ greeted' \in BOOLEAN
        /\ flash' \in Flashes /\ card' \in Cards /\ armed' \in {"no", "yes", "using"}
    BY <1>1, <1>2
  <2> QED BY <1>4, <1>5, <2>1, <2>2, <2>3, <2>4, TypesNext
<1>7. Introduced'
  BY <1>2 DEF Introduced
<1>8. EnableOK'
  BY <1>1, <1>2, <1>3 DEF EnableOK
<1>9. AnswersInPlace'
  BY <1>2 DEF AnswersInPlace
<1>10. Talking'
  <2>1. FlashOpens'
    BY <1>2, <1>3, <1>4 DEF FlashOpens, Idling
  <2>2. CardOpens'
    BY <1>2, <1>3, <1>4 DEF CardOpens, Idling
  <2>3. op' # NoOp /\ pos'.byte \notin 1..Len(o.bytes) /\ pos'.byte \in 0..Len(o.bytes)
    BY <1>2, <1>4, Devices
  <2> QED BY <1>2, <1>4, <2>1, <2>2, <2>3 DEF Talking
<1> QED BY <1>5, <1>6, <1>7, <1>8, <1>9, <1>10 DEF BusInv

(* A transaction given up amid its bytes: it is where it would have closed. *)
LEMMA AbandonKeeps ==
  ASSUME BusInv, Abandon
  PROVE  BusInv'
<1>1. /\ TypeOK /\ Wires /\ Introduced /\ EnableOK /\ HoldsWhatWasWritten /\ AnswersInPlace
      /\ p60 \in BOOLEAN /\ p61 \in BOOLEAN /\ greeted \in BOOLEAN
      /\ flash \in Flashes /\ card \in Cards /\ armed \in {"no", "yes", "using"}
      /\ pos \in Positions
      /\ bits \in Seq(Levels) /\ Len(bits) < W /\ got \in [n : Nat, byte : Codes]
  BY Begins
<1>2. /\ op # NoOp /\ op.kind # "Ready" /\ pos.byte \in DOMAIN op.bytes /\ pos # At(1, 0, 1)
      /\ pos' = Shut(op)
      /\ UNCHANGED <<p60, p61, flash, card, op, bits, got, cells, armed, disk, greeted>>
  BY DEF Abandon
<1>3. PICK o \in Ops : o = op
  BY <1>1, <1>2, BusTypes
<1>4. /\ Len(o.bytes) \in Nat /\ pos.byte \in 1..Len(o.bytes) /\ pos.byte # 0
      /\ (o.dev = "flash" \/ o.dev = "card")
  BY <1>2, <1>3, Devices
<1>5. /\ pos' \in Positions /\ pos' = Shut(o) /\ pos'.byte = Len(o.bytes) + 1 /\ pos'.bit = 0
      /\ pos'.half = 1
  <2>1. Len(o.bytes) + 1 \in Nat /\ 0 \in 0..W - 1
    BY <1>4, Widths
  <2> QED BY <1>2, <1>3, <2>1, Placed DEF Shut
<1>6. pos.byte # 1 \/ pos.bit # 0 \/ pos.half # 1
  BY <1>1, <1>2, PlaceOf
<1>7. Wires' /\ HoldsWhatWasWritten'
  BY <1>1, <1>2 DEF Wires, HoldsWhatWasWritten
<1>8. TypeOK'
  BY <1>1, <1>2, <1>3, <1>5, <1>7, TypesNext
<1>9. Introduced' /\ EnableOK' /\ AnswersInPlace'
  BY <1>1, <1>2 DEF Introduced, EnableOK, AnswersInPlace, Answer, Due
<1>10. o.dev = "flash" => FlashCloses'
  <2> SUFFICES ASSUME o.dev = "flash" PROVE FlashCloses'
    OBVIOUS
  <2>1. FlashInBytes(o, pos.byte, pos.bit, pos.half)
    BY <1>2, <1>3, <1>4 DEF BusInv, Talking
  <2>2. ~p61 /\ CardQuiet(card) /\ card.count = 0
    BY <1>6, <2>1 DEF FlashInBytes
  <2> QED BY <1>2, <1>5, <2>2 DEF FlashCloses
<1>11. o.dev = "card" => CardCloses'
  <2> SUFFICES ASSUME o.dev = "card" PROVE CardCloses'
    OBVIOUS
  <2>1. CardInBytes(o, pos.byte, pos.bit, pos.half)
    BY <1>2, <1>3, <1>4 DEF BusInv, Talking
  <2>2. ~p60 /\ FlashQuiet(flash) /\ flash.shift.count = 0 /\ ~card.card.app
    BY <1>2, <1>3, <2>1 DEF CardInBytes, CardMid
  <2> QED BY <1>2, <1>5, <2>2 DEF CardCloses
<1>12. Talking'
  <2>1. op' = o /\ o # NoOp /\ pos'.byte # 0 /\ pos'.byte \notin 1..Len(o.bytes)
    BY <1>2, <1>3, <1>4, <1>5
  <2> QED BY <1>5, <1>10, <1>11, <2>1 DEF Talking
<1> QED BY <1>7, <1>8, <1>9, <1>12 DEF BusInv

(* Every edge, by the part it is for and where in its transaction it comes. *)
LEMMA MoveKeeps ==
  ASSUME BusInv, PinMove
  PROVE  BusInv'
<1>1. TypeOK /\ pos \in Positions /\ op # NoOp
  BY Begins, Goes
<1>2. PICK o \in Ops : o = op
  BY <1>1, BusTypes
<1>3. /\ Len(o.bytes) \in Nat /\ (o.dev = "flash" \/ o.dev = "card")
      /\ pos.byte \in Nat /\ pos.bit \in 0..W - 1 /\ pos.half \in 1..3
      /\ pos = At(pos.byte, pos.bit, pos.half)
  BY <1>1, <1>2, Devices, PlaceOf DEF Positions
<1>4. pos.byte = 0 \/ pos.byte \in 1..Len(o.bytes) \/ pos.byte \notin 0..Len(o.bytes)
  BY <1>3
<1>5. pos.byte \in 1..Len(o.bytes) => pos.half \in 1..2
  <2>1. Talking
    BY DEF BusInv
  <2> QED BY <1>1, <1>2, <1>3, <2>1 DEF Talking
<1>6. CASE o.dev = "flash"
  <2>1. CASE pos.byte = 0
    BY <1>2, <1>6, <2>1, FlashOpening
  <2>2. CASE pos.byte \in 1..Len(o.bytes)
    <3>1. pos.half = 1 \/ pos.half = 2
      BY <1>5, <2>2
    <3>2. CASE pos.half = 1
      BY <1>2, <1>3, <1>6, <2>2, <3>2, FlashSends
    <3>3. CASE pos.half = 2
      BY <1>2, <1>3, <1>6, <2>2, <3>3, FlashReads
    <3> QED BY <3>1, <3>2, <3>3
  <2>3. CASE pos.byte \notin 0..Len(o.bytes)
    BY <1>2, <1>6, <2>3, FlashClosing
  <2> QED BY <1>4, <2>1, <2>2, <2>3
<1>7. CASE o.dev = "card"
  <2>1. CASE pos.byte = 0
    BY <1>2, <1>7, <2>1, CardOpening
  <2>2. CASE pos.byte \in 1..Len(o.bytes)
    <3>1. \/ pos.half = IF o.mode = 3 THEN 2 ELSE 1
          \/ pos.half = IF o.mode = 3 THEN 1 ELSE 2
      BY <1>5, <2>2
    <3>2. CASE pos.half = IF o.mode = 3 THEN 2 ELSE 1
      BY <1>2, <1>3, <1>5, <1>7, <2>2, <3>2, CardRising
    <3>3. CASE pos.half = IF o.mode = 3 THEN 1 ELSE 2
      BY <1>2, <1>3, <1>5, <1>7, <2>2, <3>3, CardFalling
    <3> QED BY <3>1, <3>2, <3>3
  <2>3. CASE pos.byte \notin 0..Len(o.bytes)
    BY <1>2, <1>7, <2>3, CardClosing
  <2> QED BY <1>4, <2>1, <2>2, <2>3
<1> QED BY <1>3, <1>6, <1>7

(* Nothing has been said on a bus that was just powered.                    *)
LEMMA BusInitKeeps ==
  ASSUME BusInit
  PROVE  BusInv
<1>1. /\ FF \in Codes /\ "00" \in Codes /\ <<FF, 0>> \in Levels
      /\ 0 \in 0..W - 1 /\ 0 < W /\ NoBlock \in Nat \cup {NoBlock}
  <2>1. FF \in Codes /\ "00" \in Codes
    BY DEF FF, Codes
  <2> QED BY <2>1, Widths DEF Levels
<1>2. /\ p60 = TRUE /\ p61 = TRUE /\ op = NoOp /\ pos = At(0, 0, 1) /\ bits = <<>>
      /\ got = [n |-> 0, byte |-> FF] /\ cells = flash.image /\ disk = card.card.blocks
      /\ armed = "no" /\ greeted = FALSE
  BY DEF BusInit
<1>3. flash \in Flashes /\ FlashQuiet(flash) /\ flash.shift.count = 0 /\ ~flash.wel
      /\ flash.sel = FALSE /\ flash.clk = TRUE
  <2> DEFINE image == [a \in 0..Cells - 1 |-> FF]
             shift == [count |-> 0, whole |-> TRUE, out |-> FF, shown |-> 0, dout |-> <<FF, 0>>]
  <2>1. image \in Arrays
    BY <1>1 DEF Arrays
  <2>2. shift \in Shifters
    BY <1>1 DEF Shifters
  <2>3. flash = [sel |-> FALSE, clk |-> TRUE, phase |-> "Command", have |-> 0, at |-> 0,
                 loaded |-> FALSE, driving |-> FALSE, wel |-> FALSE, image |-> image,
                 shift |-> shift]
    BY DEF BusInit
  <2>4. shift.count = 0 /\ shift.shown = 0 /\ shift.out = FF
    OBVIOUS
  <2> HIDE DEF image, shift
  <2>5. flash \in Flashes
    BY <2>1, <2>2, <2>3 DEF Flashes
  <2>6. /\ flash.phase = "Command" /\ flash.have = 0 /\ ~flash.loaded /\ ~flash.driving
        /\ flash.shift = shift /\ ~flash.wel /\ flash.sel = FALSE /\ flash.clk = TRUE
    BY <2>3
  <2> QED BY <2>4, <2>5, <2>6 DEF FlashQuiet
<1>4. /\ card \in Cards /\ CardQuiet(card) /\ card.count = 0 /\ card.sel = FALSE
      /\ card.clk = TRUE /\ card.driven = FALSE /\ card.card.spi = FALSE
  <2> DEFINE blocks == [b \in 0..BlockCount - 1 |-> [i \in 1..BlockBytes |-> "00"]]
             c == card.card
  <2>1. blocks \in Disks
    BY <1>1 DEF Disks
  <2>2. c = [spi |-> FALSE, ready |-> FALSE, app |-> FALSE, phase |-> "Command", addr |-> 0,
             started |-> FALSE, pending |-> NoBlock, multiWrite |-> NoBlock,
             multiRead |-> NoBlock, out |-> <<>>, frame |-> <<>>, incoming |-> <<>>,
             blocks |-> blocks]
    BY DEF BusInit
  <2>3. <<>> \in Seq(Codes)
    OBVIOUS
  <2> HIDE DEF blocks, c
  <2>4. c \in Protocols
    BY <1>1, <2>1, <2>2, <2>3 DEF Protocols
  <2>5. CardIdle(c) /\ c.spi = FALSE
    BY <2>2 DEF CardIdle
  <2>6. card = [sel |-> FALSE, clk |-> TRUE, driven |-> FALSE, count |-> 0, whole |-> TRUE,
                outByte |-> FF, shown |-> 0, dout |-> Released, card |-> c]
    BY DEF BusInit, c
  <2>7. card \in Cards
    BY <1>1, <2>4, <2>6 DEF Cards
  <2>8. /\ card.outByte = FF /\ card.shown = 0 /\ card.count = 0 /\ card.dout = Released
        /\ card.card = c /\ card.sel = FALSE /\ card.clk = TRUE /\ card.driven = FALSE
    BY <2>6
  <2> QED BY <2>5, <2>7, <2>8 DEF CardQuiet
<1>5. HoldsWhatWasWritten
  BY <1>2 DEF HoldsWhatWasWritten
<1>6. TypeOK
  <2>1. cells \in Arrays /\ disk \in Disks
    BY <1>2, <1>3, <1>4 DEF Flashes, Cards, Protocols
  <2>2. pos \in Positions /\ bits \in Seq(Levels) /\ Len(bits) < W
    BY <1>1, <1>2, Placed
  <2>3. got \in [n : Nat, byte : Codes]
    BY <1>1, <1>2
  <2> QED BY <1>2, <1>3, <1>4, <2>1, <2>2, <2>3 DEF TypeOK, Positions
<1>7. Wires /\ Introduced /\ EnableOK /\ AnswersInPlace
  BY <1>2, <1>3, <1>4 DEF Wires, Introduced, EnableOK, AnswersInPlace
<1>8. Talking
  BY <1>2, <1>3, <1>4 DEF Talking, Idling
<1> QED BY <1>5, <1>6, <1>7, <1>8 DEF BusInv

(* Where nothing moves, nothing changes.                                    *)
LEMMA BusStutters == ASSUME BusInv, UNCHANGED busVars PROVE BusInv'
<1>1. UNCHANGED <<p60, p61, flash, card, op, pos, bits, got, cells, disk, armed, greeted>>
  BY DEF busVars
<1>2. TypeOK' /\ Wires' /\ Introduced' /\ EnableOK' /\ HoldsWhatWasWritten' /\ AnswersInPlace'
  BY <1>1 DEF BusInv, TypeOK, Wires, Introduced, EnableOK, HoldsWhatWasWritten, AnswersInPlace,
              Answer, Due
<1>3. Idling' /\ TRUE <=> Idling
  BY <1>1 DEF Idling
<1>4. Talking'
  <2> USE <1>1
  <2>1. (FlashOpens' <=> FlashOpens) /\ (FlashCloses' <=> FlashCloses)
        /\ (CardOpens' <=> CardOpens) /\ (CardCloses' <=> CardCloses)
    BY DEF FlashOpens, FlashCloses, CardOpens, CardCloses
  <2>2. ASSUME FlashInBytes(op, pos.byte, pos.bit, pos.half)
        PROVE  FlashInBytes(op, pos.byte, pos.bit, pos.half)'
    BY ZenonT(40), <2>2 DEF FlashInBytes, FlashAfter, Answer, Due
  <2>3. ASSUME CardInBytes(op, pos.byte, pos.bit, pos.half)
        PROVE  CardInBytes(op, pos.byte, pos.bit, pos.half)'
    <3>1. PICK o, b, i, h : o = op /\ b = pos.byte /\ i = pos.bit /\ h = pos.half
      OBVIOUS
    <3>2. ASSUME NEW k, NEW n, CardMid(o, k, n) PROVE CardMid(o, k, n)'
      <4>1. Answer(o, k + 1)' = Answer(o, k + 1)
        BY DEF Answer, Due
      <4> QED BY <3>2, <4>1 DEF CardMid
    <3>3. Answer(o, b)' = Answer(o, b)
      BY DEF Answer, Due
    <3>4. CardInBytes(o, b, i, h)
      BY <2>3, <3>1
    <3>5. CardInBytes(o, b, i, h)'
      BY <3>2, <3>3, <3>4 DEF CardInBytes
    <3> QED BY <3>1, <3>5
  <2> QED BY <1>3, <2>1, <2>2, <2>3 DEF BusInv, Talking
<1> QED BY <1>2, <1>4 DEF BusInv

(* The inductive invariant, for every set of transactions that keep to the   *)
(* protocols of the two parts.                                               *)
THEOREM BusAlways == BusSpec => []BusInv
<1>1. BusInit => BusInv
  BY BusInitKeeps
<1>2. BusInv /\ [BusNext]_busVars => BusInv'
  <2> SUFFICES ASSUME BusInv, [BusNext]_busVars PROVE BusInv'
    OBVIOUS
  <2>1. CASE \E o \in Ops : Start(o)
    BY <2>1, StartKeeps
  <2>2. CASE PinMove
    BY <2>2, MoveKeeps
  <2>3. CASE Abandon
    BY <2>3, AbandonKeeps
  <2>4. CASE UNCHANGED busVars
    BY <2>4, BusStutters
  <2> QED BY <2>1, <2>2, <2>3, <2>4 DEF BusNext
<1> QED BY <1>1, <1>2, PTL DEF BusSpec

(* The variables of the bus have their types: a shifter never counts past a *)
(* byte, the master never holds more than one byte's bits.                  *)
THEOREM BusTypesAlways == BusSpec => []TypeOK
<1>1. BusInv => TypeOK
  BY DEF BusInv
<1> QED BY <1>1, BusAlways, PTL

(* Every byte the master reads is the one the protocol promises at that place, *)
(* whatever was given up before it and whatever the other part was doing, for *)
(* any widths, sizes and transactions of the two parts.                     *)
THEOREM AnswersInPlaceAlways == BusSpec => []AnswersInPlace
<1>1. BusInv => AnswersInPlace
  BY DEF BusInv
<1> QED BY <1>1, BusAlways, PTL

(* The flash's array and the card's blocks are what the master may believe  *)
(* they are: nothing is stored half, twice, or by a write that was given up. *)
THEOREM HoldsWhatWasWrittenAlways == BusSpec => []HoldsWhatWasWritten
<1>1. BusInv => HoldsWhatWasWritten
  BY DEF BusInv
<1> QED BY <1>1, BusAlways, PTL

=============================================================================
