----------------------------- MODULE SharedBus -----------------------------
(***************************************************************************)
(* The boot flash and the SD card of a P2 module on the four pins they     *)
(* share (src/boards/src/ec32mb.rs: P60 is the flash's clock and the       *)
(* card's chip select, P61 the flash's chip select and the card's clock,   *)
(* P58 the data line of both), with a bit-banging master that runs one     *)
(* transaction after another and may give any of them up at any edge.      *)
(* The flash is spi_flash.rs over spi_shift.rs, the card sd_card.rs over   *)
(* the wire of sd_card_component.rs, the master that of                    *)
(* src/board/tests/shared_spi_bus.rs.                                      *)
(*                                                                         *)
(* A byte is an abstract value of W bits and a bit is <<byte, place>>.     *)
(* The widths (bits of a byte, bytes of an address, a command frame, a     *)
(* block and its check) are constants.                                     *)
(***************************************************************************)
EXTENDS Integers, Sequences

CONSTANTS W,             \* bits in a byte (8)
          AddressBytes,  \* bytes of a flash address (3)
          PageSize,      \* bytes a program wraps in (256)
          Cells,         \* bytes of the flash array
          FrameBytes,    \* bytes of a card command frame (6)
          BlockBytes,    \* bytes of a card block (512)
          CrcBytes,      \* bytes after a block (2)
          BlockCount,    \* blocks of the card's image
          Framed,        \* data bytes that look like the start of a frame
          Place,         \* the addresses that bytes spell
          Ops            \* the transactions the master may run

ASSUME BusAssumption ==
    /\ W \in Nat /\ W >= 2 /\ AddressBytes \in Nat \ {0} /\ PageSize \in Nat \ {0}
    /\ Cells \in Nat /\ FrameBytes \in Nat /\ FrameBytes >= 2 /\ BlockBytes \in Nat \ {0}
    /\ CrcBytes \in Nat \ {0} /\ BlockCount \in Nat
    /\ "FF" \notin Framed /\ Place \in [DOMAIN Place -> Nat]

VARIABLES p60, p61,       \* the levels of the two shared control pins
          flash, card,    \* the two parts
          op, pos,        \* the master's transaction and its next move
          bits, got,      \* the bits it is reading and the last byte it read
          cells, disk,    \* what it may believe the two parts hold
          armed, greeted  \* and of the write enable and the card's mode
busVars == <<p60, p61, flash, card, op, pos, bits, got, cells, disk, armed, greeted>>

NoBlock == -1
NoOp == [dev |-> "none", kind |-> "none"]
Released == <<>>                 \* no drive on the data line
FF == "FF"                       \* eight ones: idle, erased, filler
Glue == [byte |-> FF, at |-> W]  \* data-in at an edge that belongs to no byte

-----------------------------------------------------------------------------
(* The byte shifter of the flash.  `whole` says that the bits taken so far *)
(* are the first bits of one byte of the master's.                         *)

Begin(s, first) ==
    [s EXCEPT !.count = 0, !.whole = TRUE, !.out = first, !.shown = 0,
              !.dout = <<first, 0>>]

Rise(s, di) ==
    [s EXCEPT !.count = (@ + 1) % W, !.whole = (@ \/ s.count = 0) /\ di.at = s.count,
              !.dout = <<s.out, s.shown>>, !.shown = (@ + 1) % W]

\* What a register took on the edge that leaves it at s, if a byte is complete.
Taken(s, di) == IF s.whole THEN di.byte ELSE "astray"

-----------------------------------------------------------------------------
(* The flash.                                                              *)

And(x, y) == CASE x = FF -> y [] y \in {FF, x} -> x [] OTHER -> "00"

JedecId == <<"Maker", "Family", "Capacity">>

\* A byte the master never means as an address spells some address or other.
AddressOf(byte) == IF byte \in DOMAIN Place THEN Place[byte] ELSE 0

Outputs(phase) == phase \in {"Reading", "Status", "Jedec"}

\* next_out: the byte to shift out next, and the place it leaves the part at.
NextByte(f) ==
    CASE f.phase = "Status" -> IF f.wel THEN "Wel" ELSE "00"
      [] f.phase = "Jedec" -> IF f.at < Len(JedecId) THEN JedecId[f.at + 1] ELSE "00"
      [] f.phase = "Reading" -> IF f.at < Cells THEN f.image[f.at] ELSE FF
      [] OTHER -> FF

Onward(f) == IF f.phase \in {"Jedec", "Reading"} THEN [f EXCEPT !.at = @ + 1] ELSE f

DrivesDo(f) == f.sel /\ f.driving

FlashSelectFault(f, selected) ==   \* a write enable that outlives its program
    IF f.sel = selected THEN f
    ELSE [f EXCEPT !.sel = selected, !.phase = "Command", !.have = 0, !.loaded = FALSE,
                   !.driving = FALSE, !.shift = Begin(@, FF)]

FlashSelect(f, selected) ==
    IF f.sel = selected THEN f
    ELSE [f EXCEPT !.sel = selected,
                   !.wel = @ /\ (selected \/ f.phase \notin
                                 {"Programming", "ProgramAddress", "EraseAddress"}),
                   !.phase = "Command", !.have = 0, !.loaded = FALSE,
                   !.driving = FALSE, !.shift = Begin(@, FF)]

Instruction(f, byte) ==
    CASE byte = "Read"    -> [f EXCEPT !.phase = "Address"]
      [] byte = "Status"  -> [f EXCEPT !.phase = "Status"]
      [] byte = "Jedec"   -> [f EXCEPT !.phase = "Jedec", !.at = 0]
      [] byte = "Enable"  -> [f EXCEPT !.wel = TRUE]
      [] byte = "Disable" -> [f EXCEPT !.wel = FALSE]
      [] byte = "Program" -> [f EXCEPT !.phase = "ProgramAddress"]
      [] byte = "Erase"   -> [f EXCEPT !.phase = "EraseAddress"]
      [] OTHER -> f

Erased(f, at) ==
    LET page == at \div PageSize
    IN [f EXCEPT !.image = [a \in DOMAIN @ |-> IF a \div PageSize = page THEN FF ELSE @[a]],
                 !.wel = FALSE]

AddressTaken(f) ==
    CASE f.phase = "Address" -> [f EXCEPT !.phase = "Reading", !.have = 0]
      [] f.phase = "ProgramAddress" -> [f EXCEPT !.phase = "Programming", !.have = 0]
      [] OTHER -> [IF f.wel THEN Erased(f, f.at) ELSE f
                      EXCEPT !.phase = "Command", !.have = 0]

Programmed(f, byte) ==
    IF ~f.wel THEN f
    ELSE [f EXCEPT !.image = [a \in DOMAIN @ |-> IF a = f.at THEN And(@[a], byte) ELSE @[a]],
                   !.at = IF (@ + 1) \div PageSize # @ \div PageSize
                          THEN (@ \div PageSize) * PageSize ELSE @ + 1]

FlashConsumes(f, byte) ==
    CASE f.phase = "Command" -> Instruction(f, byte)
      [] f.phase \in {"Address", "ProgramAddress", "EraseAddress"} ->
           LET g == [f EXCEPT !.have = @ + 1, !.at = AddressOf(byte)]
           IN IF g.have = AddressBytes THEN AddressTaken(g) ELSE g
      [] f.phase = "Programming" -> Programmed(f, byte)
      [] OTHER -> f

FlashClock(f, high, di) ==
    IF ~f.sel \/ f.clk = high \/ ~high THEN [f EXCEPT !.clk = high]
    ELSE LET s == Rise(f.shift, di)
             g == [f EXCEPT !.clk = high, !.shift = s, !.driving = f.loaded]
             h == IF s.count = 0 THEN FlashConsumes(g, Taken(s, di)) ELSE g
         IN IF s.shown = 0
            THEN [Onward(h) EXCEPT !.loaded = Outputs(h.phase), !.shift.out = NextByte(h)]
            ELSE h

\* The part's answer to both of its pins.
FlashSees(f, clk, cs, di) == FlashClock(FlashSelect(f, ~cs), clk, di)

-----------------------------------------------------------------------------
(* The card: the protocol (sd_card.rs) under its wire.                     *)

Commands == {"CMD0", "CMD55", "CMD41", "CMD58", "CMD17", "CMD18", "CMD24", "CMD25",
             "CMD12"}
FrameStart(byte) == byte \in Commands \cup Framed

Queue(c, bytes) == [c EXCEPT !.out = @ \o bytes]

BlockOut(c, b) ==
    IF b >= BlockCount THEN <<"RangeError">>
    ELSE <<"FE">> \o c.blocks[b] \o [i \in 1..CrcBytes |-> FF]

DeselectedFault(c) ==   \* a released card that still waits for its block
    [c EXCEPT !.pending = NoBlock, !.multiWrite = NoBlock, !.multiRead = NoBlock,
              !.frame = <<>>]

Deselected(c) ==
    [c EXCEPT !.phase = "Command", !.pending = NoBlock, !.multiWrite = NoBlock,
              !.multiRead = NoBlock, !.incoming = <<>>, !.frame = <<>>, !.out = <<>>]

PeekMiso(c) ==
    IF c.phase = "Responding" /\ c.out # <<>> THEN Head(c.out) ELSE FF

Run(c, cmd, arg) ==
    LET d == [c EXCEPT !.app = FALSE] IN
    CASE c.app /\ cmd = "CMD41" -> Queue([d EXCEPT !.ready = TRUE], <<"R1">>)
      [] c.app /\ cmd # "CMD41" -> Queue(d, <<"R1">>)
      [] ~c.app /\ cmd = "CMD0" -> Queue([d EXCEPT !.spi = TRUE], <<"R1idle">>)
      [] ~c.app /\ cmd = "CMD55" -> Queue([d EXCEPT !.app = TRUE], <<"R1">>)
      [] ~c.app /\ cmd = "CMD58" -> Queue(d, <<"R1", "Ocr">>)
      [] ~c.app /\ cmd = "CMD17" -> Queue(d, <<"R1">> \o BlockOut(d, arg))
      [] ~c.app /\ cmd = "CMD18" -> Queue([d EXCEPT !.multiRead = arg], <<"R1">>)
      [] ~c.app /\ cmd = "CMD24" -> Queue([d EXCEPT !.pending = arg], <<"R1">>)
      [] ~c.app /\ cmd = "CMD25" -> Queue([d EXCEPT !.multiWrite = arg], <<"R1">>)
      [] ~c.app /\ cmd = "CMD12" ->
           Queue([d EXCEPT !.multiRead = NoBlock, !.multiWrite = NoBlock], <<"R1">>)
      [] OTHER -> Queue(d, <<"R1illegal">>)

CollectCommand(c, byte) ==
    LET frame == Append(c.frame, byte) IN
    IF c.frame = <<>> /\ ~FrameStart(byte) THEN c
    ELSE IF Len(frame) < FrameBytes THEN [c EXCEPT !.frame = frame]
    ELSE Run([c EXCEPT !.frame = <<>>], frame[1], AddressOf(frame[2]))

\* The Command arm: whatever the command queued is readable from the next byte.
InCommand(c, byte) ==
    LET d == CollectCommand([c EXCEPT !.phase = "Command"], byte)
    IN IF d.out = <<>> THEN d ELSE [d EXCEPT !.phase = "Responding"]

AfterResponding(c) ==
    CASE c.pending # NoBlock ->
           [c EXCEPT !.phase = "Receiving", !.addr = c.pending, !.started = FALSE,
                     !.pending = NoBlock]
      [] c.pending = NoBlock /\ c.multiWrite # NoBlock ->
           [c EXCEPT !.phase = "Receiving", !.addr = c.multiWrite, !.started = FALSE]
      [] c.pending = NoBlock /\ c.multiWrite = NoBlock /\ c.multiRead # NoBlock ->
           [c EXCEPT !.phase = "MultiRead", !.addr = c.multiRead]
      [] OTHER -> [c EXCEPT !.phase = "Command"]

BlockTaken(c) ==
    Queue([c EXCEPT !.blocks =
                        [b \in DOMAIN @ |-> IF b = c.addr
                                            THEN SubSeq(c.incoming, 1, BlockBytes) ELSE @[b]],
                    !.incoming = <<>>, !.phase = "Responding",
                    !.multiWrite = IF @ = NoBlock THEN NoBlock ELSE c.addr + 1],
          <<"Accepted", FF>>)

ReceiveBlockByte(c, byte) ==
    CASE ~c.started /\ c.multiWrite # NoBlock /\ byte = "FD" ->
           Queue([c EXCEPT !.multiWrite = NoBlock, !.incoming = <<>>, !.phase = "Responding"],
                 <<FF>>)
      [] ~c.started /\ (byte = "FE" \/ (c.multiWrite # NoBlock /\ byte = "FC")) ->
           [c EXCEPT !.incoming = <<>>, !.started = TRUE]
      [] c.started ->
           LET d == [c EXCEPT !.incoming = Append(@, byte)]
           IN IF Len(d.incoming) = BlockBytes + CrcBytes THEN BlockTaken(d) ELSE d
      [] OTHER -> c

MultiReadByte(c, byte) ==
    IF FrameStart(byte) THEN InCommand([c EXCEPT !.multiRead = NoBlock], byte)
    ELSE Queue([c EXCEPT !.multiRead = c.addr + 1, !.phase = "Responding"],
               BlockOut(c, c.addr))

Xfer(c, byte) ==
    CASE c.phase = "Responding" ->
           LET d == [c EXCEPT !.out = Tail(@)]
           IN IF d.out = <<>> THEN AfterResponding(d) ELSE d
      [] c.phase = "Receiving" -> ReceiveBlockByte(c, byte)
      [] c.phase = "MultiRead" -> MultiReadByte(c, byte)
      [] OTHER -> InCommand(c, byte)

\* drive_data_out: the card's bit, or the line released.
Present(w) ==
    [w EXCEPT !.dout = IF w.sel /\ w.driven THEN <<w.outByte, w.shown>> ELSE Released]

CardSelect(w, selected) ==
    IF w.sel = selected THEN w
    ELSE Present([w EXCEPT !.sel = selected, !.count = 0, !.whole = TRUE, !.shown = 0,
                           !.card = IF selected THEN @ ELSE Deselected(@),
                           !.outByte = FF])

CardClock(w, high, di) ==
    IF w.clk = high \/ ~w.sel THEN [w EXCEPT !.clk = high]
    ELSE IF ~high THEN Present([w EXCEPT !.clk = FALSE])
    ELSE LET v == [w EXCEPT !.clk = TRUE, !.count = (@ + 1) % W, !.shown = (@ + 1) % W,
                            !.whole = (@ \/ w.count = 0) /\ di.at = w.count]
             u == IF v.count = 0
                  THEN LET c == Xfer(w.card, Taken(v, di))
                       IN [v EXCEPT !.card = c, !.driven = c.spi]
                  ELSE v
         IN IF u.shown = 0 THEN [u EXCEPT !.outByte = PeekMiso(u.card)] ELSE u

CardSees(w, clk, cs, di) == CardClock(CardSelect(w, ~cs), clk, di)

-----------------------------------------------------------------------------
(* What is due.  A transaction is the bytes the master sends; at each place *)
(* the protocol has something due, which says what the byte sent is and     *)
(* what comes back.                                                         *)

Label(stage, cmd, arg, at) == [stage |-> stage, cmd |-> cmd, arg |-> arg, at |-> at]
Due(o, k) == o.due[k]
Rest == Label("idle", "none", 0, 0)

\* Flash: an instruction, its address, then data, which a program wraps in its page.
Target(o) == AddressOf(o.bytes[AddressBytes + 1])
InPage(a, n) == (a \div PageSize) * PageSize + ((a + n) % PageSize)

FlashDue(o, k) ==
    LET data == k - AddressBytes - 2 IN
    CASE k > 1 /\ o.kind = "Status" -> Label("wel", "none", 0, 0)
      [] k > 1 /\ o.kind = "Jedec" -> Label("id", "none", 0, k - 1)
      [] data >= 0 /\ o.kind = "Read" -> Label("cell", "none", 0, Target(o) + data)
      [] data >= 0 /\ o.kind = "Program" -> Label("program", "none", 0, InPage(Target(o), data))
      [] data = -1 /\ o.kind = "Erase" -> Label("erase", "none", 0, Target(o))
      [] OTHER -> Rest

FlashTransaction(o) ==
    /\ o.kind \in {"Enable", "Disable", "Status", "Jedec", "Read", "Program", "Erase"}
    /\ o.bytes[1] = o.kind
    /\ o.kind \in {"Enable", "Disable"} => Len(o.bytes) = 1
    /\ o.kind = "Erase" => Len(o.bytes) <= AddressBytes + 1
    /\ \A k \in DOMAIN o.bytes : o.due[k] = FlashDue(o, k)

\* Card: frames and their replies, and the blocks that some replies announce.
\* After l it waits for a frame, streams blocks out, or waits for a block.
AtRest(l) ==
    \/ l.stage \in {"idle", "ocr", "refused", "stopped"}
    \/ l.stage = "reply" /\ l.cmd \notin {"CMD17", "CMD18", "CMD24", "CMD25", "CMD58"}
    \/ l.stage = "check" /\ l.at = CrcBytes /\ l.cmd = "CMD17"
    \/ l.stage = "busy" /\ l.cmd = "CMD24"
Streams(l) == l.cmd = "CMD18" /\ (l.stage = "reply" \/ (l.stage = "check" /\ l.at = CrcBytes))
Awaits(l) ==
    \/ l.stage = "reply" /\ l.cmd \in {"CMD24", "CMD25"}
    \/ l.stage = "waiting"
    \/ l.stage = "busy" /\ l.cmd = "CMD25"

\* The block a stream or a wait is at.
BlockAt(l) == IF l.stage \in {"check", "busy"} THEN l.arg + 1 ELSE l.arg

Asks(l, m, byte) ==        \* a command frame, byte by byte, and its reply
    \/ /\ AtRest(l) \/ Streams(l)
       /\ m = Label("frame", byte, m.arg, 1) /\ m.arg \in Nat
       /\ byte \in Commands /\ (byte = "CMD41") = (l.cmd = "CMD55")
    \/ /\ l.stage = "frame" /\ l.at < FrameBytes
       /\ m = Label("frame", l.cmd, l.arg, l.at + 1)
       /\ m.at = 2 => AddressOf(byte) = l.arg
    \/ l.stage = "frame" /\ l.at = FrameBytes /\ m = Label("reply", l.cmd, l.arg, 0)
    \/ l.stage = "reply" /\ l.cmd = "CMD58" /\ m = Label("ocr", l.cmd, 0, 0)

Hears(l, m, byte) ==       \* a block read
    \/ Streams(l) /\ ~FrameStart(byte) /\ m = Label("gap", l.cmd, BlockAt(l), 0)
       /\ m.arg < BlockCount
    \/ l.stage = "reply" /\ l.cmd = "CMD17" /\ l.arg < BlockCount
       /\ m = Label("token", l.cmd, l.arg, 0)
    \/ l.stage = "reply" /\ l.cmd = "CMD17" /\ l.arg >= BlockCount
       /\ m = Label("refused", l.cmd, l.arg, 0)
    \/ l.stage = "gap" /\ m = Label("token", l.cmd, l.arg, 0)
    \/ l.stage \in {"token", "block"} /\ l.at < BlockBytes
       /\ m = Label("block", l.cmd, l.arg, l.at + 1)
    \/ l.stage = "block" /\ l.at = BlockBytes /\ m = Label("check", l.cmd, l.arg, 1)
    \/ l.stage = "check" /\ l.at < CrcBytes /\ m = Label("check", l.cmd, l.arg, l.at + 1)

Tells(l, m, byte) ==       \* a block written, or the end of many
    \/ Awaits(l) /\ byte \notin {"FE", "FC", "FD"} /\ m = Label("waiting", l.cmd, BlockAt(l), 0)
    \/ Awaits(l) /\ (byte = "FE" \/ (byte = "FC" /\ l.cmd = "CMD25"))
       /\ m = Label("start", l.cmd, BlockAt(l), 0)
    \/ Awaits(l) /\ byte = "FD" /\ l.cmd = "CMD25" /\ m = Label("stop", l.cmd, 0, 0)
    \/ l.stage \in {"start", "data"} /\ l.at < BlockBytes
       /\ m = Label("data", l.cmd, l.arg, l.at + 1)
    \/ l.stage = "data" /\ l.at = BlockBytes /\ m = Label("seal", l.cmd, l.arg, 1)
    \/ l.stage = "seal" /\ l.at < CrcBytes /\ m = Label("seal", l.cmd, l.arg, l.at + 1)
    \/ l.stage = "seal" /\ l.at = CrcBytes /\ m = Label("accepted", l.cmd, l.arg, 0)
    \/ l.stage = "accepted" /\ m = Label("busy", l.cmd, l.arg, 0)
    \/ l.stage = "stop" /\ m = Label("stopped", l.cmd, 0, 0)

Follows(l, m, byte) ==
    \/ AtRest(l) /\ byte = FF /\ m = Label("idle", l.cmd, 0, 0)
    \/ Asks(l, m, byte) \/ Hears(l, m, byte) \/ Tells(l, m, byte)

CardTransaction(o) ==
    LET n == Len(o.bytes) IN
    /\ o.mode \in {0, 3}
    /\ o.kind \notin {"Enable", "Disable", "Program", "Erase"}
    /\ \A k \in 1..n : Follows(IF k = 1 THEN Rest ELSE o.due[k - 1], o.due[k], o.bytes[k])
    /\ o.kind = "Greet" => o.bytes[1] = "CMD0"
    /\ o.kind # "Ready" => \A k \in 1..n : o.due[k].cmd # "CMD55"
    /\ o.kind = "Ready" => o.due[n].cmd # "CMD55" /\ o.due[n].stage # "frame"

Stages ==
    {"idle", "wel", "id", "cell", "program", "erase", "frame", "reply", "ocr", "refused", "gap",
     "token", "block", "check", "waiting", "start", "data", "seal", "accepted", "busy", "stop",
     "stopped"}
Labels == [stage : Stages, cmd : Commands \cup {"none"}, arg : Nat, at : Nat]

\* Every transaction keeps to the protocol of its part.
ASSUME Spoken ==
    \A o \in Ops :
        /\ o.bytes \in Seq(STRING) /\ o.bytes # <<>>
        /\ o.due \in Seq(Labels) /\ Len(o.due) = Len(o.bytes)
        /\ \/ o.dev = "flash" /\ FlashTransaction(o)
           \/ o.dev = "card" /\ CardTransaction(o)

-----------------------------------------------------------------------------
(* The master: a move names the pin, its new level, the bit on data-in, and *)
(* when the master reads data-out.                                          *)

Move(pin, high, di, reads) == [pin |-> pin, high |-> high, di |-> di, reads |-> reads]
Plain(pin, high) == Move(pin, high, Glue, "no")

BitMoves(o, byte, i) ==
    LET di == [byte |-> byte, at |-> i] IN
    CASE o.dev = "flash" -> <<Move(60, TRUE, di, "no"), Move(60, FALSE, Glue, "after")>>
      [] o.dev = "card" /\ o.mode = 3 -> <<Plain(61, FALSE), Move(61, TRUE, di, "before")>>
      [] OTHER -> <<Move(61, TRUE, di, "before"), Plain(61, FALSE)>>

Opening(o) ==
    IF o.dev = "flash" THEN <<Plain(60, FALSE), Plain(61, FALSE)>>
    ELSE <<Plain(60, TRUE), Plain(61, o.mode = 3), Plain(60, FALSE)>>
Closing(o) ==
    IF o.dev = "flash" THEN <<Plain(61, TRUE)>> ELSE <<Plain(60, TRUE), Plain(61, TRUE)>>

\* A place in a transaction: before its bytes, in one of them, or after.
At(byte, bit, half) == [byte |-> byte, bit |-> bit, half |-> half]
MovesAt(o, p) ==
    CASE p.byte = 0 -> Opening(o)
      [] p.byte \in DOMAIN o.bytes -> BitMoves(o, o.bytes[p.byte], p.bit)
      [] OTHER -> Closing(o)
Shut(o) == At(Len(o.bytes) + 1, 0, 1)
Ends(o, p) == p.byte > Len(o.bytes) /\ p.half = Len(Closing(o))
Then(o, p) ==
    CASE p.half < Len(MovesAt(o, p)) -> At(p.byte, p.bit, p.half + 1)
      [] p.half >= Len(MovesAt(o, p)) /\ p.byte # 0 /\ p.bit < W - 1 -> At(p.byte, p.bit + 1, 1)
      [] OTHER -> At(p.byte + 1, 0, 1)

LastBit(m) == m.di.at = W - 1

\* P58: the flash outranks the card, which reaches the line through R304, and
\* where neither drives the pull-up gives ones.
Line(f, w) ==
    LET bit == CASE DrivesDo(f) -> f.shift.dout
                 [] ~DrivesDo(f) /\ w.dout # Released -> w.dout
                 [] OTHER -> <<FF, 0>>
    IN IF bit[1] = FF THEN <<FF, Len(bits)>> ELSE bit

Assembled(s) ==
    IF \A i \in 1..W : s[i] = <<s[1][1], i - 1>> THEN s[1][1] ELSE "mixed"

Reads(m, f, w) ==
    IF m.reads = "no" THEN UNCHANGED <<bits, got>>
    ELSE LET s == Append(bits, IF m.reads = "before" THEN Line(flash, card) ELSE Line(f, w))
         IN IF Len(s) < W THEN bits' = s /\ UNCHANGED got
            ELSE bits' = <<>> /\ got' = [n |-> got.n + 1, byte |-> Assembled(s)]

-----------------------------------------------------------------------------
(* What the master may believe once byte k is out: the flash's cells and    *)
(* its write enable, the card's blocks, and that the card was ever greeted. *)

Believe(o, k) ==
    LET d == Due(o, k) IN
    /\ greeted' = (greeted \/ (d.stage = "frame" /\ d.cmd = "CMD0" /\ d.at = FrameBytes))
    /\ disk' = IF d.stage = "seal" /\ d.at = CrcBytes
               THEN [b \in DOMAIN disk |->
                       IF b = d.arg THEN [i \in 1..BlockBytes |->
                                            o.bytes[k - CrcBytes - BlockBytes + i]]
                       ELSE disk[b]]
               ELSE disk
    /\ armed' = CASE o.kind = "Enable" -> "yes"
                  [] o.kind = "Disable" -> "no"
                  [] o.kind \in {"Program", "Erase"} /\ armed = "yes" -> "using"
                  [] OTHER -> armed
    /\ cells' = [a \in DOMAIN cells |->
                   CASE armed = "using" /\ d.stage = "program" /\ a = d.at ->
                          And(cells[a], o.bytes[k])
                     [] armed = "using" /\ d.stage = "erase"
                        /\ a \div PageSize = d.at \div PageSize -> FF
                     [] OTHER -> cells[a]]

BusInit ==
    /\ p60 = TRUE /\ p61 = TRUE /\ op = NoOp /\ pos = At(0, 0, 1) /\ bits = <<>>
    /\ got = [n |-> 0, byte |-> FF]
    /\ flash = [sel |-> FALSE, clk |-> TRUE, phase |-> "Command", have |-> 0, at |-> 0,
                loaded |-> FALSE, driving |-> FALSE, wel |-> FALSE,
                image |-> [a \in 0..Cells - 1 |-> FF],
                shift |-> [count |-> 0, whole |-> TRUE, out |-> FF, shown |-> 0,
                           dout |-> <<FF, 0>>]]
    /\ card = [sel |-> FALSE, clk |-> TRUE, driven |-> FALSE, count |-> 0, whole |-> TRUE,
               outByte |-> FF, shown |-> 0, dout |-> Released,
               card |-> [spi |-> FALSE, ready |-> FALSE, app |-> FALSE, phase |-> "Command",
                         addr |-> 0, started |-> FALSE, pending |-> NoBlock,
                         multiWrite |-> NoBlock, multiRead |-> NoBlock, out |-> <<>>,
                         frame |-> <<>>, incoming |-> <<>>,
                         blocks |-> [b \in 0..BlockCount - 1 |->
                                       [i \in 1..BlockBytes |-> "00"]]]]
    /\ cells = flash.image /\ disk = card.card.blocks
    /\ armed = "no" /\ greeted = FALSE

\* The driver greets the card before it asks anything of it.
Start(o) ==
    /\ op = NoOp
    /\ (o.dev = "card" /\ o.kind # "Greet") => greeted
    /\ op' = o /\ pos' = At(0, 0, 1) /\ bits' = <<>> /\ got' = [n |-> 0, byte |-> FF]
    /\ UNCHANGED <<p60, p61, flash, card, cells, armed, disk, greeted>>

\* One pin moves, and both parts answer before the master goes on.
PinMove ==
    /\ op # NoOp
    /\ LET m == MovesAt(op, pos)[pos.half]
       IN /\ p60' = IF m.pin = 60 THEN m.high ELSE p60
          /\ p61' = IF m.pin = 61 THEN m.high ELSE p61
          /\ flash' = FlashSees(flash, p60', p61', m.di)
          /\ card' = CardSees(card, p61', p60', m.di)
          /\ Reads(m, flash', card')
          /\ IF LastBit(m) THEN Believe(op, pos.byte)
             ELSE /\ armed' = IF Ends(op, pos) /\ armed = "using" THEN "no" ELSE armed
                  /\ UNCHANGED <<cells, disk, greeted>>
    /\ IF Ends(op, pos) THEN op' = NoOp /\ pos' = At(0, 0, 1)
       ELSE op' = op /\ pos' = Then(op, pos)

\* The master gives up, at any edge after the first of its bits: it goes straight
\* to the closing moves.  (Eight selects in a row with no clock between them would
\* be a byte to the other part, on the board as here.)  The two halves of an
\* application command are one call of the driver's.
Abandon ==
    /\ op # NoOp
    /\ op.kind # "Ready"
    /\ pos.byte \in DOMAIN op.bytes /\ pos # At(1, 0, 1)
    /\ pos' = Shut(op)
    /\ UNCHANGED <<p60, p61, flash, card, op, bits, got, cells, armed, disk, greeted>>

BusNext == (\E o \in Ops : Start(o)) \/ PinMove \/ Abandon

BusSpec == BusInit /\ [][BusNext]_busVars

-----------------------------------------------------------------------------
(* Properties.                                                             *)

\* What a byte may be: what the master sends, what the parts answer or hold.
Codes ==
    {FF, "00", "Wel", "Maker", "Family", "Capacity", "R1", "R1idle", "R1illegal", "Ocr",
     "RangeError", "FE", "Accepted", "astray", "mixed"}
    \cup UNION {{o.bytes[k] : k \in DOMAIN o.bytes} : o \in Ops}
Levels == Codes \X Nat
Shifters == [count : 0..W - 1, shown : 0..W - 1, whole : BOOLEAN, out : Codes, dout : Levels]
Arrays == [0..Cells - 1 -> Codes]
Disks == [0..BlockCount - 1 -> [1..BlockBytes -> Codes]]
Flashes ==
    [sel : BOOLEAN, clk : BOOLEAN, have : Nat, at : Nat, loaded : BOOLEAN,
     driving : BOOLEAN, wel : BOOLEAN, image : Arrays, shift : Shifters,
     phase : {"Command", "Address", "ProgramAddress", "EraseAddress", "Reading",
              "Programming", "Status", "Jedec"}]
Protocols ==
    [spi : BOOLEAN, ready : BOOLEAN, app : BOOLEAN, addr : Nat, started : BOOLEAN,
     pending : Nat \cup {NoBlock}, multiWrite : Nat \cup {NoBlock},
     multiRead : Nat \cup {NoBlock}, out : Seq(Codes), frame : Seq(Codes),
     incoming : Seq(Codes), blocks : Disks,
     phase : {"Command", "Responding", "Receiving", "MultiRead"}]
Cards ==
    [sel : BOOLEAN, clk : BOOLEAN, driven : BOOLEAN, count : 0..W - 1, shown : 0..W - 1,
     whole : BOOLEAN, outByte : Codes, dout : Levels \cup {Released}, card : Protocols]

TypeOK ==
    /\ p60 \in BOOLEAN /\ p61 \in BOOLEAN /\ greeted \in BOOLEAN
    /\ flash \in Flashes /\ card \in Cards /\ cells \in Arrays /\ disk \in Disks
    /\ op \in Ops \cup {NoOp} /\ armed \in {"no", "yes", "using"}
    /\ pos \in [byte : Nat, bit : 0..W - 1, half : 1..3]
    /\ bits \in Seq(Levels) /\ Len(bits) < W /\ got \in [n : Nat, byte : Codes]

\* What the protocol promises as the k-th byte of a transaction.
Answer(o, k) ==
    LET d == Due(o, k) IN
    CASE d.stage = "cell" -> IF d.at < Cells THEN cells[d.at] ELSE FF
      [] d.stage = "wel" -> IF armed = "no" THEN "00" ELSE "Wel"
      [] d.stage = "id" -> IF d.at <= Len(JedecId) THEN JedecId[d.at] ELSE "00"
      [] d.stage = "reply" -> IF d.cmd = "CMD0" THEN "R1idle" ELSE "R1"
      [] d.stage = "ocr" -> "Ocr"
      [] d.stage = "refused" -> "RangeError"
      [] d.stage = "token" -> "FE"
      [] d.stage = "block" -> disk[d.arg][d.at]
      [] d.stage = "accepted" -> "Accepted"
      [] OTHER -> FF

\* Every byte the master reads is the byte the protocol promises at that place,
\* carrying what was last written: whatever was given up before it, the answer
\* is neither shifted by a bit nor swallowed as the rest of an older transfer,
\* and the part that is not spoken to, which sees an edge of its select or its
\* clock at every edge of the other's, leaves the shared line alone.
AnswersInPlace == (op # NoOp /\ got.n > 0) => got.byte = Answer(op, got.n)

\* A part holds what the master may believe it holds: a block is stored whole
\* once its last check byte is out and not before, and a cell changes only by a
\* program or an erase that had a write enable of its own.
HoldsWhatWasWritten == flash.image = cells /\ card.card.blocks = disk

=============================================================================
