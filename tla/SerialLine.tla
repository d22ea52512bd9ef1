----------------------------- MODULE SerialLine -----------------------------
(***************************************************************************)
(* A host program behind a PTY talks to a device over two wires.  Each end *)
(* is a SerialLevelBridge (board/src/serial_levels.rs), which frames bytes *)
(* into levels on a grid of wakes and takes them back with the decoder of  *)
(* board/src/uart.rs.  The host's end (board/src/host_pty.rs) has a pump   *)
(* thread of its own, outside virtual time, that moves bytes both ways and *)
(* may stop between any two of its locks; its line follows the rail it     *)
(* senses.  The device answers each byte with the byte.                    *)
(***************************************************************************)
EXTENDS Integers, Sequences

CONSTANTS
  Sent,        \* what the host may send: sequences of bytes, DataBits bits each
  DataBits,    \* data_bits, least significant first; one stop bit
  Period,      \* bit_period_ns of "host" and of "dev"
  QueueMax,    \* TX_QUEUE_MAX
  OutboundMax, \* OUTBOUND_MAX
  PtyRoom,     \* what the PTY holds for a host that does not read
  Races,       \* may power go while the pump is inside transmit?
  MaxCuts      \* bound: how often its supply goes

ASSUME SerialAssumption ==
  /\ DataBits \in Nat \ {0} /\ Sent \subseteq Seq([1..DataBits -> 0..1])
  /\ Period \in [{"host", "dev"} -> Nat \ {0}]
  /\ QueueMax \in Nat \ {0} /\ OutboundMax \in Nat /\ PtyRoom \in Nat \ {0}
  /\ Races \in BOOLEAN /\ MaxCuts \in Nat

VARIABLES
  tx,     \* TxState and output_enabled of each end
  rx,     \* UartDecoder of each end
  armed,  \* armed_ns of each end
  wheel,  \* the wakes on the engine's wheel: <<end, instant>>
  wire,   \* what each end's TX drives: 0, 1 or Open
  rail,   \* the host's rail: what was read of VIO and GND
  pump,   \* the pump thread: pc, the bytes it holds, the instant it arms
  host,   \* the program: sent, unsent, got; the PTY both ways; the outbound queue;
          \* what was dropped from it, and shed by transmit at either end
  engine, \* where the engine is in the host's service
  now, cuts

vars == <<tx, rx, armed, wheel, wire, rail, pump, host, engine, now, cuts>>

Ends == {"host", "dev"}
Far(x) == IF x = "host" THEN "dev" ELSE "host"
None == -1
Open == -1
Lesser(a, b) == IF a < b THEN a ELSE b

-----------------------------------------------------------------------------
(* Framing: uart.rs.                                                        *)

FrameBits == DataBits + 2
FrameNs(x) == FrameBits * Period[x]
StopSampled(x) == FrameNs(x) - Period[x] \div 2

Encode(byte) == <<0>> \o [i \in 1..DataBits |-> byte[i]] \o <<1>>

(* absorb_until: whole bits of the level held, to the nearest.              *)
Absorb(x, r, t) ==
  LET count == IF t < r.since THEN 0 ELSE (t - r.since + Period[x] \div 2) \div Period[x]
      room == FrameBits - 1 - Len(r.bits)
  IN  [r EXCEPT !.bits = @ \o [i \in 1..Lesser(count, room) |-> r.level], !.since = t]

Bad == <<>>                       \* BadStopBit

Assembled(bits) ==
  IF Len(bits) > DataBits /\ bits[DataBits + 1] = 0 THEN Bad
  ELSE [i \in 1..DataBits |-> IF i <= Len(bits) THEN bits[i] ELSE 0]

Good(frames) ==
  LET kept[i \in 0..Len(frames)] ==
        IF i = 0 THEN <<>>
        ELSE IF frames[i] = Bad THEN kept[i - 1] ELSE Append(kept[i - 1], frames[i])
  IN  kept[Len(frames)]

CloseFrame(x, r) ==
  LET a == Absorb(x, r, r.start + FrameNs(x))
  IN  [a EXCEPT !.done = Append(@, Assembled(a.bits)), !.start = None, !.bits = <<>>]

(* on_level: a frame ends in the middle of its stop bit, so that a sender   *)
(* that is a little fast keeps its next start bit.                          *)
OnLevel(x, r, level, t) ==
  LET closed == IF r.start # None /\ t >= r.start + StopSampled(x) THEN CloseFrame(x, r) ELSE r
      fresh == [closed EXCEPT !.level = level, !.since = t]
  IN  IF level = r.level THEN r
      ELSE IF closed.start # None THEN [Absorb(x, r, t) EXCEPT !.level = level]
      ELSE IF level = 0 THEN [fresh EXCEPT !.start = t, !.bits = <<>>, !.since = t + Period[x]]
      ELSE fresh

Poll(x, r, t) == IF r.start # None /\ t - r.start >= FrameNs(x) THEN CloseFrame(x, r) ELSE r

Deadline(x, r) == IF r.start = None THEN None ELSE r.start + FrameNs(x)

-----------------------------------------------------------------------------
(* The bridge: serial_levels.rs.                                            *)

TxIdle(s) == s.due = None /\ s.bits = <<>> /\ s.pending = <<>>

(* Rail::port: what a level of the host's is on its wire.                   *)
Port(x, level, rl) == IF x = "host" /\ (rl.vio # "on" \/ ~rl.gnd) THEN Open ELSE level

(* arm: one instant is remembered, so that it is asked for once.            *)
Arm(x, at) ==
  IF at = None \/ armed[x] = at THEN UNCHANGED <<armed, wheel>>
  ELSE armed' = [armed EXCEPT ![x] = at] /\ wheel' = wheel \cup {<<x, at>>}

(* What the device's step asks for: its own wake, then that of a transmit.  *)
ArmDevice(left, next, kick) ==
  /\ armed' = [armed EXCEPT !["dev"] = IF kick THEN now ELSE IF next # None THEN next
                                       ELSE IF @ # None /\ @ <= now THEN None ELSE @]
  /\ wheel' = left \cup (IF kick THEN {<<"dev", now>>} ELSE {})
                   \cup (IF next # None THEN {<<"dev", next>>} ELSE {})

(* service_tx at t: nothing due, the next frame, or the next bit of this    *)
(* one, on the frame's own grid; the level then driven, None if unmoved.    *)
ServiceTx(x, s, t) ==
  LET due == IF s.due = None THEN t ELSE s.due
      bits == IF s.bits = <<>> /\ s.pending # <<>> THEN Encode(Head(s.pending)) ELSE s.bits
      rest == IF s.bits = <<>> /\ s.pending # <<>> THEN Tail(s.pending) ELSE s.pending
  IN  IF ~s.enabled \/ s.due > t \/ (s.due = None /\ s.pending = <<>>)
      THEN [tx |-> s, level |-> None]
      ELSE IF bits = <<>> THEN [tx |-> [s EXCEPT !.due = None], level |-> 1]
      ELSE [tx |-> [s EXCEPT !.bits = Tail(bits), !.pending = rest, !.due = due + Period[x]],
            level |-> Head(bits)]

(* The earlier of what the two directions ask for.                          *)
NextWakeFault(x, s, r) ==                  \* nothing, unless both ask
  LET due == IF s.enabled THEN s.due ELSE None
  IN  IF None \in {due, Deadline(x, r)} THEN None ELSE Lesser(due, Deadline(x, r))
NextWake(x, s, r) ==
  LET asked == {IF s.enabled THEN s.due ELSE None, Deadline(x, r)} \ {None}
  IN  IF asked = {} THEN None ELSE CHOOSE t \in asked : \A u \in asked : t <= u

-----------------------------------------------------------------------------
(* The host's side of the PTY: host_pty.rs.                                 *)

(* drain_outbound: what the PTY takes; then the oldest beyond the limit go. *)
DrainFault(h, frames) ==                   \* the newest first
  LET queue == Good(frames) \o h.outbound
      written == Lesser(Len(queue), PtyRoom - Len(h.pty))
      kept == SubSeq(queue, written + 1, Len(queue))
      excess == IF Len(kept) > OutboundMax THEN Len(kept) - OutboundMax ELSE 0
  IN  [h EXCEPT !.pty = @ \o SubSeq(queue, 1, written),
                !.outbound = SubSeq(kept, excess + 1, Len(kept)), !.dropped = @ + excess]
Drain(h, frames) ==
  LET queue == h.outbound \o Good(frames)
      written == Lesser(Len(queue), PtyRoom - Len(h.pty))
      kept == SubSeq(queue, written + 1, Len(queue))
      excess == IF Len(kept) > OutboundMax THEN Len(kept) - OutboundMax ELSE 0
  IN  [h EXCEPT !.pty = @ \o SubSeq(queue, 1, written),
                !.outbound = SubSeq(kept, excess + 1, Len(kept)), !.dropped = @ + excess]

(* transmit: as many bytes as the queue has room for; the newest are shed,  *)
(* and counted here wherever that is.                                       *)
TxRoom(s) == QueueMax - Len(s.pending)
Accepted(s, bytes) == Lesser(Len(bytes), TxRoom(s))
Transmit(s, bytes) == [s EXCEPT !.pending = @ \o SubSeq(bytes, 1, Accepted(s, bytes))]
Shed(h, s, bytes)  == [h EXCEPT !.shed = @ + Len(bytes) - Accepted(s, bytes)]

(* The device answers what it takes from the wire, with s its transmitter.  *)
Answer(s, frames) == Transmit(s, Good(frames))

(* Frames taken from the wire: to the host, or answered by the device.      *)
Taken(x, r, s) ==
  /\ rx' = [rx EXCEPT ![x] = [r EXCEPT !.done = <<>>]]
  /\ host' = IF x = "host" THEN Drain(host, r.done) ELSE Shed(host, s, Good(r.done))

-----------------------------------------------------------------------------
(* The engine's thread.                                                     *)

Settled == \A x \in Ends : wire[x] = Open \/ wire[x] = rx[Far(x)].level
Turn == engine = "loop" /\ Settled

(* receive_sense: a level on the wire; one that cannot be read is none.     *)
Receive(x) ==
  LET r == OnLevel(x, rx[x], wire[Far(x)], now)
      polled == Poll(x, r, now)
      s == IF x = "dev" THEN Answer(tx[x], polled.done) ELSE tx[x]
  IN  /\ engine = "loop" /\ wire[Far(x)] \notin {Open, rx[x].level}
      /\ Taken(x, polled, tx[x])
      /\ tx' = [tx EXCEPT ![x] = s]
      /\ IF x = "dev" THEN ArmDevice(wheel, Deadline(x, polled), s # tx[x] /\ TxIdle(tx[x]))
         ELSE Arm(x, Deadline(x, polled))
      /\ UNCHANGED <<wire, rail, pump, engine, now, cuts>>

(* service of the device, all on the engine's thread.                       *)
ServeDevice ==
  /\ Turn /\ \E w \in wheel : /\ w[1] = "dev" /\ w[2] <= now
       /\ LET out == ServiceTx("dev", tx["dev"], now)
              polled == Poll("dev", rx["dev"], now)
              s == Answer(out.tx, polled.done)
          IN  /\ tx' = [tx EXCEPT !["dev"] = s] /\ Taken("dev", polled, out.tx)
              /\ wire' = IF out.level = None THEN wire ELSE [wire EXCEPT !["dev"] = out.level]
              /\ ArmDevice(wheel \ {w}, NextWake("dev", out.tx, polled),
                           TxIdle(out.tx) /\ s # out.tx)
  /\ UNCHANGED <<rail, pump, engine, now, cuts>>

(* service of the host's end: the slot, then the transmitter, then the      *)
(* receiver, with the pump's locks in between.                              *)
ServeHost ==
  /\ Turn /\ \E w \in wheel : w[1] = "host" /\ w[2] <= now /\ wheel' = wheel \ {w}
  /\ armed' = [armed EXCEPT !["host"] = IF @ # None /\ @ <= now THEN None ELSE @]
  /\ engine' = "tx"
  /\ UNCHANGED <<tx, rx, wire, rail, pump, host, now, cuts>>

ServeHostTx ==
  /\ engine = "tx" /\ engine' = "rx"
  /\ LET out == ServiceTx("host", tx["host"], now)
     IN  /\ tx' = [tx EXCEPT !["host"] = out.tx]
         /\ wire' = IF out.level = None THEN wire
                    ELSE [wire EXCEPT !["host"] = Port("host", out.level, rail)]
  /\ UNCHANGED <<rx, armed, wheel, rail, pump, host, now, cuts>>

ServeHostRx ==
  /\ engine = "rx" /\ engine' = "loop"
  /\ LET polled == Poll("host", rx["host"], now)
     IN  Taken("host", polled, tx["host"]) /\ Arm("host", NextWake("host", tx["host"], polled))
  /\ UNCHANGED <<tx, wire, rail, pump, now, cuts>>

(* A sense of VIO or GND: the output's enable, then the idle level.         *)
Sensed(rl) ==
  LET on == rl.vio = "on"
      s == IF on THEN [tx["host"] EXCEPT !.enabled = TRUE]
           ELSE [enabled |-> FALSE, pending |-> <<>>, bits |-> <<>>, due |-> None]
      idles == s.enabled # tx["host"].enabled \/ TxIdle(s)
  IN  /\ rail' = rl
      /\ tx' = [tx EXCEPT !["host"] = IF on = tx["host"].enabled THEN tx["host"] ELSE s]
      /\ wire' = IF idles THEN [wire EXCEPT !["host"] = Port("host", 1, rl)] ELSE wire
      /\ UNCHANGED <<rx, armed, wheel, pump, host, engine, now>>

SenseGnd == Turn /\ ~rail.gnd /\ Sensed([rail EXCEPT !.gnd = TRUE]) /\ UNCHANGED cuts
SenseVio == Turn /\ rail.vio # "on" /\ Sensed([rail EXCEPT !.vio = "on"]) /\ UNCHANGED cuts
CutVio ==
  /\ Turn /\ rail.vio = "on" /\ cuts < MaxCuts /\ cuts' = cuts + 1
  /\ Races \/ pump.pc # "append"
  /\ Sensed([rail EXCEPT !.vio = "off"])

Advance ==
  /\ Turn /\ wheel # {} /\ \A w \in wheel : w[2] > now
  /\ now' = CHOOSE t \in {w[2] : w \in wheel} : \A w \in wheel : t <= w[2]
  /\ UNCHANGED <<tx, rx, armed, wheel, wire, rail, pump, host, engine, cuts>>

-----------------------------------------------------------------------------
(* The pump thread, and the host's program.                                 *)

RailKnown == rail.vio # "unread" /\ rail.gnd

PumpDrain ==
  /\ pump.pc = "loop" /\ Drain(host, <<>>) # host /\ host' = Drain(host, <<>>)
  /\ UNCHANGED <<tx, rx, armed, wheel, wire, rail, pump, engine, now, cuts>>

(* As many bytes as the wire has room for, none before the rail is known.   *)
PumpRead ==
  LET room == IF RailKnown THEN TxRoom(tx["host"]) ELSE 0
      n == Lesser(room, Len(host.inbox))
  IN  /\ pump.pc = "loop" /\ n > 0
      /\ pump' = [pump EXCEPT !.pc = "check", !.bytes = SubSeq(host.inbox, 1, n)]
      /\ host' = [host EXCEPT !.inbox = SubSeq(@, n + 1, Len(@))]
      /\ UNCHANGED <<tx, rx, armed, wheel, wire, rail, engine, now, cuts>>

(* transmit: the enable without a lock, the queue under the transmitter's,  *)
(* then the wake that starts an idle line.                                  *)
PumpCheck ==
  /\ pump.pc = "check"
  /\ IF tx["host"].enabled
     THEN pump' = [pump EXCEPT !.pc = "append"] /\ UNCHANGED host
     ELSE /\ pump' = [pump EXCEPT !.pc = "loop", !.bytes = <<>>]
          /\ host' = [host EXCEPT !.shed = @ + Len(pump.bytes)]
  /\ UNCHANGED <<tx, rx, armed, wheel, wire, rail, engine, now, cuts>>

PumpAppend ==
  LET s == tx["host"]
      kick == TxIdle(s) /\ Accepted(s, pump.bytes) > 0
  IN  /\ pump.pc = "append"
      /\ tx' = [tx EXCEPT !["host"] = Transmit(s, pump.bytes)]
      /\ pump' = [pump EXCEPT !.pc = IF kick THEN "arm" ELSE "loop", !.bytes = <<>>]
      /\ host' = Shed(host, s, pump.bytes)
      /\ UNCHANGED <<rx, armed, wheel, wire, rail, engine, now, cuts>>

PumpArm ==
  /\ pump.pc = "arm"
  /\ IF armed["host"] = now THEN pump' = [pump EXCEPT !.pc = "loop"] /\ UNCHANGED armed
     ELSE /\ pump' = [pump EXCEPT !.pc = "schedule", !.at = now]
          /\ armed' = [armed EXCEPT !["host"] = now]
  /\ UNCHANGED <<tx, rx, wheel, wire, rail, host, engine, now, cuts>>

PumpSchedule ==
  /\ pump.pc = "schedule" /\ pump' = [pump EXCEPT !.pc = "loop", !.at = None]
  /\ wheel' = wheel \cup {<<"host", pump.at>>}
  /\ UNCHANGED <<tx, rx, armed, wire, rail, host, engine, now, cuts>>

HostWrites ==
  /\ host.unsent # <<>>
  /\ host' = [host EXCEPT !.inbox = Append(@, Head(host.unsent)), !.unsent = Tail(@)]
  /\ UNCHANGED <<tx, rx, armed, wheel, wire, rail, pump, engine, now, cuts>>

HostReads ==
  /\ host.pty # <<>>
  /\ host' = [host EXCEPT !.got = Append(@, Head(host.pty)), !.pty = Tail(@)]
  /\ UNCHANGED <<tx, rx, armed, wheel, wire, rail, pump, engine, now, cuts>>

-----------------------------------------------------------------------------

Init ==
  /\ \E s \in Sent :
       host = [sent |-> s, unsent |-> s, inbox |-> <<>>, outbound |-> <<>>, pty |-> <<>>,
               got |-> <<>>, dropped |-> 0, shed |-> 0]
  /\ tx = [x \in Ends |-> [enabled |-> x = "dev", pending |-> <<>>, bits |-> <<>>, due |-> None]]
  /\ rx = [x \in Ends |-> [level |-> 1, start |-> None, bits |-> <<>>, since |-> 0, done |-> <<>>]]
  /\ armed = [x \in Ends |-> None] /\ wheel = {}
  /\ wire = [x \in Ends |-> IF x = "dev" THEN 1 ELSE Open]
  /\ rail = [vio |-> "unread", gnd |-> FALSE]
  /\ pump = [pc |-> "loop", bytes |-> <<>>, at |-> None]
  /\ engine = "loop" /\ now = 0 /\ cuts = 0

Engine == (\E x \in Ends : Receive(x)) \/ ServeDevice \/ ServeHost \/ ServeHostTx \/ ServeHostRx
          \/ SenseGnd \/ SenseVio \/ Advance
Pump == PumpDrain \/ PumpRead \/ PumpCheck \/ PumpAppend \/ PumpArm \/ PumpSchedule

Next == Engine \/ Pump \/ CutVio \/ HostWrites \/ HostReads

Spec == Init /\ [][Next]_vars

-----------------------------------------------------------------------------
(* Properties.                                                              *)

(* The two clocks agree to half a bit of either over a frame: bits are      *)
(* counted to the nearest, and a frame ends in the middle of its stop bit.  *)
Tolerable ==
  \A x, y \in Ends : /\ FrameBits * (Period[x] - Period[y]) <= Period[x] \div 2
                     /\ FrameBits * (Period[x] - Period[y]) <= Period[y] \div 2

(* While its supply holds, what comes back to the host is what it sent, in  *)
(* its order, through two decoders whose clocks differ, unless it let the   *)
(* outbound queue run over.  Before any byte of it no more are missing than *)
(* transmit says it shed: at the device's end, when its own clock is the    *)
(* slower and the stream is long.                                           *)
Returned == host.got \o host.pty \o host.outbound
EchoInOrder ==
  cuts = 0 /\ host.dropped = 0 =>
    \E lost \in [1..Len(Returned) -> 0..host.shed] : \A i \in 1..Len(Returned) :
      /\ i + lost[i] <= Len(host.sent) /\ Returned[i] = host.sent[i + lost[i]]
      /\ i > 1 => lost[i - 1] <= lost[i]

(* A transmitter with something to send has its wake: the pump's kick and   *)
(* the engine's own wakes share one remembered instant and lose none.  Not  *)
(* once the pump may be held up between the two (Races = TRUE).             *)
NeverWedged ==
  \A x \in Ends :
    tx[x].enabled /\ ~TxIdle(tx[x]) /\ engine = "loop"
      /\ (x = "host" => pump.pc \notin {"arm", "schedule"}) =>
    \E w \in wheel : w[1] = x /\ w[2] <= (IF tx[x].due = None THEN now ELSE tx[x].due)

(* When nothing is left to do, a host that kept its supply and read has     *)
(* every byte back but for those that were shed: none is stuck on the way,  *)
(* whoever moved it last.                                                   *)
Still == /\ engine = "loop" /\ Settled /\ wheel = {} /\ RailKnown
         /\ pump.pc = "loop" /\ Drain(host, <<>>) = host
         /\ host.unsent = <<>> /\ host.pty = <<>>
         /\ (host.inbox = <<>> \/ TxRoom(tx["host"]) = 0)
EchoArrives ==
  Still /\ cuts = 0 /\ host.dropped = 0 => Len(host.got) + host.shed = Len(host.sent)

=============================================================================
