------------------------------ MODULE GuestRun ------------------------------
(***************************************************************************)
(* The guest of a Propeller 2 node: its program (target-p2/hostipc.c) runs *)
(* the cogs slice by slice and stops at each pad change, and the node      *)
(* (p2-qemu/src/lib.rs) publishes the change at the guest's own instant,   *)
(* follows the bank supplies and the crystal, and asks for its next wake.  *)
(* Both keep a record of what each pad's net was told; a pad drives what   *)
(* boards/src/p2.rs makes of its mode word and its bank's supply.  A turn  *)
(* is one request and one reply (LockstepChannel); the node's wakes and    *)
(* the package's senses come on the engine's thread, which waits for the   *)
(* reply, so they never fall inside a turn.                                *)
(***************************************************************************)
EXTENDS Integers, Sequences, FiniteSets

CONSTANTS
  Pads, Banks, BankOf,  \* the pads and the supply pin of each
  NumCogs,              \* the cogs, 0..NumCogs-1
  Volts,                \* what a supply pin may name, NoVolts apart
  Modes,                \* the mode words the guest writes
  Words,                \* the clock words the guest writes
  RcPeriod, XtalPeriod, \* nanoseconds of a clock on either source
  Quantum,              \* clocks a cog may retire in a slice
  Slice,                \* SLICE_NS
  Bounces,              \* may a supply move while a pad change waits?
  MaxTime,              \* bound: no wake is served at this instant or later
  MaxOps,               \* bound: the guest's instructions with an effect
  MaxEvents             \* bound: changes of a supply, of XI, and holds

ASSUME GuestAssumption ==
  /\ BankOf \in [Pads -> Banks] /\ NumCogs \in Nat \ {0} /\ Volts \subseteq Nat
  /\ Modes \subseteq {"fast", "weak", "float", "inverted"}
  /\ Words \subseteq {"rc", "warm", "xtal", "dead"}
  /\ RcPeriod \in Nat \ {0} /\ XtalPeriod \in Nat \ {0}
  /\ Quantum \in Nat \ {0} /\ Slice \in Nat \ {0}
  /\ Bounces \in BOOLEAN
  /\ MaxTime \in Nat /\ MaxOps \in Nat /\ MaxEvents \in Nat

VARIABLES
  ib,         \* the program: IpcBus, the cogs' clocks and the clock word
  turn,       \* ipc_run's locals while a turn is under way
  pc,         \* engine, turn (the guest runs), reply (its STOP is there)
  node,       \* the node: Pads
  volts,      \* BankSupplies.volts, as the package senses them
  xi, xiMode, \* the signal on XI and the mode the guest's word set
  core,       \* runs, or held: by the package, or for want of a program
  now, armed, \* the virtual clock and the wakes the node asked for
  ops, events \* the bounds' counters

package == <<volts, xi, xiMode>>
vars == <<ib, turn, pc, node, package, core, now, armed, ops, events>>

Cogs == 0..NumCogs - 1
None == -1
NoVolts == -1
Supplies == Volts \cup {NoVolts}
NoTurn == [horizon |-> 0, until |-> 0, from |-> 0, mid |-> FALSE, stepped |-> FALSE,
           last |-> 0, reason |-> {}]

-----------------------------------------------------------------------------
(* What a pad drives.                                                       *)

Released == [ohms |-> "none", volts |-> 0]
Max2(a, b) == IF a > b THEN a ELSE b
Least(S) == CHOOSE x \in S : \A y \in S : x <= y
Greatest(S) == CHOOSE x \in S : \A y \in S : y <= x

(* pad_output_level: OUT, or its inverse.                                   *)
Level(word, out) == IF word = "inverted" THEN 1 - out ELSE out

(* pad_drive and BankSupplies::pad_drive.                                   *)
PadDrive(word, dir, out, supply) ==
  IF dir = 0 \/ supply = NoVolts \/ word = "float" THEN Released
  ELSE [ohms  |-> IF word = "weak" THEN "weak" ELSE "fast",
        volts |-> IF Level(word, out) = 1 THEN supply ELSE 0]

(* drive_key: equal for two states exactly when their drives are, as far as *)
(* the two masks of a RUN tell the supplies apart.                          *)
DriveKey(word, dir, out, powered, high) ==
  IF dir = 0 \/ ~powered \/ word = "float" THEN [ohms |-> "none", up |-> FALSE]
  ELSE [ohms |-> IF word = "weak" THEN "weak" ELSE "fast",
        up   |-> Level(word, out) = 1 /\ high]

(* The OR over the cogs that the pad sees.                                  *)
Ored(reg, p) == IF \E c \in Cogs : reg[c][p] = 1 THEN 1 ELSE 0

GuestKey(b, p) ==
  DriveKey(b.mode[p], Ored(b.dir, p), Ored(b.out, p),
           BankOf[p] \in b.powered, BankOf[p] \in b.high)

NodeDrive(n, p) == PadDrive(n.mode[p], n.dir[p], n.out[p], volts[BankOf[p]])

-----------------------------------------------------------------------------
(* The guest's clock in nanoseconds.                                        *)

DerivesFromCrystal(w) == w \in {"xtal", "dead"}

(* clock_hz, as nanoseconds of a clock; 0 when the source does not run.  A  *)
(* "dead" word selects XI with its input off, "warm" RCFAST with it on.     *)
ClockPeriod(w, crystal) ==
  CASE w \in {"rc", "warm"} -> RcPeriod
    [] w = "xtal" -> crystal
    [] w = "dead" -> 0

(* crystal_of: a clipped sine crosses the thresholds of a fed-back XI only. *)
CrystalOf(signal, mode) ==
  IF signal = "square" \/ (signal = "sine" /\ mode = "fedback") THEN XtalPeriod ELSE 0

XiModeOf(w) == IF w \in {"warm", "xtal"} THEN "fedback" ELSE "plain"

ClocksToNs(segments, c) ==
  LET from == {i \in DOMAIN segments : segments[i].clocks <= c}
      s == segments[IF from = {} THEN 1 ELSE Greatest(from)]
  IN  (c - s.clocks) * s.period + s.ns

(* Bisection on the mapping between lo and hi, as the code does it when the *)
(* last segment's answer is not the one.                                    *)
Bisect(segments, h, top) ==
  LET f[lo \in 0..top, hi \in 0..top] ==
        IF lo >= hi THEN lo
        ELSE LET mid == lo + (hi - lo) \div 2
             IN  IF ClocksToNs(segments, mid) >= h THEN f[lo, mid] ELSE f[mid + 1, hi]
  IN  f[0, top]

NsToClocksCeil(segments, h) ==
  LET s == segments[Len(segments)]
      guess == IF h <= s.ns THEN s.clocks
               ELSE s.clocks + (h - s.ns + s.period - 1) \div s.period
      Reaches(c) == ClocksToNs(segments, c) >= h
      top == Least({t \in {Max2(guess, 1) * k : k \in {1, 2, 4, 8, 16}} : Reaches(t)})
  IN  IF Reaches(guess) /\ (guess = 0 \/ ~Reaches(guess - 1)) THEN guess
      ELSE Bisect(segments, h, top)

MachineNow(n) == ClocksToNs(n.segments, n.clocks)

-----------------------------------------------------------------------------
(* The program: the bus and the slice loop of hostipc.c.                    *)

(* machine_now_clocks: the least advanced running cog.                      *)
MachineClocks(b) ==
  IF b.running = {} THEN Greatest({b.clk[c] : c \in Cogs})
  ELSE Least({b.clk[c] : c \in b.running})

(* mark_changes and recompute_and_mark: the first change of a turn gives    *)
(* the turn its instant.                                                    *)
Marked(b, c) ==
  LET dirty == {p \in Pads : GuestKey(b, p) # b.pubKey[p]}
      first == dirty # {} /\ b.changeAt = None
  IN  [b EXCEPT !.dirty = dirty,
                !.changeAt = IF first THEN b.clk[c] ELSE @,
                !.yield = @ \/ first]

(* One instruction that writes a pad's registers, OUT before DIR.           *)
WritePad(b, c, p, dir, out) ==
  Marked([Marked([b EXCEPT !.out[c][p] = out], c) EXCEPT !.dir[c][p] = dir], c)

(* ipc_wrpin: a new mode is a pad change where the guest drives the pad.    *)
WrpinFault(b, c, p, word) ==               \* a mode is no change of a pad
  [b EXCEPT !.mode[p] = word, !.moved = IF b.mode[p] # word THEN @ \cup {p} ELSE @]
Wrpin(b, c, p, word) ==
  LET b1 == [b EXCEPT !.mode[p] = word,
                      !.moved = IF b.mode[p] # word THEN @ \cup {p} ELSE @]
  IN  IF Ored(b.dir, p) = 1 THEN Marked(b1, c) ELSE b1

(* take_banks: embsim republished the pads of a bank that moved, so they    *)
(* count as published with the key they have now.                           *)
TakeBanks(b, powered, high) ==
  LET b1 == [b EXCEPT !.powered = powered, !.high = high]
      moved == {k \in Banks : (k \in powered) # (k \in b.powered)
                              \/ (k \in high) # (k \in b.high)}
  IN  [b1 EXCEPT !.pubKey = [p \in Pads |->
         IF BankOf[p] \in moved THEN GuestKey(b1, p) ELSE b.pubKey[p]]]

(* The cog the pass comes to next; NumCogs at its end.                      *)
NextCog ==
  LET ready == {c \in turn.from..NumCogs - 1 : c \in ib.running /\ ib.clk[c] < turn.horizon}
  IN  IF ready = {} THEN NumCogs ELSE Least(ready)

(* What the instructions of one slice do, the last one apart only time:     *)
(* retire, write a pad or a mode, select a clock, fill the console, stop.   *)
Retire(b, c, n) == [b EXCEPT !.clk[c] = @ + n]
SelectClock(b, c, w) == [b EXCEPT !.word = w, !.wordAt = b.clk[c]]
StopCog(b, c) == [b EXCEPT !.running = @ \ {c}]
Effects(b, c) ==
       {WritePad(b, c, p, d, o) : p \in Pads, d \in 0..1, o \in 0..1}
  \cup {Wrpin(b, c, p, w) : p \in Pads, w \in Modes}
  \cup {SelectClock(b, c, w) : w \in Words}
  \cup {StopCog(b, c)}

(* Why ipc_run leaves the loop after a slice.                               *)
Reasons(b, console) ==
       (IF b.yield THEN {"yield"} ELSE {})
  \cup (IF b.word # b.reported THEN {"clock"} ELSE {})
  \cup (IF console THEN {"console"} ELSE {})

AfterSlice(b, c, console, stalled) ==
  LET why == Reasons(b, console) \cup (IF stalled THEN {"stall"} ELSE {})
  IN  /\ ib' = [b EXCEPT !.yield = FALSE, !.reported = b.word]
      /\ turn' = [turn EXCEPT !.from = c + 1, !.stepped = TRUE, !.reason = why, !.last = c]
      /\ pc' = IF why = {} THEN "turn" ELSE "reply"
      /\ UNCHANGED <<node, package, core, now, armed, events>>

RunSlice(c) ==
  /\ pc = "turn" /\ c = NextCog
  /\ \E n \in 1..Quantum :
       \/ AfterSlice(Retire(ib, c, n), c, FALSE, FALSE) /\ UNCHANGED ops
       \/ /\ ops < MaxOps /\ ops' = ops + 1
          /\ \/ \E b \in Effects(Retire(ib, c, n), c) : AfterSlice(b, c, FALSE, FALSE)
             \/ AfterSlice(Retire(ib, c, n), c, TRUE, FALSE)

(* A cog that retires nothing for STALL_SLICES slices.                      *)
StallSlice(c) ==
  /\ pc = "turn" /\ c = NextCog /\ ops < MaxOps /\ ops' = ops + 1
  /\ AfterSlice(ib, c, FALSE, TRUE)

(* The end of a pass over the cogs, and the check before the next one.      *)
EndPass ==
  /\ pc = "turn" /\ NextCog = NumCogs
  /\ LET why == IF ~turn.stepped /\ ~turn.mid THEN {"nostep"}
                ELSE IF MachineClocks(ib) >= turn.horizon THEN {"horizon"} ELSE {}
     IN  /\ turn' = [turn EXCEPT !.from = 0, !.mid = FALSE, !.stepped = FALSE, !.reason = why]
         /\ pc' = IF why = {} THEN "turn" ELSE "reply"
  /\ UNCHANGED <<ib, node, package, core, now, armed, ops, events>>

(* The STOP: what yielded counts as published from here.                    *)
Stopped(b) ==
  IF "yield" \in turn.reason
  THEN [b EXCEPT !.pubKey = [p \in Pads |-> IF p \in b.dirty THEN GuestKey(b, p) ELSE @[p]],
                 !.dirty = {}, !.changeAt = None, !.moved = {}]
  ELSE [b EXCEPT !.moved = {}]

-----------------------------------------------------------------------------
(* The node: what a wake does with the pads.                                *)

(* publish_pending: every changed pad on its net, at the drive of now.      *)
PublishPending(n) ==
  [n EXCEPT !.published = [p \in Pads |-> IF p \in n.dirty THEN NodeDrive(n, p) ELSE @[p]],
            !.dirty = {}, !.pendingAt = None]

(* follow_supplies: the pads of every bank whose supply moved.              *)
FollowSupplies(n) ==
  [n EXCEPT !.published = [p \in Pads |->
              IF volts[BankOf[p]] # n.bankBits[BankOf[p]] THEN NodeDrive(n, p) ELSE @[p]],
            !.bankBits = volts]

(* take_stop: the mirrors, and a pad change stamped with the segments as    *)
(* they stood when the guest made it.                                       *)
TakeStop(n) ==
  LET mirrored == [n EXCEPT
        !.dir = [p \in Pads |-> Ored(ib.dir, p)], !.out = [p \in Pads |-> Ored(ib.out, p)],
        !.mode = [p \in Pads |-> IF p \in ib.moved THEN ib.mode[p] ELSE @[p]],
        !.clocks = MachineClocks(ib), !.running = ib.running # {},
        !.replyWord = ib.word, !.replyAt = ib.wordAt]
  IN  IF "yield" \in turn.reason
      THEN [mirrored EXCEPT !.pendingAt = ClocksToNs(n.segments, ib.changeAt),
                            !.dirty = ib.dirty]
      ELSE mirrored

(* poll_clock_mode: a changed word is told to the package, which answers    *)
(* with the crystal it reads in the new mode.                               *)
PolledMode(n) == IF n.replyWord # n.word THEN XiModeOf(n.replyWord) ELSE xiMode

PollClockMode(n) ==
  LET moved == n.replyWord # n.word
      crystal == IF moved THEN CrystalOf(xi, PolledMode(n)) ELSE n.crystal
      seen == [n EXCEPT !.crystal = crystal, !.clocked = crystal]
      period == ClockPeriod(n.replyWord, crystal)
      at == IF moved THEN n.replyAt ELSE n.clocks
      from == IF n.stalled THEN now ELSE ClocksToNs(n.segments, at)
  IN  IF ~moved /\ (crystal = n.clocked \/ ~DerivesFromCrystal(n.replyWord)) THEN seen
      ELSE IF period = 0 THEN [seen EXCEPT !.word = n.replyWord, !.stalled = TRUE]
      ELSE [seen EXCEPT !.word = n.replyWord, !.stalled = FALSE,
              !.segments = Append(@, [clocks |-> at, ns |-> from, period |-> period])]

(* Node::run: the RUN that starts or goes on with a turn.                   *)
Powered(n) == {k \in Banks : n.bankBits[k] # NoVolts}
High(n) == {k \in Powered(n) : n.bankBits[k] # 0}

Run(n, start, until) ==
  LET horizon == NsToClocksCeil(n.segments, until)
      atHorizon == start = 0 /\ MachineClocks(ib) >= horizon
  IN  /\ turn' = [horizon |-> horizon, until |-> until, from |-> start, mid |-> start # 0,
                  stepped |-> FALSE, last |-> 0,
                  reason |-> IF atHorizon THEN {"horizon"} ELSE {}]
      /\ pc' = IF atHorizon THEN "reply" ELSE "turn"

(* A wake of the node: the package's gate has let it through.               *)
Woken == PollClockMode([node EXCEPT !.crystal = CrystalOf(xi, xiMode)])

Wake(rearm) ==
  /\ pc = "engine" /\ now \in armed /\ now < MaxTime /\ core = "runs"
  /\ xiMode' = PolledMode(node)
  /\ armed' = (armed \ {now}) \cup rearm
  /\ UNCHANGED <<volts, xi, core, now, ops, events>>

WakeStalls ==
  /\ Woken.stalled /\ Wake({})
  /\ node' = Woken
  /\ UNCHANGED <<ib, turn, pc>>

WakeWaits ==
  /\ ~Woken.stalled /\ Woken.pendingAt > now /\ Wake({Woken.pendingAt})
  /\ node' = Woken
  /\ UNCHANGED <<ib, turn, pc>>

WakePublishes ==
  /\ ~Woken.stalled /\ Woken.pendingAt \in 0..now /\ Wake({now + 1})
  /\ node' = PublishPending(Woken)
  /\ UNCHANGED <<ib, turn, pc>>

WakeRuns ==
  LET n == FollowSupplies(Woken)
  IN  /\ ~Woken.stalled /\ Woken.pendingAt = None /\ Wake({})
      /\ node' = n
      /\ ib' = TakeBanks(ib, Powered(n), High(n))
      /\ Run(n, 0, MachineNow(n) + Slice)

(* The rest of the wake, with the STOP there.                               *)
Folded == PollClockMode(TakeStop(node))

Reply(rearm) ==
  /\ pc = "reply" /\ armed' = armed \cup rearm
  /\ xiMode' = PolledMode(TakeStop(node))
  /\ UNCHANGED <<volts, xi, core, now, ops, events>>

Left == ib' = Stopped(ib) /\ turn' = NoTurn /\ pc' = "engine"

ReplyStalls ==
  /\ Folded.stalled /\ Reply({})
  /\ node' = Folded /\ Left

ReplyYieldsFault ==                        \* wakes at the horizon
  /\ ~Folded.stalled /\ "yield" \in turn.reason
  /\ IF Folded.pendingAt <= now
     THEN node' = PublishPending(Folded) /\ Reply({now + 1})
     ELSE node' = Folded /\ Reply({turn.until})
  /\ Left

ReplyYields ==
  /\ ~Folded.stalled /\ "yield" \in turn.reason
  /\ IF Folded.pendingAt <= now
     THEN node' = PublishPending(Folded) /\ Reply({now + 1})
     ELSE node' = Folded /\ Reply({Folded.pendingAt})
  /\ Left

ReplyGoesOn ==
  /\ ~Folded.stalled /\ "yield" \notin turn.reason
  /\ turn.reason \cap {"clock", "console"} # {} /\ Reply({})
  /\ node' = Folded
  /\ ib' = TakeBanks(Stopped(ib), Powered(node), High(node))
  /\ Run(Folded, (turn.last + 1) % NumCogs, turn.until)

ReplyEnds ==
  /\ ~Folded.stalled /\ turn.reason \cap {"yield", "clock", "console"} = {}
  /\ Reply(IF Folded.running THEN {Max2(MachineNow(Folded), now + 1)} ELSE {})
  /\ node' = Folded /\ Left

(* The program dies or does not answer: the core stops for good.            *)
ProgramFails ==
  /\ pc = "turn" /\ events < MaxEvents /\ events' = events + 1
  /\ core' = "held" /\ pc' = "engine" /\ turn' = NoTurn
  /\ UNCHANGED <<ib, node, package, now, armed, ops>>

-----------------------------------------------------------------------------
(* The engine's thread between the node's wakes.                            *)

Event == pc = "engine" /\ events < MaxEvents /\ events' = events + 1

(* A bank's supply sense delivers.                                          *)
SenseBank(k, v) ==
  /\ Event /\ (Bounces \/ node.pendingAt = None)
  /\ volts[k] # v /\ volts' = [volts EXCEPT ![k] = v]
  /\ UNCHANGED <<ib, turn, pc, node, xi, xiMode, core, now, armed, ops>>

(* XI's sense: a crystal that changes is told to the core, and wakes it if  *)
(* it is stalled.                                                           *)
SenseXiFault(signal) ==                    \* the next wake will see it
  /\ Event /\ xi # signal /\ xi' = signal
  /\ UNCHANGED <<ib, turn, pc, node, volts, xiMode, core, now, armed, ops>>

SenseXi(signal) ==
  /\ Event /\ xi # signal /\ xi' = signal
  /\ armed' = IF CrystalOf(xi, xiMode) # CrystalOf(signal, xiMode) /\ node.stalled
              THEN armed \cup {now + 1} ELSE armed
  /\ UNCHANGED <<ib, turn, pc, node, volts, xiMode, core, now, ops>>

(* P2Core::reset: held by the package, for good.                            *)
Hold ==
  /\ Event /\ core = "runs" /\ core' = "held"
  /\ UNCHANGED <<ib, turn, pc, node, package, now, armed, ops>>

(* A core that is held or gone ignores its wakes.                           *)
IgnoreWake ==
  /\ pc = "engine" /\ now \in armed /\ core # "runs" /\ armed' = armed \ {now}
  /\ UNCHANGED <<ib, turn, pc, node, package, core, now, ops, events>>

(* Time moves to an instant something is due at, never past a wake.         *)
Advance(t) ==
  /\ pc = "engine" /\ t \in now + 1..MaxTime /\ now \notin armed /\ \A a \in armed : t <= a
  /\ now' = t
  /\ UNCHANGED <<ib, turn, pc, node, package, core, armed, ops, events>>

-----------------------------------------------------------------------------

Init ==
  /\ volts \in [Banks -> Supplies] /\ xi \in {"none", "sine"} /\ xiMode = "plain"
  /\ ib = [dir |-> [c \in Cogs |-> [p \in Pads |-> 0]],
           out |-> [c \in Cogs |-> [p \in Pads |-> 0]],
           mode |-> [p \in Pads |-> "fast"], moved |-> {},
           powered |-> {}, high |-> {}, pubKey |-> [p \in Pads |-> [ohms |-> "none", up |-> FALSE]],
           dirty |-> {}, changeAt |-> None, yield |-> FALSE,
           clk |-> [c \in Cogs |-> 0], running |-> Cogs,
           word |-> "rc", wordAt |-> 0, reported |-> "rc"]
  /\ node = [dir |-> [p \in Pads |-> 0], out |-> [p \in Pads |-> 0],
             mode |-> [p \in Pads |-> "fast"], clocks |-> 0, running |-> TRUE,
             replyWord |-> "rc", replyAt |-> 0,
             published |-> [p \in Pads |-> Released], dirty |-> {}, pendingAt |-> None,
             bankBits |-> [k \in Banks |-> NoVolts],
             crystal |-> 0, clocked |-> 0, word |-> "rc", stalled |-> FALSE,
             segments |-> <<[clocks |-> 0, ns |-> 0, period |-> RcPeriod]>>]
  /\ turn = NoTurn /\ pc = "engine" /\ core = "runs"
  /\ now = 0 /\ armed = {1} /\ ops = 0 /\ events = 0

Turn == \/ \E c \in Cogs : RunSlice(c) \/ StallSlice(c)
        \/ EndPass \/ ReplyStalls \/ ReplyYields \/ ReplyGoesOn \/ ReplyEnds \/ ProgramFails

NodeWake == WakeStalls \/ WakeWaits \/ WakePublishes \/ WakeRuns \/ IgnoreWake

Next ==
  \/ Turn \/ NodeWake
  \/ \E k \in Banks, v \in Supplies : SenseBank(k, v)
  \/ \E signal \in {"none", "sine", "square"} : SenseXi(signal)
  \/ Hold
  \/ \E t \in 1..MaxTime : Advance(t)

Spec == Init /\ [][Next]_vars

-----------------------------------------------------------------------------
(* Properties.                                                              *)

(* Whenever the guest runs, the pads it has still to report are exactly     *)
(* those whose net does not carry what it now drives: no change of a pad is *)
(* lost or reported twice.                                                  *)
NothingLost ==
  pc = "turn" =>
    ib.dirty = {p \in Pads : node.published[p] #
      PadDrive(ib.mode[p], Ored(ib.dir, p), Ored(ib.out, p), volts[BankOf[p]])}

(* A change of a pad waits for its own instant and not past it, with a wake *)
(* on its way, unless the guest's clock has stalled.                        *)
OnItsInstant ==
  (pc = "engine" /\ core = "runs" /\ ~node.stalled /\ node.pendingAt # None) =>
    /\ now <= node.pendingAt
    /\ \E w \in armed : w <= node.pendingAt

(* A guest that could run has a wake on its way: one stalled for want of a  *)
(* crystal gets it with the crystal, whatever the order of the two.         *)
NeverStranded ==
  (pc = "engine" /\ core = "runs" /\ ib.running # {}) =>
    \/ armed # {}
    \/ node.stalled /\ ClockPeriod(node.word, CrystalOf(xi, xiMode)) = 0

(* The guest's instants never go back: what ns_to_clocks_ceil says of       *)
(* clocks_to_ns.  Not once slices are a few clocks long and the clock mode  *)
(* changes inside one (Slice = 3).                                          *)
NeverDecreases ==
  \A c \in 1..Greatest({ib.clk[k] : k \in Cogs}) :
    ClocksToNs(node.segments, c - 1) <= ClocksToNs(node.segments, c)

=============================================================================
