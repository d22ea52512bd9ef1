# embsim in TLA+

A verification project for embsim, the software-in-the-loop simulator for
embedded boards. The specifications are translated from the source, one module
per component; TLC checks them on small instances, and TLAPS proves the results
that hold for every value of the constants. `PROJECT.json` lists the
components, the runs, the mutants that show each property can fail, the source
lines behind every definition, the hazards and the theorems.

    tlc -workers 2 -config Wheel.cfg EngineWheel     # one run
    tlapm NetEngineProofs.tla                         # one proof module

Contents: [the system](#1-the-system) ·
[inventory](#2-inventory) · [modules](#3-modules-and-the-code) ·
[runs](#4-what-the-runs-show) · [fairness](#5-fairness) ·
[proofs](#6-what-is-proved) · [disagreements](#7-disagreements-found) ·
[limits](#8-what-is-not-modelled) · [plan](#9-plan)

## 1. The system

embsim runs boards, described by their netlists, in one process: every part is
a component with pins, the nets between pins are resolved as small circuits,
and virtual time is one nanosecond counter that moves from instant to instant
and never by itself. The pieces that carry the logic everything else relies on:

    guest threads (actors)            parts (callbacks)          P2 core
        |  wait_until / charge            ^        |           (qemu-system-p2)
        v                          senses |        | drives,        ^
    virtual clock <---- authority -- net engine <--+ wakes     RUN | STOP
    core/virtual_clock.rs            board/engine.rs           p2-qemu/peer.rs
                                          ^   timed faults          |
                                          +---- P2 package ---------+
                                                START gate, boards/p2.rs

* The **virtual clock** parks registered actors until an instant. It moves when
  every actor is parked: by the holder of a `TimeAuthority`, or, with no
  holder, by the last thread to park.
* The **net engine** is one thread. It holds the authority, drains a control
  queue (requests for wakes) and a data queue (drives and commands), applies
  drives to nets, calls sense callbacks, fires a timer wheel, and moves the
  clock to the next instant when nothing is left to do at this one.
* Any thread, and any callback on the engine's own thread, may **publish a
  drive** or **ask for a wake** at any moment. These are calls that return
  before they take effect.
* The **P2 package** holds a core behind its reset: it watches RESN, VDD and
  the supplies of its banks, starts the core a fixed delay after its release
  and passes on its wakes.
* The core of that package is another **process**, QEMU, with which its node
  takes turns over a page of shared memory. The node publishes what the guest's
  pads drive and tells it what its supplies and its crystal do.
* The engine's **resolver** makes one state of every net out of the drives on
  it, the resistors and capacitors between nets and the faults in force, and
  tells the parts that sense it.
* The **parts** of a board are callbacks on the engine's thread with state of
  their own: supplies and detectors that feed the package, serial bridges to
  programs of the host, a flash and a card on one bus, a motor with its encoder
  and its end switch. An **assembly** hosts several of them as one.

## 2. Inventory

State, operations and what makes each part correct. "Hard" names what a test
does not reach easily.

### Virtual clock (`core/src/virtual_clock.rs`): modelled
* State: `now`, `epoch`, the registry of actors and which of them are parked,
  the count `running`, the pending waits, the number of authorities, each
  actor's slice of HAL work.
* Operations: register and drop an actor, wait until an instant, charge HAL
  work, take and drop an authority, await quiescence, advance, initialise again.
* Hard: the idle jump is decided under the lock and made after it; the condition
  variables are notified after unlocking; actors register and leave at any time;
  a restart clears the waits of threads still asleep.
* Correct when: the count is exact, and, until a holder has given the barrier up,
  time moves only with nobody running and never past a deadline and a sleeper
  returns at its own instant; nobody sleeps for ever.

### Net engine, drive plane (`board/src/engine.rs`, `component.rs`): modelled
* State: the shared counter of drive numbers, the data queue, the drives that
  came early, the next number to apply, the gap being watched.
* Operations: take a number, send, buffer, apply in order, call back (which may
  drive again), watch and skip a gap, shut down.
* Hard: number and send are two steps of any thread, so sends cross, and a thread
  may end in between.
* Correct when: drives take effect once each, in the order of their numbers; only
  a dead sender's number is skipped; every drive that was sent takes effect, but
  for those behind a dead sender's number while the engine is never idle.

### Net engine, timed level faults (`engine.rs`, `system.rs`): modelled
* State: each pin's slot, each fault's count of edges and whether its source is on.
* Operations: install, count a drive, hide it, hold or release the net.
* Hard: several windows on one net, half-open bounds, saturation at `u64::MAX`.
* Correct when: a stuck source and the drives it replaces are never on together,
  a pin is hidden for exactly its window, and nothing is left behind afterwards.

### Net engine, timer wheel (`engine.rs`, `net.rs`): modelled
* State: the entries by deadline and sequence, the set of armed wakes, each
  slot's running train.
* Operations: arm a one-shot, a chain or a train's completion; fire; re-arm.
* Hard: requests are dropped when a key says they are served already; one-shots,
  chains and trains meet at an instant; a replaced train leaves its entry.
* Correct when: every wake asked for is delivered at its instant and once, and a
  train rests at its own ceiling, neither before it nor after.

### Net engine, stepped loop (`engine.rs`): modelled
* State: both queues, the count of requests on their way, the caps, the assembly
  gate, the barrier's answer, the deadline chosen.
* Operations: quiesce, drain, fire, cap, hold, choose, advance, idle, stop.
* Hard: each is a separate step and other threads act between any two; the
  barrier may time out; a flood must not stop time.
* Correct when: no request outlives its instant, no deadline is passed, no drive
  is late unless behind a flood, and every armed wake fires unless a trickle goes
  on for ever before it.

### P2 package, START gate (`boards/src/p2.rs`): modelled
* State: when the reset was released and the core started, a brownout, whether
  the core cannot boot again, the wakes it asked for while held.
* Operations: sense RESN, VDD or a bank; follow the reset; enter reset; brown
  out; begin; forward; the core's own requests; the system's start.
* Hard: a wake says nothing but its instant, so one armed for an earlier release
  looks like the present one; two threads follow the reset.
* Correct when: each START comes exactly the delay after the last release, only
  a running core is woken, and what it asked for lands.

### p2-qemu, turn channel (`p2-qemu/src/peer.rs`, `protocol.rs`, `qemu-target/target-p2/hostipc.c`): modelled
* State: two message areas, two sequence numbers, two sleep flags and the hello
  in a shared page; each side's place in its code.
* Operations: hello, turn, run, reply, quit, give up; either process may end.
* Hard: spin, flag, look again, sleep on a futex; numbers that wrap at 2^32;
  processes that hang or die anywhere.
* Correct when: a message area has one user, a reply is for its request, no wake
  is lost, every turn ends, and the program does not outlive the node.

### p2-qemu, guest run and pads (`p2-qemu/src/lib.rs`, `hostipc.c`, `boards/src/p2.rs`): modelled
* State: both sides' record of what each pad's net was told, the cogs' clocks,
  the pad change the node holds back, the supplies and the crystal as last
  sensed, the node's wakes.
* Operations: run cogs slice by slice, stop at a change, publish it at its
  instant, follow supplies, crystal and clock word, hold, restart, die.
* Hard: cogs lag each other; a supply moves while a change waits; a core stalled
  on a crystal has no wake of its own.
* Correct when: no pad change is lost or repeated, each is published at its own
  instant unless its cog lagged, and a core that can run has a wake.

### Circuit resolver (`board/src/engine.rs`, `net.rs`, `cluster.rs`, `component.rs`): partly
* State: the drives decided at each terminal, each net's state, the currents,
  which clusters are dirty, the clocks seen, the nets read, what each sense and
  instrument was last told.
* Operations: a drive, a pass over the dirty clusters, a full pass, delivery;
  registering a sense or an instrument; declaring a read.
* Hard: only what a drive dirtied is looked at again, and what depends on what
  changes: a clock that starts couples nets, a terminal's faults decide it.
* Correct when: a partial pass leaves what a full one would, and every reader
  holds what it would read now.

### Rails, detectors and the EC32MB's power-up (`models/src/rail.rs`, `supervisor.rs`, `boards/src/ec32mb.rs`): partly
* State: the rail's demand, soft start and output; the detector's last crossing
  and what it published; the wakes both have on the engine.
* Operations: a move of the input, the enable, the ground or the core rail; a
  wake; and, in the composition, the gate's senses of the nets they drive.
* Hard: a start that is broken off leaves its wake; crossings reverse within the
  delays; a falling rail takes the reset with it.
* Correct when: the rail is up exactly its soft start after its last cause, the
  detector follows the last crossing, and no core runs unpowered or in reset.

### Host PTY bridge and serial levels (`board/src/host_pty.rs`, `serial_levels.rs`, `uart.rs`): partly
* State: the outbound queue, the rail as last heard, the transmitter's queue and
  edge, the receiver's frame, one remembered wake.
* Operations: the pump's passes, transmit, a level on the wire, a wake.
* Hard: two threads share the queue and the remembered wake; PTY and queue fill;
  two decoders' clocks differ.
* Correct when: every byte that is not shed for want of room arrives, once and in
  order.

### Serial flash and SD card on one bus (`models/src/spi_*.rs`, `sd_card*.rs`): partly
* State: shifters, command phases, the write enable, the array; the card's
  phase, pending blocks and output.
* Operations: an edge of either of two pins, each of which is one part's clock
  and the other's select.
* Hard: a transaction may be given up at any edge; data looks like commands.
* Correct when: every answer is the one promised at its place, and the parts
  hold what the master may believe they hold.

### Machine parts in an assembly (`models/src/machine/*.rs`, `board/src/assembly.rs`): partly
* State: the plant (position, rate, pulses folded), the encoder's count, the
  contact and its bounces, the assembly's agenda.
* Operations: senses of STEP, DIR, ENA and COM, the observation, a bounce, a
  read of the shaft from any thread, a dispatch.
* Hard: pulses and motion are worked out when somebody looks; a bounce is
  replaced while its wakes are armed; a segment is taken away and given back.
* Correct when: each pulse counts once whoever looks, the encoder comes to rest
  where the carriage does, and the contact where the carriage put it.

### Not modelled
The other components, with the reason for each, are in `PROJECT.json`. In short:

| part | why not |
|---|---|
| PSRAM, ADC | sequential command machines on pins of their own |
| CDP browser node | its hard part is Chrome's, outside the repository |
| trace recorder | a ring under one lock; nothing waits for its readers |
| netlists, projects, registries, catalogs, CLI, install, tools, examples | parsing, lookup, construction or I/O |
| limits, pairs, diagnostics, logs | observers of nets that change nothing |
| logic gates, isolators, line drivers, optos, oscillators | one callback each, nothing to interleave |
| Propeller 2 instruction set, cpu-oracle | checked against silicon by the repository itself |

## 3. Modules and the code

A module's variables carry the source's names; histories are marked as such.
An action is one critical section or one step another thread can observe.

| module | models | its abstract specification |
|---|---|---|
| `VirtualClock` | the clock, one action per critical section of its mutex | `SimTime` |
| `DriveSequencer` | reserve, send, buffer, apply, gap skip | `DriveOrder` |
| `EdgeFaults` | `apply_drive` with the faults it counts | |
| `NetRules` | how a cluster's nets are resolved: pure operators | |
| `NetPlane` (`MCNetPlane`) | the incremental pass over `NetRules`, with `EdgeFaults` | the full pass, in `NothingStale` |
| `EngineWheel` | wheel, keys, chains, trains | |
| `EngineLoop` | `run_stepped_iteration`, step by step | |
| `LockstepChannel` | both programs, one access to the page a step | `TurnTaking` |
| `GuestRun` (`MCGuestRun`) | what the program and the node do in and between turns | |
| `StartGate` | the gate with the engine's, the system's and the core's threads | |
| `PowerChain` | a rail with a soft start, and a brownout detector | |
| `PowerUp` | `StartGate` and `PowerChain` on the module's nets | `StartGate`, `PowerChain` |
| `SerialLine` (`MCSerialLine`) | the PTY, the pump, the bridge and the far end | |
| `SharedBus` (`MCSharedBus`) | flash, card and the bit-banging master | what the protocol promises, in `Answer` |
| `MachineAxis` | drive, encoder and switch in an assembly | |

**How they compose.** The modules split the engine along its data. `EngineLoop`
uses the clock as `SimTime` promises it (a thread parks until an instant; time
moves only with all actors parked), a wheel as a set of instants, whose entries
are `EngineWheel`'s, and a drive as the instant it was published at, whose order
is `DriveSequencer`'s. `StartGate` uses the engine as `EngineLoop` and
`EngineWheel` show it: an agenda of instants, a clock that waits for the
assembly, for every request on its way and for all that is due. `EdgeFaults`
takes drives in the order `DriveSequencer` applies them, and `NetPlane` extends
it: a drive counts, is hidden or shown, and its net is resolved in one step.
`PowerUp` extends `StartGate` and instantiates `PowerChain`; its nets decide
what the gate senses, and one clock waits for both. `GuestRun` takes a turn as
one request and one reply (`LockstepChannel`). `SerialLine` and `MachineAxis`
use the engine as the gate does: one handler at a time, wakes at their instant.

**`VirtualClock`.** `WaitUntil` is `wait_until_ns` up to the unlock of
`park_until_virtual`; a thread that found itself the last to park goes to
`move` and makes its jump later (`AdvanceToNs`), with everything that may have
happened in between; `NotifyAdvanced` and `NotifyDropped` are the notifications
outside the lock; `Recheck` is the loop around the condition variable. `Charge`
adds HAL work to the slice and parks when it is full; `PastWait` is a wait for no
time, or for an instant already past, which begins the slice again and returns.
`AwaitQuiescence`, `ChooseTarget` and `QuiescenceStalled` are the authority's side:
a holder whose wait for the barrier timed out goes on without it (`stalled`), as
`await_actor_quiescence` does, and `SimTime` is `degraded` from then on: time
waits for nobody, and wakes whom it has reached. `Bound`, `Late`
and `Guests` say who registers when, so one module serves both the discipline
the clock asks for and everything it merely permits.

**`DriveSequencer`.** `Begin` takes a number, `Finish` sends, `Die` ends a thread
between the two. `HandleDrive`, `ApplyReadyDrives` and `Callback` are the
engine's; a callback takes the next number and sends before the engine goes on.
`WarnOnSteppedDriveGap` is the gap check of the idle branch. `Prompt` bounds a
live sender's delay by one idle poll; section 7 says what happens without it.

**`EdgeFaults`.** All of it happens inside `apply_drive` and the nets are resolved
once at its end, so one drive is one step: count, compare with the windows, hide
or show the slot, switch the sources.

**`NetRules`, `NetPlane`.** Volts are integers in tenths. `Solve` is the
conductance-weighted mean of the sources that reach a net, which is what the
numeric solve of `cluster.rs` gives where the paths are disjoint, as on the
board of `MCNetPlane`: a rail, a line it pulls up, a bus with two drivers, a clock
coupled by a capacitor to an analog net, and the clock line's remote end. Left out
are identity merges, diodes and transistors, injected currents, findings, limits
and pairs. A timed stuck or contention fault makes its net a terminal, which
ends a cluster, even while its window is closed.

**`EngineWheel`.** `Rearmed`, `Redundant` and `KeyLeft` are `arm` and
`fire_due_timers`: when a request is dropped, when a key goes. A wake's delivery
is a history, which makes "delivered at its instant" an invariant.

**`EngineLoop`.** Every early return and every order of the iteration is kept;
`unsent` is the moment between counting a request and sending it.
A callback, of a wake that fires or of a net that a drive moves (`HandleData`), may
ask for a wake or publish. `Flood` is a guest that publishes at whatever pace, more
or less than a batch in a pass.

**`LockstepChannel`.** One step is one access to a shared word or one copy of a
message. `Torn` is an area being written. `env = "harsh"` allows hangs, deaths,
sleeps that end by themselves and the deadline of seconds.

**`GuestRun`.** `RunSlice`, `StallSlice` and `EndPass` are `ipc_run`, one slice at
a time. A wake of the node is one action for each of its outcomes (`WakeRuns`,
`WakePublishes`, ...), a reply likewise, because the engine's thread does nothing
else in between. A pad drives what `p2.rs` makes of its mode word and its bank's
supply.

**`StartGate`.** A sense is delivered in one step and followed in the next ones
(`WatchReset`, `EnterReset`, `Follow`, `ArmDelay`, `WatchBrownout`), because each
takes the gate's mutex anew. `upSince` is the history that says when a
START should come.

**`PowerChain`, `PowerUp`.** A handler of a part is one step; its publication is
sensed by the gate in later ones. The wiring is the EC32MB's: the core rail
feeds the detector U404, which sinks RESN; RESN is pulled up (R100, 10.5 kOhm) to
the supply of bank 56..63, and the button R201 pulls it low. A bank's supply
rises at the instant of the core rail.

**`SerialLine`.** The pump thread is one step for each stretch between its locks;
the engine's callbacks are split where they take a lock the pump takes too.
`Transmit` takes what the queue has room for, at both ends, and `host.shed` counts
what it does not take. The device is one that echoes, so its program (`Answer`) is
the environment's.

**`SharedBus`.** A step is one edge of one pin, delivered to both parts, which is
what makes each part's traffic noise for the other. A transaction is the bytes the
master sends, each with a label that says what the protocol has there (a byte of a
frame, a reply, a token, the third byte of block 1, ...). The pins a byte moves are
those of the bit-banging master in `board/tests/shared_spi_bus.rs`; what it does
next, and what it believes, is the environment's (`Start`, `Believe`).
`FlashTransaction` and `CardTransaction` say which lists of labels the two
protocols allow, as `FlashDue` and `Follows` have it, and `Spoken` that the constant
`Ops` holds no other. `Answer`
and `Believe` read the labels: what must come back, and what the master may then
believe. In the run bytes are two bits wide, so a byte boundary is reached in every
phase; the clock modes are 0 and 3. The master
may give a transaction up at any edge after its first bit (one that only ever
selected the flash would clock bytes into the card, on the board as here); the
two halves of an application command are one call of the driver's. R304 (240 Ohm)
makes the flash outrank the card.

**`MachineAxis`.** A position is in half steps and a train's pulses are two ticks
apart at rate 1, so a carriage can come to rest between two whole steps. The lag
of the motor is out after one tick. `owed` counts pulses where they reach the
drive, tick by tick, and knows nothing of who reads.

## 4. What the runs show

Bounds are the smallest at which every action fires, and at which each mutant
listed in `PROJECT.json`, a plausible bug in one mapped definition, is caught.

| run | instance | shows |
|---|---|---|
| `clock_barrier` | three registered actors, one authority held from the start, which may give the barrier up, instants 0-3, a slice of 2 | time moves only quiescent until then; the clock implements `SimTime`; every sleeper returns and a spinning actor stops holding the barrier, but for waits that are already over |
| `clock_open` | a bound actor and one that registers late or waits unregistered, two authorities, one restart | the count is exact and no notification is lost, with everything allowed at once |
| `drives` | two senders, one mortal, one whose drives call back; five drives, three idle polls | order, exactly-once, only dead senders skipped, refinement of `DriveOrder`, a sent drive applied unless behind a dead sender's number, and there too if the engine is idle again and again |
| `net_plane` | six nets and five pins as above, four timed faults, three drives counted, three senses, one instrument | a pass over what was dirtied equals a full pass; readers are current; faults never fight, hide exactly their window and end |
| `wheel` | one component, one train, instants 0-4, periods to 2 (an entry may lie past the last instant) | wakes on time and only when asked for, nothing overdue, trains rested at their own ceiling and none run past it |
| `loop` | an actor, a guest that publishes at any pace, batches of 2, two capped passes, queues of 2, two sends, instants 0-2 | requests, deadlines and drives respected; wakes fire under a flood and after a stall, and only a trickle below a batch can hold them off |
| `channel` | two messages, numbers modulo 2 (a wrap every second turn) | no lost wake, turns and program end, refinement of `TurnTaking` |
| `guest_run` | two cogs, two pads in two banks, changes of supply, crystal and hold, instants 0-4 | every change published once and at its instant, no guest stranded |
| `power_up` | a soft start of 2, detector delays of 1 and 2, a START delay of 1, four moves of the bench and the button, instants 0-5 | rail and detector on time, START on time, only running cores woken, no core running unpowered |
| `serial_line` | nine bytes of one bit, queues and PTY of one byte each, a device a sixth slower | the echo is in order, and complete but for what the device's full queue sheds |
| `shared_bus` | two cells, two blocks of two bytes, every transaction followed by every other, given up anywhere | every answer in its place, nothing stored but what was written |
| `machine_axis` | rates 0-2, ceilings of 1, a bounce of two edges in a window of 3, a walk of at most 2 counts, four moves of the bench, instants 0-6 | pulses counted once, encoder and contact at rest where the carriage is |

Three actors are what the barrier needs (one that decides a jump, one that
acts before it is made, one that sleeps through both). Five drives leave room
for a gap, drives behind it on both sides and a callback. Modulo 2 makes every
number ambiguous after one turn, which is the worst case of the wrap at 2^32.
Four moves are a power-up, a brownout or a push of the button inside it, and a
recovery; or a train, its fight and return, and a reversal. A queue of one byte
is full and empty in turn, and the bytes stored in the card's blocks are data
tokens or begin like command frames.

`MCSerialLine` bounds and folds its run in two ways. The constraint `Kept` stops at
a loss of the host's supply and at a byte dropped from the outbound queue, after
which both properties say nothing. The view counts instants from now, and leaves
out an armed instant gone by and the last change of a closed decoder: no action
or property reads an instant but by its distance from `now`, tells apart two armed
instants before `now`, or reads that change before the next start bit sets it.
Nine bytes are enough for the device to fall behind by a frame and its queue, and
so to shed.

A slice of two in a run of three instants is filled at its start and again later,
by one call or by two.

Every run passes. A run with `CHECK_DEADLOCK FALSE` has a system that really
stops: an engine that is shut down, a process that ended, or the last instant of
a bounded run.

Actions are not all liveness: `StartsOnTime` or `DrivesOnInstant` say
"by this instant" as an action property of the step that moves the clock,
which needs no fairness.

## 5. Fairness

* `VirtualClock!FairSpec`: weak fairness of each thread's steps inside the
  clock, since the operating system runs every runnable thread. A registered
  actor waits again, spins on HAL or leaves (`WorkerStep`), which is the
  contract of an actor; registering, restarting and taking an authority are not
  fair, and neither is the stall, so nothing rests on the timeout. The two
  liveness properties carry one premise, stated in them: that an actor does not
  for ever make waits that are already over (`WaitsAreReal`). The code does not
  enforce it; section 7, 8, is what an actor that does can do.
* `DriveSequencer!FairSpec`: the engine thread runs; a live sender finishes the
  send it has begun. Nothing says that the engine is ever idle, so `DrivesApplied`
  promises a drive behind a dead sender's number only if it is, again and again
  (section 7, 3).
* `EngineLoop!FairSpec`: the engine thread runs, the system is released once, a
  counted request is sent. No actor is assumed to park, and no publisher to stop:
  `WakesFire` names the one way in which it can hold time (section 7, 4).
* `LockstepChannel!FairChannelSpec`: both processes are scheduled, the watch thread
  reads its end of file, and a deadline that has passed is eventually acted on
  (strong fairness, because the node's loop visits the check again and again).

## 6. What is proved

Every theorem holds for all values of the constants under the named assumption
of its module (`ClockAssumption`, `DriveAssumption`, `WheelAssumption`,
`LoopAssumption`, `FaultAssumption`, `NetAssumption`, `PlaneAssumption`,
`ChannelAssumption`, `GuestAssumption`, `GateAssumption`, `PowerAssumption`,
`PowerUpAssumption`, `AxisAssumption`, `SerialAssumption`, `BusAssumption` with
`Spoken`). A theorem with a further hypothesis says so below, with why the code
has it. A property listed here is also checked by a run, except `TypeOK`,
`KeyBacked`, `PageOwned`, `ParkedIffPending`, `NothingSkipped`, `NoCompounding`
and `NeverWedged`, on which no run spends time.

Least elements (the next deadline, the first bounce not due) come from the
well-foundedness of the naturals, which is cited and not assumed.

**`VirtualClockProofs`.**
* `CountedAlways`, `ParkedIffPendingAlways`. The count is carried together with
  the types. The second needs to know what a thread holds between deciding and
  acting (`Pending`), as a wait and its parked owner go in one critical section.
* `BarrierNotifyAlways`, for any discipline of the threads, restarts included: a
  scheduler asleep at the barrier with nobody running has a notification on its
  way.
* `ClosedBarrier`, `ClosedWakesOnTime`, `ClosedImplementsSimTime`, under
  `Closed`: every waiting thread registered before the run, no restart. The
  strengthening `MovesSafe` says that, until a holder has given the barrier up,
  an advance somebody has decided on, and that would still move the clock, was
  decided with nobody running, nobody has run since and no earlier deadline has
  appeared. From then on the refinement needs only that no wait is overdue.

**`NetEngineProofs`, the order of the drives**, for `Prompt` (section 7, 2, is what happens without).
* `InOrderAlways`, `NothingSkippedAlways`. Every number is in exactly one place
  (`Apart`, `Covered`), what may still be applied is not behind the turn
  (`Ahead`), and from the second poll of a gap on no live sender holds a number
  below the buffered drives (`GapSettled`, `GapDrained`), which is where "more
  than two polls" is used.
* `ImplementsDriveOrderAlways`: the refinement of `DriveOrder`. A number is lost
  when its sender dies holding it (`Losses`) and sent once nobody holds it
  (`Sends`). The gap check is the abstract step that passes over lost numbers,
  because all it skips were lost and what it comes to was sent (`GapSettled`);
  receiving out of turn and watching are stutters.

**`NetEngineProofs`, the timer wheel.**
* `KeyBackedAlways`, `NoCompoundingAlways`, `NothingOverdueAlways`,
  `TrainBackedAlways`. A key is trusted in place of an entry, so both directions
  are carried: a key has an entry, and a one-shot has its key except during the
  pass that fires it (`OneShotKeyed`).
* `WokenOnTimeAlways`, `TrainsRestOnTimeAlways`. The histories are tied to the
  entries: a wake asked for is delivered or owed an entry (`AskedOwed`), a chain
  has an entry at one of its ticks (`ChainsServed`), and no entry is at an
  instant nobody asked for (`OnlyWanted`). That the clock does not pass a running
  train's ceiling needs `TrainBacked`: the entry there, through every replacement,
  is what the advance stops at.

**`EngineLoopProofs`.**
* `RequestsCurrentAlways`, for `Schedulers \subseteq Actors`: whoever asks for
  wakes is registered with the clock or a callback of the engine's. The last
  entry of section 7 is what another thread can do.
* `NoDeadlinePassedAlways`, whoever asks; `DrivesOnInstantAlways`.
* `LoopInv`: while the engine is past its wait no actor runs (`Barrier`), so what
  it has read of the actors stays true until it moves the clock; the counter
  counts the requests on their way from before they are sent (`Counted`);
  `NoneInFlight` and `FirstDeadline` say what the choice of an instant knew,
  `PassCounts` what the capped passes have handled, and `DataSeen` that a pass
  which did nothing left no registered drive behind.

**`NetEngineProofs`, the plane of nets.** The board is a parameter: nets, pins, resistors, capacitors,
clocks, faults, senses and instruments.
* `NothingStaleAlways`, `ReadersCurrentAlways`. What a cluster's nets hold is a
  function of the slots, the terminals and the nets read in it; the clusters part
  the nets; a pass leaves out only clusters in which none of the three moved.
  The cache of coupled clusters is right or marked stale (`Cached`).
* `NeverFightsAlways`, `HiddenExactlyAlways`, `FaultsEndAlways`. A source is on
  exactly while its count is in its window (`Sourcing`). The first two are for
  runs in which no window that never closes has its count saturate
  (`[]Unsaturated`: 2^64 drives of one pin), the first where no source is on
  before the first drive of a pin that idles driving (`IdleClear`), the second
  where a pin under a pin fault is a rail or alone on its net (`AloneOrRail`).
  The board of `MCNetPlane` meets both; section 7 says what happens elsewhere.

**`P2QemuProofs`.**
* The channel: `PageOwnedAlways`, `ReplyIsForTheRequestAlways`,
  `NoWakeLostAlways`, `TakesTurnsAlways` (the refinement of `TurnTaking`). One
  relation between the two places in the code: while the node waits, the program
  has yet to take the request (`NotTaken`), works on it (`Working`) or has stored
  its number (`Done`).
* The guest: `GuestBaseAlways`, `OnItsInstantAlways`, `NeverStrandedAlways`, and
  `NothingLostAlways` for `Bounces = FALSE`, where no supply moves while a pad
  change waits for its instant (section 7, 5, is what such a bounce does). The
  two records of what a pad's net was told agree between turns (`Between`), and
  in a turn the guest's is the node's with what it has changed since
  (`WhileInTurn`).

**`PowerUpProofs`.**
* The gate: `TypeAlways`, `StartsOnTimeAlways`, `OnlyRunningWokenAlways`. The gate
  keeps what its inputs say: no release is counted while they hold the reset
  unless the thread that forgets it is on its way (`CountedOnce`), and the wake
  for a counted release is armed or about to be (`ArmedOnce`), so time cannot
  pass the delay with the core held.
* The rail and the detector: `SystemUpOnTime`, `SystemDetectorSettles`.
  `RailInv` ties the wakes to the start they belong to: a start has its wake
  armed at its own instant (`Rising`), a wake of an earlier one finds the
  demand's instant moved (`SinceMet`), and a rail that is up or down owes nothing
  (`Risen`, `Down`). `DetectorInv` does the same for crossings: the pending one
  is the last, and its wake is armed.
* The system: `ImplementsStartGate`, `SystemStartsOnTime`,
  `SystemOnlyRunningWoken`, `SystemRunsPowered`. Every step of the composition is
  a step or a stutter of the gate, and one of the power chain, so what is proved
  of either holds of the board; and a gate whose core could run follows what it
  has sensed before the instant is over (`Watched`).

**`MachineAxisProofs`.** The drive's record is of the last reading, so everything
is said of `Reading`, the drive as it would be read now; `AdvanceFacts` is its
closed form, in the three cases of a train that ended, ends on the way, or runs.
* `PulsesCountedOnceAlways`. `Recorded`: what the record holds, and what the train
  has emitted since, is what reached the drive; `Anchored`: a segment the drive
  has not heard starts now or is the one a fight took away, the two cases in
  which counting from its anchor counts nothing that did not arrive.
* `RestsWhereItStopsAlways`. A carriage that stood for two ticks has neither rate
  nor command left (`Rested`, from `TickFacts`: one tick moves it by the rate it
  had and leaves the rate commanded); an observation that finds it so publishes
  where it stands or has done so (`Seen`), and there is one in every interval
  (`Watched`).
* `ContactSettlesAlways`. What a burst has left to play ends where the carriage
  put the contact, within its window (`Plays`, `WithinWindow`), and a switch with
  something to play is due or asked back (`AskedBack`).

**`SerialLineProofs`**, for clocks that agree to half a bit over a frame
(`Tolerable`). The decoder counts bits to the nearest (`absorb_until`) and ends a
frame in the middle of its stop bit (`stop_sampled_ns`), so this is what its
code can tell apart; two ends at one baud are well inside it (ten bits of
115200 baud may differ by 434 ns a bit), and TLC evaluates it for the run's.
* `TypeOKAlways`: among them that no step closes two frames, and that the PTY is
  never overfilled.
* `CoreAlways`, the inductive invariant, while the supply holds and nothing is
  dropped or shed, with `Fits`: a stream no longer than `QueueMax` loses nothing to
  `transmit` at either end, as no queue ever holds more than what was sent. Neither
  property is inductive, as both speak of the ends of a line
  and its middle is what moves. `Chain` puts every byte sent in one place: back
  at the host, in the PTY, in the outbound queue, on the wire to the host, with
  the device, on the wire to the device, in the transmitter, in the pump's hand,
  or unread; in this order they hold what was sent (`Front`, `Back`). On a wire
  (`Link`) the byte under way is known twice, by the bit being driven on the
  sender's grid (`Driving`) and by the whole bits the decoder has counted up to
  its last change of level (`Seen`); `CountFromStart`, `CountFromChange` and
  `CountToEnd` show that the two agree, which is where `Tolerable` is used.
  `WokenDev`, `WokenHost` and `Remembered` say that a bit due, a frame open and
  a byte waiting have their wake, or that the pump or the engine is between two
  locks with it in hand; `PumpOK` and `Supply`, that the pump is let in only
  with room and a rail it knows.
* `EchoInOrderAlways`, `NeverWedgedAlways`, `EchoArrivesAlways`. What is in
  front of the wire is a prefix of what was sent; a transmitter with something
  to send has its wake; and with nothing on the wheel both wires are quiet and
  every place but the host's is empty. All three are for a supply that was not
  cut (section 7, 7, is what a cut inside `transmit` does) and while nothing has
  been shed, so for every stream of at most `TX_QUEUE_MAX` (4096) bytes. With longer
  ones a device that is slower sheds, and what is true of its echo then is checked
  by the run and not proved.

**`SharedBusProofs`**, for any widths of bytes, addresses, frames, blocks and
checks, any sizes of both parts, and any set of transactions that keep to the
protocols (`Spoken`; a master that breaks them is promised nothing), each given up
at whatever edge after its first bit.
* `BusAlways`, the inductive invariant. At every edge it says where the
  transaction under way has brought the part it is for: how many bits the shifter
  has, which byte it is showing, and what the part has made of the bytes before
  (`FlashAfter`, from a transaction's place; `CardAfter`, from the label of its
  last byte). The other part is asleep but for one edge: the select of one is the
  clock of the other, so it may have counted a single bit, which its own select
  discards (`FlashQuiet`, `CardQuiet`) and which `W >= 2` keeps from being a byte.
* `TakesByte` and the lemmas under it say what one byte of any transaction does
  to the flash (`NextInPage`: where a program wraps in its page, in closed form).
  `CardTakesByte` says the same of the card: a label leaves it receiving a
  frame, sending, streaming or awaiting a block, and each label that `Follows`
  allows takes it from one to the next (`Obeys`). What is left of a block on its
  way out is a function of the label (`Queued`), and what has come in of one is
  the last bytes the master sent (`Payload`).
* `AnswersInPlaceAlways`, `HoldsWhatWasWrittenAlways`, `BusTypesAlways`. A byte
  read is assembled from bits of one byte in their places, because the part not
  spoken to is off the line, so it is the byte that was due.

**Only model-checked.** Liveness, which is out of the prover's reach:
`SleepersReturn`, `SpinnersYield`, `DrivesApplied`, `WakesFire`, `TurnsEnd`,
`ProgramEnds`. Every other property of a run is stated by a theorem.

## 7. Disagreements found

Where the code does less than its text, or this project, would like to say. No
run expects a violation; each entry says which constant of a run's configuration
to change, and what TLC then reports.

1. A thread decides an idle jump, a `TimeAuthority` is taken, and the jump is
   made under it (`virtual_clock.rs:715`; its docs at lines 133 and 406 say the
   authority alone moves time). `ClockBarrier.cfg` with `Early = {}` and the
   property `JumpsOnlyUnheld`.
2. A live sender that is slower than the idle polls has its drive applied over
   newer ones, and the engine then waits for numbers it has applied
   (`engine.rs:6227`; 5570 and 5202). `Drives.cfg` with `Prompt = FALSE`,
   `Mortal = {}`, `Echo = {}`, `WakeArmed = {FALSE}`, `MaxDrives = 4`:
   `AppliedInOrder`.
3. With a periodic wake armed the gap check is never reached, and a dead
   sender's number holds every later drive (`engine.rs:6175`; the test at 8471
   has no such wake). `DrivesApplied` therefore says `BehindTheDead`; without that
   disjunct TLC has the drive held for ever.
4. A thread that publishes a little in every pass keeps the loop at one instant
   for ever, below the cap. `WakesFire` therefore says `Trickles`; without that
   disjunct TLC has a wake that never fires.
5. A supply that moves while a pad change waits for its instant: the change is
   published against the new supply and the program's record keeps the old one
   (`p2-qemu/src/lib.rs:865`). `Guest.cfg` with `Bounces = TRUE`: `NothingLost`.
6. A clock source that changes in the middle of a long slice can set the guest's
   nanoseconds back. `Guest.cfg` with `Slice = 3`, `MaxTime = 5`, `Volts = {}`,
   `Modes = {}`, `MaxEvents = 1` and the invariant `NeverDecreases`.
7. A supply that goes between the pump's look at the enable and its append
   leaves the transmitter with a byte and no wake, and no later byte kicks it
   (`serial_levels.rs`, `transmit` against `set_output_enabled`). `Serial.cfg`
   with `Races = TRUE`, without its constraint, and the invariant `NeverWedged`.
8. An actor that spins on HAL calls and makes a wait of no time, or for an instant
   already past, in every turn never fills its slice and holds the barrier
   (`virtual_clock.rs:357`, 374; the doc of `charge` at 485 says a real wait resets
   it). `SpinnersYield` and `SleepersReturn` therefore have their premise; without
   it TLC has an actor that never parks.

Seen on the way, and kept out of the runs by their instance or a guard:

* with a restart, a jump computed before it is applied after it
  (`MovesOnlyQuiescent` with `MaxEpoch = 1`);
* the idle jump is made once by the thread that parked, so an unregistered
  thread it releases, that never waits again, leaves others asleep
  (`SleepersReturn` with `Guests` not empty);
* with a second pin on its net, a pin about to enter its window is released
  early, while its last drive before the window is still in force and no source
  is on (`HiddenExactlyInWindow`); and a pin that idles driven fights the source
  of a window that opens at edge zero until it first publishes (`NeverFights`);
* a thread that is neither an actor nor a callback may count its request between
  the engine's check and its advance (`RequestsCurrent` with a guest among the
  `Schedulers`);
* a different segment that appears on STEP while it is fought over is counted
  from its own anchor when the fight ends, pulses that never reached the input
  included, unlike one that resumes (`stepper_motor.rs`, `receive_train`).

## 8. What is not modelled

* Wall-clock pacing of the clock; it delays, and no other thread can tell.
* Of the resolver, what section 3 lists; of `cluster.rs`, its matrix.
* Watches and the order of reads among commands: they travel the data queue like
  drives.
* Of the guest, its instructions: one changes a pad, the clock word or nothing.
* Of the parts: DTR and ends that fail (bridge), the chip erase, the larger
  erase spans and the card's fixed replies (bus), the motor's edge path with its
  stall window, its delivery lag under a free-running engine, the encoder's index
  and complements, units and rounding (axis).
* The socket fallback of the turn channel, whose kernel does the sleeping and
  waking.
* An unbounded chain of callbacks at one instant, each asking for that very
  instant: the draining of the control queue has no cap, and the bound on sends
  hides it (a hazard without a property).
* A chain requested through the START gate carries no life of the core: after a
  reset its ticks still arrive, and a core that asks again has two. The gate's
  runs allow this; what a core makes of it is the guest's.

## 9. Plan

Done in this order: clock, drives, faults, wheel, loop, turn channel, START gate,
each with its runs and then its proofs; then guest run, rails and power-up with
their proofs, serial line, shared bus, net plane, machine axis, and their proofs.
Left:

1. The motor's edge path beside its trains, and diodes in `NetRules`.
2. The browser's grants of virtual time, with Chrome as an environment; the
   PSRAM and the ADC on the shifter of `SharedBus`.

Modules to be proved about stay free of recursive operators, with one named
assumption each, one action per operation and invariants as named conjuncts.
