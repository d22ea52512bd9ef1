----------------------------- MODULE MachineAxis -----------------------------
(***************************************************************************)
(* An axis of a machine: a step/direction drive moves a carriage, which    *)
(* turns an encoder and trips an end switch (models/src/machine), hosted   *)
(* as one part by an assembly that keeps its members' instants             *)
(* (board/src/assembly.rs).  The drive is told a pulse train once for      *)
(* every change of its rate and works out the pulses and the motion when   *)
(* somebody looks: a sense, its own observation, or a thread of the host   *)
(* that reads the shaft at any moment.  The engine delivers and wakes one  *)
(* at a time and its clock waits for both (EngineLoop); a train is of      *)
(* pulses in two ticks, the carriage's position in half steps, and its lag *)
(* one tick.                                                               *)
(***************************************************************************)
EXTENDS Integers, Sequences

CONSTANTS
  Rates,            \* the trains' rates, 0 holding the count
  Totals,           \* their ceilings, 0 for none
  Cadence,          \* observe_interval_us
  MaxWalk,          \* max_counts_per_update
  Operate, Release, \* operate_mm, release_mm, as positions
  Window, Bounces,  \* BounceConfig
  MaxTime,          \* bound: the last instant
  MaxMoves          \* bound: what the bench does

ASSUME AxisAssumption ==
  /\ Rates \subseteq Nat /\ Totals \subseteq Nat /\ Cadence \in Nat \ {0} /\ MaxWalk \in Nat \ {0}
  /\ Release \in Int /\ Operate \in Int /\ Release <= Operate
  /\ Bounces \in Nat /\ Window \in Nat /\ (Bounces > 0 => Window > 0)
  /\ MaxTime \in Nat /\ MaxMoves \in Nat

VARIABLES
  now,
  bench,    \* the nets: the train's source, is STEP fought over, DIR, ENA and COM
  told,     \* what the parts were told of them last
  plant,    \* stepper_motor.rs: Plant
  encoder,  \* quadrature_encoder.rs: Wire, and the counter that reads its phases
  contact,  \* end_switch.rs: Contact, and what drives NO
  asks,     \* assembly.rs: Agenda.oneshots
  next,     \* Agenda.periods: the instant of the motor's next observation
  wheel,    \* the assembly's instants on the engine's wheel
  due,      \* the members a dispatch has still to hand its instant to
  owed,     \* history: the pulses that reached the drive, signed
  calm,     \* history: the ticks the carriage has stood still
  moves     \* the bound's counter

hosted == <<asks, next, wheel, due>>
past   == <<owed, calm>>
vars   == <<now, bench, told, plant, encoder, contact, hosted, past, moves>>

None == -1
Open == -1          \* nothing names a voltage
NoTrain == [freq |-> 0, total |-> 0, since |-> None]

-----------------------------------------------------------------------------
(* A train, as it was published.                                            *)

Least(a, b) == IF a < b THEN a ELSE b
Most(a, b)  == IF a > b THEN a ELSE b

EmittedAt(train, t) ==
  LET grown == (Most(t - train.since, 0) * train.freq) \div 2
  IN  IF train.total > 0 THEN Least(grown, train.total) ELSE grown

CompletesAt(train) ==
  IF train.total = 0 \/ train.freq = 0 THEN None
  ELSE train.since + (2 * train.total + train.freq - 1) \div train.freq

-----------------------------------------------------------------------------
(* The drive's plant.                                                       *)

Sign(p) == IF p.forward THEN 1 ELSE -1
TrainRate(p, train) == IF p.enabled THEN Sign(p) * train.freq ELSE 0

(* The pulses up to t, each counted once.                                   *)
Fold(p, t) ==
  IF p.train = NoTrain THEN p
  ELSE [p EXCEPT !.folded = EmittedAt(p.train, t),
                 !.steps = IF p.enabled
                           THEN @ + Sign(p) * Most(EmittedAt(p.train, t) - p.folded, 0) ELSE @]

(* The motion up to t at the rate commanded: the lag is out after a tick.   *)
Integrate(p, t) ==
  IF t = p.at THEN p
  ELSE [p EXCEPT !.at = t, !.pos = @ + p.cmd * (t - p.at) + (p.vel - p.cmd), !.vel = p.cmd]

TrainEnd(p) == IF p.train = NoTrain THEN None ELSE CompletesAt(p.train)

(* Both, split where a finite train ends on its own.                        *)
Stopped(p, t) ==
  LET end == TrainEnd(p)
  IN  IF end # None /\ end <= p.at THEN [p EXCEPT !.cmd = 0]
      ELSE IF end # None /\ end < t THEN [Integrate(Fold(p, end), end) EXCEPT !.cmd = 0]
      ELSE p

Advance(p, t) ==
  IF t <= p.at THEN p ELSE Integrate(Fold(Stopped(p, t), t), t)

(* A segment on STEP.  The one that was there before a fight resumes where  *)
(* it is now; any other starts at its anchor.                               *)
ResumedFault(p, train) == FALSE            \* from its anchor again
Resumed(p, train) == p.ended = train

ReceiveTrain(p, train) ==
  IF p.train = train THEN p
  ELSE LET from == IF Resumed(p, train) THEN now ELSE train.since
           q == Fold(Advance(p, Most(from, p.at)), Most(from, p.at))
       IN  [q EXCEPT !.cmd = TrainRate(q, train), !.train = train,
                     !.folded = EmittedAt(train, from), !.ended = NoTrain]

EndTrain(p) ==
  IF p.train = NoTrain THEN p
  ELSE LET q == Fold(Advance(p, now), now)
       IN  [q EXCEPT !.ended = q.train, !.train = NoTrain, !.folded = 0, !.cmd = 0]

Recommanded(p) == IF p.train = NoTrain THEN p ELSE [p EXCEPT !.cmd = TrainRate(p, p.train)]

(* No level holds the direction latched last.                               *)
SetDir(p, level) ==
  LET q == Advance(p, now)
  IN  IF level = "none" THEN q ELSE Recommanded([q EXCEPT !.forward = level = "forward"])

SetEna(p, level) ==
  LET q == Advance(p, now)
  IN  Recommanded([q EXCEPT !.enabled = level = "on",
                            !.cmd = IF q.enabled /\ level # "on" THEN 0 ELSE @])

-----------------------------------------------------------------------------
(* The observation, and the links that follow it.                           *)

WholeSteps(pos) == IF pos >= 0 THEN (pos + 1) \div 2 ELSE -((1 - pos) \div 2)

SettledFault(p) == FALSE                    \* whole steps only
Settled(p) == p.cmd = 0 /\ p.vel = 0 /\ p.pos # p.published

Published(p) == WholeSteps(p.pos) # p.emitted \/ Settled(p)

Abs(n) == IF n < 0 THEN -n ELSE n

(* What a counter reads of a move of the phases: every count of a walk, and *)
(* of a jump past the cap what is left of it modulo four.                   *)
Read(delta) ==
  IF Abs(delta) <= MaxWalk THEN delta
  ELSE IF delta % 4 = 1 THEN 1 ELSE IF delta % 4 = 3 THEN -1 ELSE 0

SetCount(e, target) ==
  [count |-> target, counter |-> e.counter + Read(target - e.count),
   snapped |-> e.snapped \/ Abs(target - e.count) > MaxWalk]

Actuated(c, pos) == pos >= IF c.closed THEN Release ELSE Operate

Apply(c, closed) == [c EXCEPT !.driven = closed, !.no = IF closed THEN c.com ELSE Open]

BurstFor(settled) ==
  [i \in 1..Bounces |-> [at |-> now + (Window * i) \div Bounces,
                         closed |-> IF i % 2 = 1 /\ i # Bounces THEN ~settled ELSE settled]]

SetPosition(c, pos) ==
  IF Actuated(c, pos) = c.closed THEN c
  ELSE Apply([c EXCEPT !.closed = Actuated(c, pos), !.burst = BurstFor(Actuated(c, pos)),
                       !.since = now], Actuated(c, pos))

(* The bounces that are due, the last of them left on NO.                   *)
Drained(c) ==
  LET n == CHOOSE k \in 0..Len(c.burst) :
             /\ \A i \in 1..k : c.burst[i].at <= now
             /\ k < Len(c.burst) => c.burst[k + 1].at > now
  IN  IF n = 0 THEN c
      ELSE Apply([c EXCEPT !.burst = SubSeq(@, n + 1, Len(@))], c.burst[n].closed)

(* The switch asks for the first of its bounces, through its gate.          *)
ArmFault(c) ==                              \* in the agenda, not on the engine
  /\ asks' = IF c.burst = <<>> THEN asks ELSE asks \cup {[at |-> Head(c.burst).at, by |-> "switch"]}
  /\ UNCHANGED wheel

Arm(c) ==
  IF c.burst = <<>> THEN UNCHANGED <<asks, wheel>>
  ELSE /\ asks' = asks \cup {[at |-> Head(c.burst).at, by |-> "switch"]}
       /\ wheel' = wheel \cup {Head(c.burst).at}

-----------------------------------------------------------------------------
(* Steps of the engine's thread.                                            *)

(* Assembly::dispatch: the due members are taken together, and the motor's  *)
(* next period from the instant it fell due.                                *)
Dispatch ==
  /\ due = {} /\ now \in wheel
  /\ due' = {a.by : a \in {b \in asks : b.at <= now}} \cup (IF next <= now THEN {"motor"} ELSE {})
  /\ asks' = {a \in asks : a.at > now}
  /\ next' = IF next > now THEN next ELSE IF next + Cadence > now THEN next + Cadence ELSE now + Cadence
  /\ wheel' = (wheel \ {now}) \cup (IF next <= now THEN {next'} ELSE {})
  /\ UNCHANGED <<now, bench, told, plant, encoder, contact, past, moves>>

(* ... and handed it in the order they were added.                          *)
WakeMotor ==
  /\ "motor" \in due /\ due' = due \ {"motor"}
  /\ LET p == Advance(plant, now)
     IN  IF Published(p)
         THEN /\ plant' = [p EXCEPT !.emitted = WholeSteps(p.pos), !.published = p.pos]
              /\ encoder' = SetCount(encoder, p.pos)
              /\ contact' = SetPosition(contact, p.pos)
              /\ IF contact'.closed # contact.closed THEN Arm(contact') ELSE UNCHANGED <<asks, wheel>>
         ELSE plant' = p /\ UNCHANGED <<encoder, contact, asks, wheel>>
  /\ UNCHANGED <<now, bench, told, next, past, moves>>

WakeSwitch ==
  /\ due = {"switch"} /\ due' = {}
  /\ contact' = Drained(contact) /\ Arm(contact')
  /\ UNCHANGED <<now, bench, told, plant, encoder, next, past, moves>>

Step == IF bench.fought THEN NoTrain ELSE bench.source

SenseStep ==
  /\ due = {} /\ told.step # Step /\ told' = [told EXCEPT !.step = Step]
  /\ plant' = IF Step = NoTrain THEN EndTrain(plant) ELSE ReceiveTrain(plant, Step)
  /\ calm' = 0
  /\ UNCHANGED <<now, bench, encoder, contact, hosted, owed, moves>>

SenseDir ==
  /\ due = {} /\ told.dir # bench.dir /\ told' = [told EXCEPT !.dir = bench.dir]
  /\ plant' = SetDir(plant, bench.dir) /\ calm' = 0
  /\ UNCHANGED <<now, bench, encoder, contact, hosted, owed, moves>>

SenseEna ==
  /\ due = {} /\ told.ena # bench.ena /\ told' = [told EXCEPT !.ena = bench.ena]
  /\ plant' = SetEna(plant, bench.ena) /\ calm' = 0
  /\ UNCHANGED <<now, bench, encoder, contact, hosted, owed, moves>>

(* A closed contact conducts what COM is given late.                        *)
SenseCom ==
  /\ due = {} /\ told.com # bench.com /\ told' = [told EXCEPT !.com = bench.com]
  /\ contact' = IF contact.driven THEN Apply([contact EXCEPT !.com = bench.com], TRUE)
                ELSE [contact EXCEPT !.com = bench.com]
  /\ UNCHANGED <<now, bench, plant, encoder, hosted, past, moves>>

(* A thread of the host reads the shaft, between any two of these.          *)
ReadShaft ==
  /\ plant' = Advance(plant, now)
  /\ UNCHANGED <<now, bench, told, encoder, contact, hosted, past, moves>>

(* The bench.  A train changes and STEP is fought over only while the drive *)
(* hears the source.                                                        *)
Moves(net, v) ==
  /\ moves < MaxMoves /\ moves' = moves + 1
  /\ bench[net] # v /\ bench' = [bench EXCEPT ![net] = v]
  /\ UNCHANGED <<now, told, plant, encoder, contact, hosted, past>>

BenchStep ==
  \/ /\ ~bench.fought
     /\ \/ Moves("source", NoTrain)
        \/ \E f \in Rates, n \in Totals :
             (f = 0 => n = 0) /\ Moves("source", [freq |-> f, total |-> n, since |-> now])
  \/ told.step = Step /\ Moves("fought", ~bench.fought)
  \/ \E v \in {"forward", "reverse", "none"} : Moves("dir", v)
  \/ \E v \in {"on", "off"} : Moves("ena", v)
  \/ \E v \in {Open, 1} : Moves("com", v)

Nets == [step |-> Step, dir |-> bench.dir, ena |-> bench.ena, com |-> bench.com]

(* The clock: everything is told and nothing is due.  What reached the      *)
(* drive in the tick, and whether the carriage moved, are noted.            *)
Tick ==
  /\ told = Nets /\ due = {} /\ (\A t \in wheel : t > now) /\ now < MaxTime
  /\ now' = now + 1
  /\ owed' = owed + IF plant.enabled /\ plant.train # NoTrain
                    THEN Sign(plant) * (EmittedAt(plant.train, now + 1) - EmittedAt(plant.train, now))
                    ELSE 0
  /\ calm' = IF Advance(plant, now + 1).pos = Advance(plant, now).pos THEN calm + 1 ELSE 0
  /\ UNCHANGED <<bench, told, plant, encoder, contact, hosted, moves>>

Init ==
  /\ now = 0
  /\ bench = [source |-> NoTrain, fought |-> FALSE, dir |-> "none", ena |-> "on", com |-> 0]
  /\ told = [step |-> NoTrain, dir |-> "none", ena |-> "off", com |-> Open]
  /\ plant = [at |-> 0, vel |-> 0, pos |-> 0, cmd |-> 0, train |-> NoTrain, folded |-> 0,
              ended |-> NoTrain, steps |-> 0, emitted |-> 0, published |-> 0,
              forward |-> TRUE, enabled |-> FALSE]
  /\ encoder = [count |-> 0, counter |-> 0, snapped |-> FALSE]
  /\ contact = [closed |-> FALSE, driven |-> FALSE, burst |-> <<>>, com |-> Open, no |-> Open,
                since |-> 0]
  /\ asks = {} /\ next = Cadence /\ wheel = {Cadence} /\ due = {}
  /\ owed = 0 /\ calm = 0 /\ moves = 0

Next ==
  \/ Dispatch \/ WakeMotor \/ WakeSwitch
  \/ SenseStep \/ SenseDir \/ SenseEna \/ SenseCom
  \/ ReadShaft \/ BenchStep \/ Tick

Spec == Init /\ [][Next]_vars

-----------------------------------------------------------------------------
(* Properties.                                                              *)

(* A read at any moment counts every pulse that reached the drive once,     *)
(* with the direction it arrived under and only while the drive was on:     *)
(* whoever read before, through changes of rate, reversals, and a train     *)
(* that a fight took and gave back.                                         *)
PulsesCountedOnce == Advance(plant, now).steps = owed

(* When the carriage has stood still for an observation, the encoder and    *)
(* whoever counts its edges are where it stands, half steps included.       *)
RestsWhereItStops ==
  calm > Cadence /\ due = {} /\ (\A t \in wheel : t > now) =>
    /\ encoder.count = Advance(plant, now).pos
    /\ encoder.snapped \/ encoder.counter = encoder.count

(* The contact comes to rest where the carriage put it, within the window   *)
(* of its last actuation, whatever an earlier one had still to play; and NO *)
(* carries what COM carries exactly while the contact is closed.            *)
ContactSettles ==
  /\ due = {} /\ (\A t \in wheel : t > now) /\ now >= contact.since + Window
       => contact.driven = contact.closed
  /\ told.com = bench.com => contact.no = IF contact.driven THEN bench.com ELSE Open
=============================================================================
