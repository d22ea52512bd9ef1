----------------------------- MODULE PowerChain -----------------------------
(***************************************************************************)
(* A supply chain: a regulator (models/src/rail.rs) makes the supply that  *)
(* a voltage detector (models/src/supervisor.rs) watches.  Both keep what  *)
(* they were last told of their pins, latch it with hysteresis and act     *)
(* either at once or at an instant they ask a wake for; a wake says        *)
(* nothing but its instant, and one asked for a cause that is gone comes   *)
(* all the same.  A pin's sense arrives in a step of its own, in any order *)
(* within its instant, and the clock moves when everything has arrived     *)
(* (EngineLoop).  Voltages are handed against the part's ground.           *)
(***************************************************************************)
EXTENDS Integers

CONSTANTS
  StartUp,      \* start_up_ns
  Discharge,    \* does the rail discharge its output (discharge_ohms)?
  OpenEnables,  \* floating_enables
  TPd, TPr,     \* t_pd_ns, t_pr_ns
  Inputs, Enables, Grounds, Straps,   \* what the bench puts on the pins
  MaxTime,      \* bound: the last instant
  MaxMoves      \* bound: what the bench does

PowerAssumption ==
  /\ StartUp \in Nat /\ TPd \in Nat /\ TPr \in Nat
  /\ Discharge \in BOOLEAN /\ OpenEnables \in BOOLEAN
  /\ \A S \in {Inputs, Enables, Grounds, Straps} : S \subseteq Nat
  /\ MaxTime \in Nat /\ MaxMoves \in Nat

VARIABLES
  bench,    \* the bench's voltages on the input, the enable, the ground, the supply
  rail,     \* rail.rs: State
  det,      \* supervisor.rs: State
  wakes,    \* the wakes on the engine's wheel: <<part, instant>>
  now,
  since,    \* history: when the rail's three conditions last came together
  moves     \* the bound's counter

vars == <<bench, rail, det, wakes, now, since, moves>>

Open == -1                  \* nothing names a voltage
None == -1
VSet == 3
InputOff == 1
InputOn == 2
Valid == 1
VThMinus == 2
VThPlus == 3

-----------------------------------------------------------------------------
(* The nets.                                                                *)

Above(v) == IF bench.ground = Open \/ v = Open THEN Open ELSE v

(* The supply: the rail up, a bench strap on it, or the discharge.          *)
Supply ==
  IF bench.ground = Open THEN Open
  ELSE IF rail.published.kind = "up" THEN rail.published.volts - bench.ground
  ELSE IF bench.strap # Open THEN bench.strap
  ELSE IF rail.published.kind = "discharge" THEN rail.published.volts - bench.ground
  ELSE Open

Sensed == [input |-> Above(bench.input), enable |-> Above(bench.enable),
           ground |-> bench.ground, vss |-> bench.ground, vcc |-> Supply]

-----------------------------------------------------------------------------
(* The rail.                                                                *)

Drive(kind, v) == [kind |-> kind, volts |-> v]
Released == Drive("released", 0)

LatchInput(r) ==
  [r EXCEPT !.inputUp = r.input # Open /\ (r.input >= InputOn \/ (r.input >= InputOff /\ @))]

(* The enable through its thresholds, 1 being the band that holds the last  *)
(* level; open, or not to be measured.                                      *)
EnableLevel(r) ==
  IF r.enable = 0 THEN "low" ELSE IF r.enable = 1 THEN r.level ELSE "high"

LatchEnable(r) ==
  IF r.enable # Open
  THEN [r EXCEPT !.level = EnableLevel(r), !.enabled = EnableLevel(r) = "high"]
  ELSE [r EXCEPT !.enabled = r.ground # Open /\ OpenEnables]

Met(r) == r.inputUp /\ r.enabled /\ r.ground # Open

IsUp(r) == r.published.kind = "up"            \* up_since_ns

Publish(r, drive) ==
  [r EXCEPT !.published = drive]

Evaluate(r) ==
  IF Met(r) /\ IsUp(r) THEN Publish(r, Drive("up", r.ground + VSet))
  ELSE IF Met(r) /\ StartUp = 0 THEN Publish([r EXCEPT !.armedAt = None], Drive("up", r.ground + VSet))
  ELSE IF Met(r) THEN IF r.armedAt = None THEN [r EXCEPT !.armedAt = now + StartUp] ELSE r
  ELSE Publish([r EXCEPT !.armedAt = None],
               IF Discharge /\ r.ground # Open /\ r.inputUp THEN Drive("discharge", r.ground)
               ELSE Released)

OnRailWakeFault(r) ==                      \* any wake is the one asked for
  IF r.armedAt = None THEN r
  ELSE IF Met(r) THEN Publish([r EXCEPT !.armedAt = None], Drive("up", r.ground + VSet))
  ELSE [r EXCEPT !.armedAt = None]

OnRailWake(r) ==
  IF r.armedAt = None \/ now < r.armedAt THEN r
  ELSE IF Met(r) THEN Publish([r EXCEPT !.armedAt = None], Drive("up", r.ground + VSet))
  ELSE [r EXCEPT !.armedAt = None]

-----------------------------------------------------------------------------
(* The detector.                                                            *)

Verdict(d) ==
  IF d.vcc = Open \/ d.vcc < Valid THEN "undefined"
  ELSE IF d.vcc < VThMinus \/ (d.vcc < VThPlus /\ d.verdict # "released") THEN "asserted"
  ELSE "released"

SinkDrive(d) == IF d.vss = Open THEN Released ELSE Drive("sink", d.vss)

Schedule(d, at, asserted) == [d EXCEPT !.pending = [at |-> at, asserted |-> asserted]]
NotPending == [at |-> None, asserted |-> FALSE]

OnSupplyFault(old) ==                      \* the sink stays where the ground was
  LET next == Verdict(old)
      d == [old EXCEPT !.verdict = next,
                       !.decidedAt = IF next # old.verdict THEN now ELSE @]
      settled == [d EXCEPT !.pending = NotPending]
  IN  CASE next = "undefined" -> [settled EXCEPT !.published = Released]
        [] next = "asserted" /\ old.verdict = "undefined" -> [settled EXCEPT !.published = SinkDrive(d)]
        [] next = "asserted" /\ old.verdict = "released"  -> Schedule(d, now + TPd, TRUE)
        [] next = "released" /\ old.verdict = "asserted"  -> Schedule(d, now + TPr, FALSE)
        [] next = "released" /\ old.verdict = "undefined" -> [settled EXCEPT !.published = Released]
        [] OTHER -> d

OnSupply(old) ==
  LET next == Verdict(old)
      d == [old EXCEPT !.verdict = next,
                       !.decidedAt = IF next # old.verdict THEN now ELSE @]
      settled == [d EXCEPT !.pending = NotPending]
  IN  CASE next = "undefined" -> [settled EXCEPT !.published = Released]
        [] next = "asserted" /\ old.verdict = "undefined" -> [settled EXCEPT !.published = SinkDrive(d)]
        [] next = "asserted" /\ old.verdict = "released"  -> Schedule(d, now + TPd, TRUE)
        [] next = "asserted" /\ old.verdict = "asserted" ->
             IF d.pending = NotPending THEN [d EXCEPT !.published = SinkDrive(d)] ELSE d
        [] next = "released" /\ old.verdict = "asserted"  -> Schedule(d, now + TPr, FALSE)
        [] next = "released" /\ old.verdict = "undefined" -> [settled EXCEPT !.published = Released]
        [] next = "released" /\ old.verdict = "released"  -> d


OnDetectorWake(d) ==
  LET settled == [d EXCEPT !.pending = NotPending]
  IN  IF d.pending = NotPending \/ now < d.pending.at THEN d
      ELSE IF d.pending.asserted /\ d.verdict = "asserted"
           THEN [settled EXCEPT !.published = SinkDrive(d)]
      ELSE IF ~d.pending.asserted /\ d.verdict = "released"
           THEN [settled EXCEPT !.published = Released]
      ELSE settled

-----------------------------------------------------------------------------
(* Steps of the engine's thread.                                            *)

(* A handler of the rail ends: its request for a wake, and the history.     *)
RailIs(r) ==
  /\ rail' = r
  /\ wakes' = IF r.armedAt # None /\ rail.armedAt = None
              THEN wakes \cup {<<"rail", r.armedAt>>} ELSE wakes
  /\ since' = IF ~Met(r) THEN None ELSE IF since = None THEN now ELSE since
  /\ UNCHANGED <<bench, det, now, moves>>

DetectorIs(d) ==
  /\ det' = d
  /\ wakes' = IF d.pending # NotPending /\ d.pending # det.pending
              THEN wakes \cup {<<"detector", d.pending.at>>} ELSE wakes
  /\ UNCHANGED <<bench, rail, now, since, moves>>

SenseGround == /\ rail.ground # Sensed.ground
               /\ RailIs(Evaluate(LatchEnable(LatchInput([rail EXCEPT !.ground = Sensed.ground]))))
SenseInput == /\ rail.input # Sensed.input
              /\ RailIs(Evaluate(LatchInput([rail EXCEPT !.input = Sensed.input])))
SenseEnable == /\ rail.enable # Sensed.enable
               /\ RailIs(Evaluate(LatchEnable([rail EXCEPT !.enable = Sensed.enable])))
SenseVss == det.vss # Sensed.vss /\ DetectorIs(OnSupply([det EXCEPT !.vss = Sensed.vss]))
SenseVcc == det.vcc # Sensed.vcc /\ DetectorIs(OnSupply([det EXCEPT !.vcc = Sensed.vcc]))

WakeRail ==
  /\ <<"rail", now>> \in wakes /\ wakes' = wakes \ {<<"rail", now>>}
  /\ rail' = OnRailWake(rail)
  /\ UNCHANGED <<bench, det, now, since, moves>>

WakeDetector ==
  /\ <<"detector", now>> \in wakes /\ wakes' = wakes \ {<<"detector", now>>}
  /\ det' = OnDetectorWake(det)
  /\ UNCHANGED <<bench, rail, now, since, moves>>

Told == /\ rail.ground = Sensed.ground /\ rail.input = Sensed.input /\ rail.enable = Sensed.enable
        /\ det.vss = Sensed.vss /\ det.vcc = Sensed.vcc
Quiet == Told /\ \A w \in wakes : w[2] > now

Advance ==
  /\ Quiet /\ now < MaxTime /\ now' = now + 1
  /\ UNCHANGED <<bench, rail, det, wakes, since, moves>>

(* The bench moves one of its voltages.                                     *)
Move(pin, v) ==
  /\ moves < MaxMoves /\ moves' = moves + 1
  /\ bench[pin] # v /\ bench' = [bench EXCEPT ![pin] = v]
  /\ UNCHANGED <<rail, det, wakes, now, since>>

Init ==
  /\ bench = [input |-> Open, enable |-> Open, ground |-> Open, strap |-> Open]
  /\ rail = [input |-> Open, ground |-> Open, enable |-> Open, level |-> "unread",
             inputUp |-> FALSE, enabled |-> FALSE, armedAt |-> None, published |-> Released]
  /\ det = [vcc |-> Open, vss |-> Open, verdict |-> "undefined", decidedAt |-> None,
            pending |-> NotPending, published |-> Released]
  /\ wakes = {} /\ now = 0 /\ since = None /\ moves = 0

Next ==
  \/ SenseGround \/ SenseInput \/ SenseEnable \/ SenseVss \/ SenseVcc
  \/ WakeRail \/ WakeDetector \/ Advance
  \/ \E v \in Inputs \cup {Open} : Move("input", v)
  \/ \E v \in Enables \cup {Open} : Move("enable", v)
  \/ \E v \in Grounds \cup {Open} : Move("ground", v)
  \/ \E v \in Straps \cup {Open} : Move("strap", v)

Spec == Init /\ [][Next]_vars

-----------------------------------------------------------------------------
(* Properties.                                                              *)

(* The rail is up exactly when its input, enable and ground have held       *)
(* together, without a break, for the soft start, at its ground's voltage   *)
(* plus its own: no wake of a start that was broken off brings it up early, *)
(* and none is missed.                                                      *)
UpOnTime ==
  Quiet =>
    /\ rail.published.kind = "up" <=> since # None /\ now >= since + StartUp
    /\ rail.published.kind = "up" => rail.published.volts = bench.ground + VSet

(* The detector's output follows its last crossing after that crossing's    *)
(* delay, whatever crossings came before, and sinks to the ground of now.   *)
DetectorSettles ==
  Quiet =>
    /\ det.verdict = "asserted" /\ now >= det.decidedAt + TPd => det.published = SinkDrive(det)
    /\ det.verdict = "released" /\ now >= det.decidedAt + TPr => det.published = Released
    /\ det.verdict = "undefined" => det.published = Released

=============================================================================
