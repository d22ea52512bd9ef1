-------------------------- MODULE MachineAxisProofs -------------------------
(***************************************************************************)
(* Proofs about MachineAxis, for any trains, ceilings, observation period, *)
(* decoder, switch and bounce.  The drive keeps its pulses as they stood   *)
(* when somebody last looked, so what is proved of any moment is said of   *)
(* the drive as it would be read then: Advance(plant, now).  The encoder   *)
(* and the contact follow its observations; both need the instants the     *)
(* assembly has asked for, the motor's next one and the first bounce.      *)
(***************************************************************************)
EXTENDS MachineAxis, TLAPS, SequenceTheorems, WellFoundedInduction

Trains == [freq : Nat, total : Nat, since : Int]

Plants ==
  [at : Nat, vel : Int, pos : Int, cmd : Int, train : Trains, folded : Nat, ended : Trains,
   steps : Int, emitted : Int, published : Int, forward : BOOLEAN, enabled : BOOLEAN]

-----------------------------------------------------------------------------
(* What a train has emitted never falls.                                    *)
LEMMA ProductGrows ==
  ASSUME NEW a \in Nat, NEW b \in Nat, NEW f \in Nat, a <= b
  PROVE  a * f \in Nat /\ b * f \in Nat /\ a * f <= b * f
<1>1. PICK d \in Nat : b = a + d
  <2>1. b - a \in Nat /\ b = a + (b - a) OBVIOUS
  <2> QED BY <2>1
<1>2. b * f = a * f + d * f BY <1>1
<1>3. a * f \in Nat /\ d * f \in Nat OBVIOUS
<1> QED BY <1>2, <1>3

LEMMA EmittedGrows ==
  ASSUME NEW train \in Trains, NEW t \in Int, NEW u \in Int, t <= u
  PROVE  EmittedAt(train, t) \in Nat /\ EmittedAt(train, t) <= EmittedAt(train, u)
<1> DEFINE a == Most(t - train.since, 0)
           b == Most(u - train.since, 0)
<1>1. /\ a \in Nat /\ b \in Nat /\ a <= b /\ train.freq \in Nat /\ train.total \in Nat
  BY DEF Most, Trains
<1>2. a * train.freq \in Nat /\ b * train.freq \in Nat /\ a * train.freq <= b * train.freq
  BY <1>1, ProductGrows
<1>3. ASSUME NEW x \in Nat, NEW y \in Nat, x <= y
      PROVE  x \div 2 \in Nat /\ y \div 2 \in Nat /\ x \div 2 <= y \div 2
  BY <1>3
<1>4. /\ (a * train.freq) \div 2 \in Nat /\ (b * train.freq) \div 2 \in Nat
      /\ (a * train.freq) \div 2 <= (b * train.freq) \div 2
  BY <1>2, <1>3
<1> QED BY <1>1, <1>4 DEF EmittedAt, Least

LEMMA EndIsInt == ASSUME NEW train \in Trains PROVE CompletesAt(train) \in Int
<1>1. CASE train.total = 0 \/ train.freq = 0 BY <1>1 DEF CompletesAt, None
<1>2. CASE ~(train.total = 0 \/ train.freq = 0)
  <2>1. train.freq \in Nat /\ train.freq > 0 /\ train.total \in Nat /\ train.since \in Int
    BY <1>2 DEF Trains
  <2>2. (2 * train.total + train.freq - 1) \div train.freq \in Int BY <2>1
  <2> QED BY <1>2, <2>1, <2>2 DEF CompletesAt
<1> QED BY <1>1, <1>2

-----------------------------------------------------------------------------
(* The drive, read at t: what Fold, Integrate and Advance make of it.       *)

(* What no reading changes.                                                 *)
SameDrive(p, q) ==
  /\ q.train = p.train /\ q.ended = p.ended /\ q.forward = p.forward /\ q.enabled = p.enabled
  /\ q.emitted = p.emitted /\ q.published = p.published

(* The pulses that reach the drive between two instants.                    *)
Between(p, a, b) ==
  IF p.enabled /\ p.train # NoTrain
  THEN Sign(p) * (EmittedAt(p.train, b) - EmittedAt(p.train, a)) ELSE 0

FoldedAt(p, t) == p.train # NoTrain => p.folded = EmittedAt(p.train, t)

LEMMA FoldFacts ==
  ASSUME NEW p \in Plants, NEW a \in Int, NEW t \in Int, a <= t, FoldedAt(p, a)
  PROVE  LET q == Fold(p, t)
         IN  /\ q \in Plants /\ SameDrive(p, q)
             /\ q.at = p.at /\ q.vel = p.vel /\ q.pos = p.pos /\ q.cmd = p.cmd
             /\ FoldedAt(q, t) /\ q.steps = p.steps + Between(p, a, t)
<1> DEFINE e == EmittedAt(p.train, t)
           q == Fold(p, t)
<1>1. CASE p.train = NoTrain
  <2>1. q = p BY <1>1 DEF Fold
  <2> HIDE DEF q
  <2>2. Between(p, a, t) = 0 BY <1>1 DEF Between
  <2>3. p.steps + 0 = p.steps BY DEF Plants
  <2> QED BY <1>1, <2>1, <2>2, <2>3 DEF SameDrive, FoldedAt, q
<1>2. CASE p.train # NoTrain
  <2>1. p.train \in Trains /\ e \in Nat /\ p.folded = EmittedAt(p.train, a) /\ p.folded <= e /\ p.folded \in Nat
    BY <1>2, EmittedGrows DEF FoldedAt, Plants
  <2>2. Most(e - p.folded, 0) = e - p.folded BY <2>1 DEF Most
  <2>3. Sign(p) \in Int BY DEF Sign
  <2> DEFINE s == IF p.enabled THEN p.steps + Sign(p) * (e - p.folded) ELSE p.steps
  <2>4. q = [p EXCEPT !.folded = e, !.steps = s] BY <1>2, <2>2 DEF Fold
  <2>5. s \in Int
    <3>1. Sign(p) * (e - p.folded) \in Int BY <2>1, <2>3
    <3> QED BY <3>1 DEF Plants
  <2>6. s = p.steps + Between(p, a, t) BY <1>2, <2>1 DEF Between, Plants
  <2> HIDE DEF s, e, q
  <2>7. /\ q \in Plants /\ SameDrive(p, q) /\ q.folded = e /\ q.steps = s
        /\ q.at = p.at /\ q.vel = p.vel /\ q.pos = p.pos /\ q.cmd = p.cmd
    BY <2>1, <2>4, <2>5 DEF Plants, SameDrive
  <2>8. FoldedAt(q, t) BY <2>7 DEF FoldedAt, SameDrive, e
  <2> QED BY <2>6, <2>7, <2>8 DEF q
<1> QED BY <1>1, <1>2

LEMMA IntegrateFacts ==
  ASSUME NEW p \in Plants, NEW t \in Nat
  PROVE  LET q == Integrate(p, t)
         IN  /\ q \in Plants /\ SameDrive(p, q) /\ q.at = t /\ q.cmd = p.cmd
             /\ q.folded = p.folded /\ q.steps = p.steps
             /\ t # p.at => q.pos = p.pos + p.cmd * (t - p.at) + (p.vel - p.cmd) /\ q.vel = p.cmd
<1>1. p.cmd \in Int /\ t - p.at \in Int /\ p.pos \in Int /\ p.vel \in Int BY DEF Plants
<1>2. p.cmd * (t - p.at) \in Int BY <1>1
<1>3. p.pos + p.cmd * (t - p.at) + (p.vel - p.cmd) \in Int BY <1>1, <1>2
<1> DEFINE w == p.pos + p.cmd * (t - p.at) + (p.vel - p.cmd)
           q == Integrate(p, t)
<1>4. q = IF t = p.at THEN p ELSE [p EXCEPT !.at = t, !.pos = w, !.vel = p.cmd] BY DEF Integrate
<1> HIDE DEF w, q
<1>5. /\ q \in Plants /\ SameDrive(p, q) /\ q.at = t /\ q.cmd = p.cmd
      /\ q.folded = p.folded /\ q.steps = p.steps
      /\ t # p.at => q.pos = w /\ q.vel = p.cmd
  BY <1>1, <1>3, <1>4 DEF Plants, SameDrive, w
<1> QED BY <1>5 DEF w, q

LEMMA BetweenSame ==
  ASSUME NEW p, NEW q, SameDrive(p, q), NEW a, NEW b
  PROVE  Between(q, a, b) = Between(p, a, b)
BY DEF Between, SameDrive, Sign

LEMMA BetweenNone == ASSUME NEW p \in Plants, NEW a \in Int PROVE Between(p, a, a) = 0
<1>1. Sign(p) \in {1, -1} BY DEF Sign
<1>2. EmittedAt(p.train, a) \in Int BY EmittedGrows DEF Plants
<1> QED BY <1>1, <1>2 DEF Between

LEMMA BetweenIsInt ==
  ASSUME NEW p \in Plants, NEW a \in Int, NEW b \in Int PROVE Between(p, a, b) \in Int
<1>1. Sign(p) \in {1, -1} BY DEF Sign
<1>2. EmittedAt(p.train, a) \in Int /\ EmittedAt(p.train, b) \in Int BY EmittedGrows DEF Plants
<1> QED BY <1>1, <1>2 DEF Between

LEMMA BetweenAdds ==
  ASSUME NEW p \in Plants, NEW a \in Int, NEW b \in Int, NEW c \in Int
  PROVE  /\ Between(p, a, b) \in Int /\ Between(p, a, a) = 0
         /\ Between(p, a, b) + Between(p, b, c) = Between(p, a, c)
<1>1. Sign(p) \in {1, -1} BY DEF Sign
<1>2. /\ EmittedAt(p.train, a) \in Int /\ EmittedAt(p.train, b) \in Int
      /\ EmittedAt(p.train, c) \in Int
  BY EmittedGrows DEF Plants
<1>4. Between(p, a, b) \in Int BY <1>1, <1>2 DEF Between
<1>5. Between(p, a, b) + Between(p, b, c) = Between(p, a, c)
  <2>1. CASE p.enabled /\ p.train # NoTrain
    <3>1. CASE Sign(p) = 1 BY <1>2, <2>1, <3>1 DEF Between
    <3>2. CASE Sign(p) = -1 BY <1>2, <2>1, <3>2 DEF Between
    <3> QED BY <1>1, <3>1, <3>2
  <2>2. CASE ~(p.enabled /\ p.train # NoTrain) BY <2>2 DEF Between
  <2> QED BY <2>1, <2>2
<1>6. Between(p, a, a) = 0 BY <1>1, <1>2 DEF Between
<1> QED BY <1>4, <1>5, <1>6

(* Has the drive's train stopped by the last reading, or before t?          *)
EndedBy(p)       == TrainEnd(p) # None /\ TrainEnd(p) <= p.at
EndsWithin(p, t) == TrainEnd(p) # None /\ p.at < TrainEnd(p) /\ TrainEnd(p) < t

LEMMA TrainEndIsInt == ASSUME NEW p \in Plants PROVE TrainEnd(p) \in Int
BY EndIsInt DEF TrainEnd, Plants, None

LEMMA StoppedFacts ==
  ASSUME NEW p \in Plants, NEW t \in Nat, p.at < t, FoldedAt(p, p.at)
  PROVE  LET s == Stopped(p, t)
         IN  /\ s \in Plants /\ SameDrive(p, s) /\ FoldedAt(s, s.at)
             /\ p.at <= s.at /\ s.at < t /\ s.steps = p.steps + Between(p, p.at, s.at)
             /\ EndedBy(p) => s.pos = p.pos /\ s.vel = p.vel /\ s.cmd = 0 /\ s.at = p.at
             /\ EndsWithin(p, t) =>
                  /\ s.pos = p.pos + p.cmd * (TrainEnd(p) - p.at) + (p.vel - p.cmd)
                  /\ s.vel = p.cmd /\ s.cmd = 0
             /\ ~EndedBy(p) /\ ~EndsWithin(p, t) =>
                  s.pos = p.pos /\ s.vel = p.vel /\ s.cmd = p.cmd /\ s.at = p.at
<1> DEFINE e == TrainEnd(p)
           s == Stopped(p, t)
<1>0. e \in Int /\ p.at \in Nat /\ Between(p, p.at, p.at) = 0 /\ p.steps + 0 = p.steps
  BY TrainEndIsInt, BetweenAdds DEF Plants
<1>1. CASE EndedBy(p)
  <2>1. s = [p EXCEPT !.cmd = 0] BY <1>1 DEF Stopped, EndedBy
  <2>2. ~EndsWithin(p, t) BY <1>0, <1>1 DEF EndedBy, EndsWithin
  <2> HIDE DEF s, e
  <2>3. /\ s \in Plants /\ SameDrive(p, s) /\ s.folded = p.folded
        /\ s.at = p.at /\ s.steps = p.steps /\ s.pos = p.pos /\ s.vel = p.vel /\ s.cmd = 0
    BY <2>1 DEF Plants, SameDrive
  <2>4. FoldedAt(s, s.at) BY <2>3 DEF FoldedAt, SameDrive
  <2> QED BY <1>0, <1>1, <2>2, <2>3, <2>4 DEF s
<1>2. CASE EndsWithin(p, t)
  <2> DEFINE f == Fold(p, e)
             g == Integrate(f, e)
  <2>1. s = [g EXCEPT !.cmd = 0] BY <1>0, <1>2 DEF Stopped, EndsWithin
  <2>2. ~EndedBy(p) /\ e \in Nat /\ p.at < e /\ e < t BY <1>0, <1>2 DEF EndedBy, EndsWithin
  <2>3. /\ f \in Plants /\ SameDrive(p, f)
        /\ f.at = p.at /\ f.vel = p.vel /\ f.pos = p.pos /\ f.cmd = p.cmd
        /\ FoldedAt(f, e) /\ f.steps = p.steps + Between(p, p.at, e)
    BY <1>0, <2>2, FoldFacts
  <2>4. /\ g \in Plants /\ SameDrive(f, g) /\ g.at = e /\ g.cmd = f.cmd
        /\ g.folded = f.folded /\ g.steps = f.steps
        /\ g.pos = f.pos + f.cmd * (e - f.at) + (f.vel - f.cmd) /\ g.vel = f.cmd
    <3> HIDE DEF f, e
    <3> QED BY <2>2, <2>3, IntegrateFacts
  <2> HIDE DEF f, g, s, e
  <2>5. /\ s \in Plants /\ SameDrive(p, s) /\ s.at = e /\ s.folded = f.folded /\ s.steps = f.steps
        /\ s.pos = g.pos /\ s.vel = g.vel /\ s.cmd = 0
    BY <2>1, <2>3, <2>4 DEF Plants, SameDrive
  <2>6. FoldedAt(s, s.at) BY <2>3, <2>5 DEF FoldedAt, SameDrive
  <2>7. s.pos = p.pos + p.cmd * (e - p.at) + (p.vel - p.cmd) /\ s.vel = p.cmd
    BY <2>3, <2>4, <2>5
  <2> QED BY <1>0, <1>2, <2>2, <2>3, <2>5, <2>6, <2>7 DEF s, e
<1>3. CASE ~EndedBy(p) /\ ~EndsWithin(p, t)
  <2>1. s = p BY <1>0, <1>3 DEF Stopped, EndedBy, EndsWithin
  <2> HIDE DEF s, e
  <2> QED BY <1>0, <1>3, <2>1 DEF SameDrive, s
<1> QED BY <1>1, <1>2, <1>3

(* A reading at t counts what was emitted since the last, and moves the     *)
(* carriage to where the command and the end of the train have taken it.    *)
LEMMA AdvanceFacts ==
  ASSUME NEW p \in Plants, NEW t \in Nat, FoldedAt(p, p.at)
  PROVE  LET q == Advance(p, t)
         IN  /\ q \in Plants /\ SameDrive(p, q) /\ FoldedAt(q, q.at)
             /\ q.at = Most(p.at, t) /\ q.steps = p.steps + Between(p, p.at, q.at)
             /\ p.at < t /\ EndedBy(p) => q.pos = p.pos + p.vel /\ q.vel = 0 /\ q.cmd = 0
             /\ p.at < t /\ EndsWithin(p, t) =>
                  /\ q.pos = p.pos + p.cmd * (TrainEnd(p) - p.at) + p.vel
                  /\ q.vel = 0 /\ q.cmd = 0
             /\ p.at < t /\ ~EndedBy(p) /\ ~EndsWithin(p, t) =>
                  /\ q.pos = p.pos + p.cmd * (t - p.at) + (p.vel - p.cmd)
                  /\ q.vel = p.cmd /\ q.cmd = p.cmd
<1> DEFINE q == Advance(p, t)
<1>0. p.at \in Nat BY DEF Plants
<1>1. CASE t <= p.at
  <2>1. q = p BY <1>1 DEF Advance
  <2>2. Most(p.at, t) = p.at /\ ~(p.at < t) BY <1>0, <1>1 DEF Most
  <2>3. SameDrive(p, p) /\ Between(p, p.at, p.at) = 0 /\ p.steps + 0 = p.steps
    BY <1>0, BetweenAdds DEF Plants, SameDrive
  <2> HIDE DEF q
  <2> QED BY <2>1, <2>2, <2>3 DEF q
<1>2. CASE p.at < t
  <2> DEFINE s == Stopped(p, t)
             f == Fold(s, t)
  <2>1. q = Integrate(f, t) /\ Most(p.at, t) = t BY <1>0, <1>2 DEF Advance, Most
  <2>2. /\ s \in Plants /\ SameDrive(p, s) /\ FoldedAt(s, s.at)
        /\ p.at <= s.at /\ s.at < t /\ s.steps = p.steps + Between(p, p.at, s.at)
        /\ s.at \in Int /\ s.pos \in Int /\ s.vel \in Int
    <3>1. s \in Plants BY <1>2, StoppedFacts
    <3>2. s.at \in Int /\ s.pos \in Int /\ s.vel \in Int BY <3>1 DEF Plants
    <3> QED BY <1>2, <3>2, StoppedFacts
  <2>3. /\ f \in Plants /\ SameDrive(s, f)
        /\ f.at = s.at /\ f.vel = s.vel /\ f.pos = s.pos /\ f.cmd = s.cmd
        /\ FoldedAt(f, t) /\ f.steps = s.steps + Between(s, s.at, t)
    <3> HIDE DEF s
    <3> QED BY <2>2, FoldFacts
  <2>4. /\ q \in Plants /\ SameDrive(f, q) /\ q.at = t /\ q.cmd = f.cmd
        /\ q.folded = f.folded /\ q.steps = f.steps
        /\ q.pos = f.pos + f.cmd * (t - f.at) + (f.vel - f.cmd) /\ q.vel = f.cmd
    <3> HIDE DEF f, s, q
    <3>1. f \in Plants /\ t # f.at BY <2>2, <2>3
    <3> QED BY <2>1, <3>1, IntegrateFacts
  <2>5. SameDrive(p, q) /\ FoldedAt(q, q.at)
    <3> HIDE DEF f, s, q
    <3> QED BY <2>2, <2>3, <2>4 DEF SameDrive, FoldedAt
  <2>6. q.steps = p.steps + Between(p, p.at, t)
    <3> HIDE DEF f, s, q
    <3>1. Between(s, s.at, t) = Between(p, s.at, t) BY <2>2, BetweenSame
    <3>2. /\ Between(p, p.at, s.at) \in Int /\ Between(p, s.at, t) \in Int
          /\ Between(p, p.at, s.at) + Between(p, s.at, t) = Between(p, p.at, t)
      <4>1. p.at \in Int /\ s.at \in Int /\ t \in Int BY <1>0, <2>2
      <4> QED BY <4>1, BetweenAdds
    <3>3. p.steps \in Int BY DEF Plants
    <3> QED BY <2>2, <2>3, <2>4, <3>1, <3>2, <3>3
  <2>7. q.pos = s.pos + s.cmd * (t - s.at) + (s.vel - s.cmd) /\ q.vel = s.cmd /\ q.cmd = s.cmd
    <3> HIDE DEF f, s, q
    <3> QED BY <2>3, <2>4
  <2>8. p.pos \in Int /\ p.cmd \in Int /\ p.vel \in Int /\ TrainEnd(p) \in Int
    BY TrainEndIsInt DEF Plants
  <2>9. ASSUME s.cmd = 0 PROVE q.pos = s.pos + s.vel /\ q.vel = 0 /\ q.cmd = 0
    <3> HIDE DEF f, s, q
    <3>1. 0 * (t - s.at) = 0 BY <2>2
    <3> QED BY <2>2, <2>7, <2>9, <3>1
  <2>10. CASE EndedBy(p)
    <3>1. s.pos = p.pos /\ s.vel = p.vel /\ s.cmd = 0 BY <1>2, <2>10, StoppedFacts
    <3>2. ~EndsWithin(p, t) BY <1>0, <2>8, <2>10 DEF EndedBy, EndsWithin
    <3> HIDE DEF f, s, q
    <3> QED BY <2>1, <2>4, <2>5, <2>6, <2>9, <2>10, <3>1, <3>2 DEF q
  <2>11. CASE EndsWithin(p, t)
    <3>1. /\ s.pos = p.pos + p.cmd * (TrainEnd(p) - p.at) + (p.vel - p.cmd)
          /\ s.vel = p.cmd /\ s.cmd = 0
      BY <1>2, <2>11, StoppedFacts
    <3>2. ~EndedBy(p) BY <1>0, <2>8, <2>11 DEF EndedBy, EndsWithin
    <3>3. p.cmd * (TrainEnd(p) - p.at) \in Int BY <1>0, <2>8
    <3> HIDE DEF f, s, q
    <3>4. q.pos = p.pos + p.cmd * (TrainEnd(p) - p.at) + p.vel BY <2>8, <2>9, <3>1, <3>3
    <3> QED BY <2>1, <2>4, <2>5, <2>6, <2>9, <2>11, <3>1, <3>2, <3>4 DEF q
  <2>12. CASE ~EndedBy(p) /\ ~EndsWithin(p, t)
    <3>1. s.pos = p.pos /\ s.vel = p.vel /\ s.cmd = p.cmd /\ s.at = p.at
      BY <1>2, <2>12, StoppedFacts
    <3> HIDE DEF f, s, q
    <3> QED BY <2>1, <2>4, <2>5, <2>6, <2>7, <2>12, <3>1 DEF q
  <2> QED BY <2>10, <2>11, <2>12
<1> QED BY <1>0, <1>1, <1>2

-----------------------------------------------------------------------------
(* Each pulse once.                                                         *)

Benches == [source : Trains, fought : BOOLEAN, dir : {"forward", "reverse", "none"},
            ena : {"on", "off"}, com : Int]
Tolds   == [step : Trains, dir : {"forward", "reverse", "none"}, ena : {"on", "off"}, com : Int]

Typed ==
  /\ now \in Nat /\ owed \in Int /\ calm \in Nat
  /\ bench \in Benches /\ told \in Tolds /\ plant \in Plants

(* The record is of a past instant, and right for it.                       *)
Recorded ==
  /\ plant.at <= now /\ plant.train = told.step /\ FoldedAt(plant, plant.at)
  /\ owed = plant.steps + Between(plant, plant.at, now)

(* A segment not yet told is new at this instant, or the one a fight took.  *)
Anchored ==
  /\ Step # NoTrain /\ told.step # Step => plant.ended = Step \/ Step.since = now
  /\ bench.fought /\ bench.source # NoTrain =>
       \/ told.step = bench.source
       \/ told.step = NoTrain /\ plant.ended = bench.source

PulseInv == Typed /\ Recorded /\ Anchored

LEMMA NoTrainIsOne == NoTrain \in Trains
BY DEF NoTrain, Trains, None

LEMMA PulseInit == Init => PulseInv
<1> SUFFICES ASSUME Init PROVE PulseInv OBVIOUS
<1>1. Typed
  BY NoTrainIsOne DEF Init, Typed, Benches, Tolds, Plants, Open
<1>2. plant.train = NoTrain /\ plant.at = 0 /\ plant.steps = 0 /\ now = 0 /\ owed = 0
      /\ told.step = NoTrain /\ bench.source = NoTrain
  BY DEF Init
<1>3. Recorded BY <1>2 DEF Recorded, FoldedAt, Between
<1>4. Anchored BY <1>2 DEF Anchored, Step
<1> QED BY <1>1, <1>3, <1>4 DEF PulseInv

(* The drive as it would be read now.                                       *)
Reading == Advance(plant, now)

LEMMA ReadingFacts ==
  ASSUME Typed, Recorded
  PROVE  /\ Reading \in Plants /\ SameDrive(plant, Reading) /\ Reading.at = now
         /\ FoldedAt(Reading, now) /\ Reading.steps = owed
<1>1. plant \in Plants /\ now \in Nat /\ plant.at \in Nat /\ plant.at <= now
      /\ FoldedAt(plant, plant.at) /\ owed = plant.steps + Between(plant, plant.at, now)
  BY DEF Typed, Recorded, Plants
<1>2. Most(plant.at, now) = now BY <1>1 DEF Most
<1> QED BY <1>1, <1>2, AdvanceFacts DEF Reading

(* A drive whose record is of now has its pulses.                           *)
LEMMA RecordedNow ==
  ASSUME plant' \in Plants, plant'.at = now, now' = now, now \in Nat, owed' = owed, owed \in Int,
         plant'.train = told'.step, FoldedAt(plant', now), plant'.steps = owed
  PROVE  Recorded'
<1>1. Between(plant', now, now) = 0 BY BetweenAdds
<1> QED BY <1>1 DEF Recorded

(* A segment is received.                                                   *)
LEMMA ReceiveFacts ==
  ASSUME PulseInv, NEW train \in Trains, plant.train # train,
         plant.ended = train \/ train.since = now
  PROVE  LET r == ReceiveTrain(plant, train)
         IN  /\ r \in Plants /\ r.at = now /\ r.steps = owed /\ r.train = train
             /\ FoldedAt(r, now) /\ r.ended = NoTrain /\ r.published = plant.published
<1> DEFINE from == IF Resumed(plant, train) THEN now ELSE train.since
           q == Fold(Reading, now)
           r == ReceiveTrain(plant, train)
<1>1. now \in Nat /\ plant \in Plants /\ plant.at \in Nat /\ plant.at <= now
  BY DEF PulseInv, Typed, Recorded, Plants
<1>2. from = now BY DEF Resumed
<1>3. Most(from, plant.at) = now BY <1>1, <1>2 DEF Most
<1>4. r = [q EXCEPT !.cmd = TrainRate(q, train), !.train = train,
                    !.folded = EmittedAt(train, now), !.ended = NoTrain]
  BY <1>2, <1>3 DEF ReceiveTrain, Reading
<1>5. /\ Reading \in Plants /\ SameDrive(plant, Reading) /\ Reading.at = now
      /\ FoldedAt(Reading, now) /\ Reading.steps = owed
  BY ReadingFacts DEF PulseInv
<1>6. /\ q \in Plants /\ q.at = now /\ q.steps = Reading.steps + Between(Reading, now, now)
      /\ SameDrive(Reading, q)
  BY <1>1, <1>5, FoldFacts
<1>7. Between(Reading, now, now) = 0 /\ owed + 0 = owed
  BY <1>1, <1>5, BetweenNone DEF PulseInv, Typed
<1>8. TrainRate(q, train) \in Int BY DEF TrainRate, Sign, Trains
<1>9. EmittedAt(train, now) \in Nat BY <1>1, EmittedGrows
<1> HIDE DEF q, r, from
<1>10. /\ r \in Plants /\ r.at = now /\ r.steps = q.steps /\ r.train = train
       /\ r.folded = EmittedAt(train, now) /\ r.ended = NoTrain /\ r.published = q.published
  BY <1>4, <1>6, <1>8, <1>9, NoTrainIsOne DEF Plants
<1>11. FoldedAt(r, now) BY <1>10 DEF FoldedAt
<1>12. q.published = plant.published BY <1>5, <1>6 DEF SameDrive
<1> QED BY <1>5, <1>6, <1>7, <1>10, <1>11, <1>12 DEF r

LEMMA EndFacts ==
  ASSUME PulseInv, plant.train # NoTrain
  PROVE  LET r == EndTrain(plant)
         IN  /\ r \in Plants /\ r.at = now /\ r.steps = owed /\ r.train = NoTrain
             /\ FoldedAt(r, now) /\ r.ended = plant.train /\ r.published = plant.published
<1> DEFINE q == Fold(Reading, now)
           r == EndTrain(plant)
<1>1. now \in Nat BY DEF PulseInv, Typed
<1>4. r = [q EXCEPT !.ended = q.train, !.train = NoTrain, !.folded = 0, !.cmd = 0]
  BY DEF EndTrain, Reading
<1>5. /\ Reading \in Plants /\ SameDrive(plant, Reading) /\ Reading.at = now
      /\ FoldedAt(Reading, now) /\ Reading.steps = owed
  BY ReadingFacts DEF PulseInv
<1>6. q \in Plants /\ q.at = now /\ q.steps = Reading.steps + Between(Reading, now, now)
      /\ SameDrive(Reading, q)
  BY <1>1, <1>5, FoldFacts
<1>7. Between(Reading, now, now) = 0 /\ owed + 0 = owed
  BY <1>1, <1>5, BetweenNone DEF PulseInv, Typed
<1> HIDE DEF q, r
<1>9. q.train = plant.train /\ q.published = plant.published /\ q.train \in Trains
  BY <1>5, <1>6 DEF SameDrive, Plants
<1>10. /\ r \in Plants /\ r.at = now /\ r.steps = q.steps /\ r.train = NoTrain
       /\ r.ended = q.train /\ r.published = q.published
  <2>1. PICK f \in Nat, c \in Int :
          r = [q EXCEPT !.ended = q.train, !.train = NoTrain, !.folded = f, !.cmd = c]
    <3>1. 0 \in Nat /\ 0 \in Int OBVIOUS
    <3> QED BY <1>4, <3>1, Zenon
  <2> QED BY <1>6, <1>9, <2>1, NoTrainIsOne DEF Plants
<1>11. FoldedAt(r, now) BY <1>10 DEF FoldedAt
<1> QED BY <1>5, <1>6, <1>7, <1>9, <1>10, <1>11 DEF r

(* What a sense of DIR or ENA leaves of the record.                         *)
LEMMA SwayFacts ==
  ASSUME PulseInv, NEW r, \/ \E level \in {"forward", "reverse", "none"} : r = SetDir(plant, level)
                          \/ \E level \in {"on", "off"} : r = SetEna(plant, level)
  PROVE  /\ r \in Plants /\ r.at = now /\ r.steps = owed /\ r.train = plant.train
         /\ FoldedAt(r, now) /\ r.ended = plant.ended /\ r.published = plant.published
<1>1. /\ Reading \in Plants /\ SameDrive(plant, Reading) /\ Reading.at = now
      /\ FoldedAt(Reading, now) /\ Reading.steps = owed
  BY ReadingFacts DEF PulseInv
<1>2. ASSUME NEW q \in Plants
      PROVE  /\ Recommanded(q) \in Plants /\ Recommanded(q).at = q.at
             /\ Recommanded(q).steps = q.steps /\ Recommanded(q).train = q.train
             /\ Recommanded(q).folded = q.folded /\ Recommanded(q).ended = q.ended
             /\ Recommanded(q).published = q.published
  <2>1. TrainRate(q, q.train) \in Int BY DEF TrainRate, Sign, Trains, Plants
  <2> QED BY <2>1 DEF Recommanded, Plants
<1>3. ASSUME NEW q \in Plants, r = Recommanded(q), q.at = now, q.steps = owed,
             q.train = plant.train, q.ended = plant.ended, q.folded = Reading.folded,
             q.published = plant.published
      PROVE  /\ r \in Plants /\ r.at = now /\ r.steps = owed /\ r.train = plant.train
             /\ FoldedAt(r, now) /\ r.ended = plant.ended /\ r.published = plant.published
  BY <1>1, <1>2, <1>3 DEF FoldedAt, SameDrive
<1>4. ASSUME NEW level \in {"forward", "reverse", "none"}, r = SetDir(plant, level)
      PROVE  /\ r \in Plants /\ r.at = now /\ r.steps = owed /\ r.train = plant.train
             /\ FoldedAt(r, now) /\ r.ended = plant.ended /\ r.published = plant.published
  <2>1. CASE level = "none"
    <3>1. r = Reading BY <1>4, <2>1 DEF SetDir, Reading
    <3> QED BY <1>1, <3>1 DEF SameDrive
  <2>2. CASE level # "none"
    <3> DEFINE q == [Reading EXCEPT !.forward = level = "forward"]
    <3>1. r = Recommanded(q) BY <1>4, <2>2 DEF SetDir, Reading
    <3>2. (level = "forward") \in BOOLEAN OBVIOUS
    <3>3. /\ q \in Plants /\ q.at = now /\ q.steps = owed
          /\ q.train = plant.train /\ q.ended = plant.ended /\ q.folded = Reading.folded
          /\ q.published = plant.published
      BY <1>1, <3>2 DEF Plants, SameDrive
    <3> HIDE DEF q
    <3> QED BY <1>3, <3>1, <3>3
  <2> QED BY <2>1, <2>2
<1>5. ASSUME NEW level \in {"on", "off"}, r = SetEna(plant, level)
      PROVE  /\ r \in Plants /\ r.at = now /\ r.steps = owed /\ r.train = plant.train
             /\ FoldedAt(r, now) /\ r.ended = plant.ended /\ r.published = plant.published
  <2> DEFINE c == IF Reading.enabled /\ level # "on" THEN 0 ELSE Reading.cmd
             q == [Reading EXCEPT !.enabled = level = "on", !.cmd = c]
  <2>1. r = Recommanded(q) BY <1>5 DEF SetEna, Reading
  <2>2. (level = "on") \in BOOLEAN /\ c \in Int BY <1>1 DEF Plants
  <2> HIDE DEF c
  <2>3. /\ q \in Plants /\ q.at = now /\ q.steps = owed
        /\ q.train = plant.train /\ q.ended = plant.ended /\ q.folded = Reading.folded
        /\ q.published = plant.published
    BY <1>1, <2>2 DEF Plants, SameDrive
  <2> HIDE DEF q
  <2> QED BY <1>3, <2>1, <2>3
<1> QED BY <1>4, <1>5

(* The steps.                                                               *)
LEMMA StepOfIs == ASSUME Typed PROVE Step \in Trains
BY NoTrainIsOne DEF Typed, Benches, Step

LEMMA SenseStepPulses ==
  ASSUME PulseInv, SenseStep
  PROVE  PulseInv'
<1>1. /\ told.step # Step /\ told' = [told EXCEPT !.step = Step]
      /\ plant' = IF Step = NoTrain THEN EndTrain(plant) ELSE ReceiveTrain(plant, Step)
      /\ calm' = 0 /\ now' = now /\ bench' = bench /\ owed' = owed
  BY DEF SenseStep
<1>2. /\ now \in Nat /\ owed \in Int /\ bench \in Benches /\ told \in Tolds /\ plant \in Plants
      /\ plant.train = told.step /\ Step \in Trains
  BY StepOfIs DEF PulseInv, Typed, Recorded
<1>3. told' \in Tolds /\ told'.step = Step /\ Step' = Step BY <1>1, <1>2 DEF Tolds, Step
<1>4. /\ plant' \in Plants /\ plant'.at = now /\ plant'.steps = owed /\ plant'.train = Step
      /\ FoldedAt(plant', now)
      /\ Step = NoTrain => plant'.ended = plant.train
  <2>1. CASE Step = NoTrain
    <3>1. plant.train # NoTrain BY <1>1, <1>2, <2>1
    <3> QED BY <1>1, <2>1, <3>1, EndFacts
  <2>2. CASE Step # NoTrain
    <3>1. plant.ended = Step \/ Step.since = now BY <1>1, <2>2 DEF PulseInv, Anchored
    <3>2. plant.train # Step BY <1>1, <1>2
    <3> QED BY <1>1, <1>2, <2>2, <3>1, <3>2, ReceiveFacts
  <2> QED BY <2>1, <2>2
<1>5. Recorded' BY <1>1, <1>2, <1>3, <1>4, RecordedNow
<1>6. Anchored'
  <2> SUFFICES ASSUME bench.fought, bench.source # NoTrain
               PROVE  told'.step = NoTrain /\ plant'.ended = bench.source
    BY <1>1, <1>3 DEF Anchored
  <2>1. Step = NoTrain BY DEF Step
  <2>2. told.step = bench.source BY <1>1, <2>1 DEF PulseInv, Anchored
  <2> QED BY <1>2, <1>3, <1>4, <2>1, <2>2
<1>7. Typed' BY <1>1, <1>2, <1>3, <1>4 DEF Typed
<1> QED BY <1>5, <1>6, <1>7 DEF PulseInv

(* A step that leaves the segment where it is.                              *)
LEMMA AnchoredStays ==
  ASSUME Anchored, bench' = bench, now' = now, told'.step = told.step, plant'.ended = plant.ended
  PROVE  Anchored'
BY DEF Anchored, Step

LEMMA SenseOtherPulses ==
  ASSUME PulseInv, SenseDir \/ SenseEna
  PROVE  PulseInv'
<1>1. /\ calm' = 0 /\ now' = now /\ bench' = bench /\ owed' = owed
      /\ \/ told' = [told EXCEPT !.dir = bench.dir] /\ plant' = SetDir(plant, bench.dir)
         \/ told' = [told EXCEPT !.ena = bench.ena] /\ plant' = SetEna(plant, bench.ena)
  BY DEF SenseDir, SenseEna
<1>2. /\ now \in Nat /\ owed \in Int /\ bench \in Benches /\ told \in Tolds /\ plant \in Plants
      /\ plant.train = told.step /\ bench.dir \in {"forward", "reverse", "none"}
      /\ bench.ena \in {"on", "off"}
  BY DEF PulseInv, Typed, Recorded, Benches
<1>3. told' \in Tolds /\ told'.step = told.step BY <1>1, <1>2 DEF Tolds
<1>4. /\ plant' \in Plants /\ plant'.at = now /\ plant'.steps = owed /\ plant'.train = plant.train
      /\ FoldedAt(plant', now) /\ plant'.ended = plant.ended
  BY <1>1, <1>2, SwayFacts
<1>5. Recorded' BY <1>1, <1>2, <1>3, <1>4, RecordedNow
<1>6. Anchored' BY <1>1, <1>3, <1>4, AnchoredStays DEF PulseInv
<1>7. Typed' BY <1>1, <1>2, <1>3, <1>4 DEF Typed
<1> QED BY <1>5, <1>6, <1>7 DEF PulseInv

(* Somebody looks: the motor's own observation, or a thread of the host.    *)
LEMMA WholeIsInt == ASSUME NEW pos \in Int PROVE WholeSteps(pos) \in Int
<1>1. ASSUME NEW x \in Int PROVE x \div 2 \in Int BY <1>1
<1>2. (pos + 1) \div 2 \in Int /\ (1 - pos) \div 2 \in Int BY <1>1
<1> QED BY <1>2 DEF WholeSteps

LEMMA ReadPulses ==
  ASSUME PulseInv, WakeMotor \/ ReadShaft
  PROVE  PulseInv'
<1>1. /\ UNCHANGED <<now, bench, told, owed, calm>>
      /\ \/ plant' = Reading
         \/ plant' = [Reading EXCEPT !.emitted = WholeSteps(Reading.pos), !.published = Reading.pos]
  BY DEF WakeMotor, ReadShaft, Reading, past
<1>2. /\ now \in Nat /\ owed \in Int /\ plant.train = told.step /\ told \in Tolds
  BY DEF PulseInv, Typed, Recorded
<1>3. /\ Reading \in Plants /\ SameDrive(plant, Reading) /\ Reading.at = now
      /\ FoldedAt(Reading, now) /\ Reading.steps = owed
  BY ReadingFacts DEF PulseInv
<1>4. Reading.pos \in Int /\ WholeSteps(Reading.pos) \in Int BY <1>3, WholeIsInt DEF Plants
<1>5. /\ plant' \in Plants /\ plant'.at = now /\ plant'.steps = owed /\ plant'.train = plant.train
      /\ plant'.folded = Reading.folded /\ plant'.ended = plant.ended
  BY <1>1, <1>3, <1>4 DEF Plants, SameDrive
<1>6. FoldedAt(plant', now) BY <1>3, <1>5 DEF FoldedAt, SameDrive
<1>7. Recorded' BY <1>1, <1>2, <1>5, <1>6, RecordedNow
<1>8. Anchored' BY <1>1, <1>5, AnchoredStays DEF PulseInv
<1>9. Typed' BY <1>1, <1>5 DEF PulseInv, Typed
<1> QED BY <1>7, <1>8, <1>9 DEF PulseInv

(* The bench moves a net.                                                   *)
LEMMA BenchPulses ==
  ASSUME PulseInv, BenchStep
  PROVE  PulseInv'
<1>0. bench \in Benches /\ now \in Nat /\ NoTrain \in Trains BY NoTrainIsOne DEF PulseInv, Typed
<1>1. UNCHANGED <<now, told, plant, owed, calm>> BY DEF BenchStep, Moves, past
<1>2. Recorded' BY <1>1 DEF PulseInv, Recorded, FoldedAt, Between
<1>3. CASE /\ ~bench.fought
           /\ \/ Moves("source", NoTrain)
              \/ \E f \in Rates, n \in Totals :
                   Moves("source", [freq |-> f, total |-> n, since |-> now])
  <2>1. PICK train \in Trains : /\ bench' = [bench EXCEPT !.source = train]
                                /\ train = NoTrain \/ train.since = now
    <3>1. CASE Moves("source", NoTrain)
      <4>1. bench' = [bench EXCEPT !.source = NoTrain] BY <3>1 DEF Moves
      <4> QED BY <1>0, <4>1
    <3>2. ASSUME NEW f \in Rates, NEW n \in Totals,
                 Moves("source", [freq |-> f, total |-> n, since |-> now])
          PROVE  \E train \in Trains : /\ bench' = [bench EXCEPT !.source = train]
                                       /\ train = NoTrain \/ train.since = now
      <4> DEFINE train == [freq |-> f, total |-> n, since |-> now]
      <4>1. train \in Trains /\ train.since = now BY <1>0, AxisAssumption DEF Trains
      <4>2. bench' = [bench EXCEPT !.source = train] BY <3>2 DEF Moves
      <4> HIDE DEF train
      <4> QED BY <4>1, <4>2
    <3> QED BY <1>3, <3>1, <3>2
  <2>2. bench' \in Benches /\ bench'.source = train /\ (bench'.fought <=> bench.fought)
    BY <1>0, <2>1 DEF Benches
  <2>3. Step' = train BY <1>3, <2>2 DEF Step
  <2>4. Anchored' BY <1>1, <1>3, <2>1, <2>2, <2>3 DEF Anchored
  <2> QED BY <1>1, <1>2, <2>2, <2>4 DEF PulseInv, Typed
<1>4. CASE told.step = Step /\ Moves("fought", ~bench.fought)
  <2>1. bench' = [bench EXCEPT !.fought = ~bench.fought] BY <1>4 DEF Moves
  <2>2. bench' \in Benches /\ bench'.source = bench.source /\ (bench'.fought <=> ~bench.fought)
    BY <1>0, <2>1 DEF Benches
  <2>3. Anchored'
    <3>1. CASE bench.fought
      <4>1. Step' = bench.source /\ Step = NoTrain BY <2>2, <3>1 DEF Step
      <4> QED BY <1>1, <1>4, <2>2, <3>1, <4>1 DEF PulseInv, Anchored
    <3>2. CASE ~bench.fought
      <4>1. Step' = NoTrain /\ Step = bench.source BY <2>2, <3>2 DEF Step
      <4> QED BY <1>1, <1>4, <2>2, <4>1 DEF Anchored
    <3> QED BY <3>1, <3>2
  <2> QED BY <1>1, <1>2, <2>2, <2>3 DEF PulseInv, Typed
<1>5. CASE \/ \E v \in {"forward", "reverse", "none"} : Moves("dir", v)
           \/ \E v \in {"on", "off"} : Moves("ena", v)
           \/ \E v \in {Open, 1} : Moves("com", v)
  <2>1. \/ \E v \in {"forward", "reverse", "none"} : bench' = [bench EXCEPT !.dir = v]
        \/ \E v \in {"on", "off"} : bench' = [bench EXCEPT !.ena = v]
        \/ \E v \in {Open, 1} : bench' = [bench EXCEPT !.com = v]
    BY <1>5 DEF Moves
  <2>2. bench' \in Benches /\ bench'.source = bench.source /\ (bench'.fought <=> bench.fought)
    BY <1>0, <2>1 DEF Benches, Open
  <2>3. Step' = Step BY <2>2 DEF Step
  <2>4. Anchored' BY <1>1, <2>2, <2>3 DEF PulseInv, Anchored
  <2> QED BY <1>1, <1>2, <2>2, <2>4 DEF PulseInv, Typed
<1> QED BY <1>3, <1>4, <1>5 DEF BenchStep

(* A tick: what reaches the drive is owed.                                  *)
LEMMA TickPulses ==
  ASSUME PulseInv, Tick
  PROVE  PulseInv'
<1>1. /\ now' = now + 1 /\ told = Nets
      /\ owed' = owed + Between(plant, now, now + 1)
      /\ calm' = IF Advance(plant, now + 1).pos = Advance(plant, now).pos THEN calm + 1 ELSE 0
      /\ UNCHANGED <<bench, told, plant>>
  BY DEF Tick, Between
<1>2. /\ now \in Nat /\ owed \in Int /\ calm \in Nat /\ plant \in Plants /\ plant.at \in Int
      /\ plant.at <= now /\ plant.steps \in Int /\ owed = plant.steps + Between(plant, plant.at, now)
  BY DEF PulseInv, Typed, Recorded, Plants
<1>3. /\ Between(plant, plant.at, now) \in Int /\ Between(plant, now, now + 1) \in Int
      /\ Between(plant, plant.at, now) + Between(plant, now, now + 1) = Between(plant, plant.at, now + 1)
  <2>1. ASSUME NEW u \in Int
        PROVE  /\ Between(plant, plant.at, now) \in Int /\ Between(plant, now, u) \in Int
               /\ Between(plant, plant.at, now) + Between(plant, now, u) = Between(plant, plant.at, u)
    <3>1. now \in Int BY <1>2
    <3>2. Between(plant, plant.at, now) \in Int /\ Between(plant, now, u) \in Int
      BY <1>2, <3>1, BetweenIsInt
    <3>3. Between(plant, plant.at, now) + Between(plant, now, u) = Between(plant, plant.at, u)
      BY <1>2, <3>1, BetweenAdds
    <3> QED BY <3>2, <3>3
  <2>2. now + 1 \in Int BY <1>2
  <2> QED BY <2>1, <2>2
<1>4. owed' = plant.steps + Between(plant, plant.at, now + 1) /\ owed' \in Int
  BY <1>1, <1>2, <1>3
<1>5. Recorded'
  BY <1>1, <1>2, <1>4 DEF PulseInv, Recorded, FoldedAt, Between
<1>6. Anchored'
  <2>1. told.step = Step /\ Step' = Step BY <1>1 DEF Nets, Step
  <2> QED BY <1>1, <2>1 DEF PulseInv, Anchored
<1>7. Typed' BY <1>1, <1>2, <1>4 DEF PulseInv, Typed
<1> QED BY <1>5, <1>6, <1>7 DEF PulseInv

LEMMA PulseStep == ASSUME PulseInv, [Next]_vars PROVE PulseInv'
<1>1. CASE Dispatch \/ WakeSwitch \/ UNCHANGED vars
  <2>1. UNCHANGED <<now, bench, told, plant, owed, calm>>
    BY <1>1 DEF Dispatch, WakeSwitch, vars, past
  <2> QED BY <2>1 DEF PulseInv, Typed, Recorded, Anchored, Step, FoldedAt, Between
<1>2. CASE SenseCom
  <2>1. UNCHANGED <<now, bench, plant, owed, calm>> /\ told' = [told EXCEPT !.com = bench.com]
    BY <1>2 DEF SenseCom, past
  <2>2. told' \in Tolds /\ told'.step = told.step
    BY <2>1 DEF PulseInv, Typed, Tolds, Benches
  <2> QED BY <2>1, <2>2 DEF PulseInv, Typed, Recorded, Anchored, Step, FoldedAt, Between
<1> QED
  BY <1>1, <1>2, SenseStepPulses, SenseOtherPulses, ReadPulses, BenchPulses, TickPulses DEF Next

LEMMA PulseAlways == Spec => []PulseInv
<1>1. PulseInv /\ [Next]_vars => PulseInv' BY PulseStep
<1> QED BY PulseInit, <1>1, PTL DEF Spec

(* Whenever the shaft is read (stepper_motor.rs, Plant::advance), every     *)
(* pulse that reached the drive is in its count once, with the direction it *)
(* arrived under and only if the drive was on: for any rates, ceilings,     *)
(* reversals, readers and fights over STEP.                                 *)
THEOREM PulsesCountedOnceAlways == Spec => []PulsesCountedOnce
<1>1. PulseInv => PulsesCountedOnce
  BY ReadingFacts DEF PulseInv, PulsesCountedOnce, Reading
<1> QED BY PulseAlways, <1>1, PTL

-----------------------------------------------------------------------------
(* At rest the encoder is where the carriage stands.                        *)

(* One tick: the lag is out, and the command stays unless the train ended.  *)
LEMMA TickFacts ==
  ASSUME NEW p \in Plants, NEW t \in Nat, p.at <= t, FoldedAt(p, p.at)
  PROVE  LET q == Advance(p, t)
             r == Advance(p, t + 1)
         IN  r.pos = q.pos + q.vel /\ r.vel = r.cmd /\ (r.cmd = 0 \/ r.cmd = q.cmd)
<1> DEFINE q == Advance(p, t)
           r == Advance(p, t + 1)
           e == TrainEnd(p)
<1>0. /\ p.at \in Nat /\ p.pos \in Int /\ p.vel \in Int /\ p.cmd \in Int /\ e \in Int
      /\ t + 1 \in Nat /\ p.at < t + 1
  BY TrainEndIsInt DEF Plants
<1>1. ASSUME NEW u \in Nat, p.at < u
      PROVE  LET w == Advance(p, u)
             IN  /\ EndedBy(p) => w.pos = p.pos + p.vel /\ w.vel = 0 /\ w.cmd = 0
                 /\ EndsWithin(p, u) =>
                      w.pos = p.pos + p.cmd * (e - p.at) + p.vel /\ w.vel = 0 /\ w.cmd = 0
                 /\ ~EndedBy(p) /\ ~EndsWithin(p, u) =>
                      /\ w.pos = p.pos + p.cmd * (u - p.at) + (p.vel - p.cmd)
                      /\ w.vel = p.cmd /\ w.cmd = p.cmd
  BY <1>1, AdvanceFacts
<1>2. /\ EndedBy(p) => r.pos = p.pos + p.vel /\ r.vel = 0 /\ r.cmd = 0
      /\ EndsWithin(p, t + 1) => r.pos = p.pos + p.cmd * (e - p.at) + p.vel /\ r.vel = 0 /\ r.cmd = 0
      /\ ~EndedBy(p) /\ ~EndsWithin(p, t + 1) =>
           r.pos = p.pos + p.cmd * (t + 1 - p.at) + (p.vel - p.cmd) /\ r.vel = p.cmd /\ r.cmd = p.cmd
  <2> HIDE DEF e
  <2> QED BY <1>0, <1>1
<1>6. /\ p.at < t /\ EndedBy(p) => q.pos = p.pos + p.vel /\ q.vel = 0 /\ q.cmd = 0
      /\ p.at < t /\ EndsWithin(p, t) =>
           q.pos = p.pos + p.cmd * (e - p.at) + p.vel /\ q.vel = 0 /\ q.cmd = 0
      /\ p.at < t /\ ~EndedBy(p) /\ ~EndsWithin(p, t) =>
           q.pos = p.pos + p.cmd * (t - p.at) + (p.vel - p.cmd) /\ q.vel = p.cmd /\ q.cmd = p.cmd
  <2> HIDE DEF e
  <2> QED BY <1>0, <1>1
<1>3. p.at = t => q = p BY DEF Advance
<1> HIDE DEF q, r, e
<1>4. /\ p.cmd * (t - p.at) \in Int /\ p.cmd * (e - p.at) \in Int /\ p.cmd * 1 = p.cmd
      /\ p.cmd * (t + 1 - p.at) = p.cmd * (t - p.at) + p.cmd
  BY <1>0
<1>5. r.pos = q.pos + q.vel /\ r.vel = r.cmd /\ (r.cmd = 0 \/ r.cmd = q.cmd)
  <2>1. CASE EndedBy(p)
    <3>1. r.pos = p.pos + p.vel /\ r.vel = 0 /\ r.cmd = 0 BY <1>2, <2>1
    <3>2. CASE p.at = t BY <1>3, <3>1, <3>2
    <3>3. CASE p.at < t BY <1>0, <1>6, <2>1, <3>1, <3>3
    <3> QED BY <1>0, <3>2, <3>3
  <2>2. CASE ~EndedBy(p) /\ EndsWithin(p, t + 1)
    <3>1. r.pos = p.pos + p.cmd * (e - p.at) + p.vel /\ r.vel = 0 /\ r.cmd = 0 BY <1>2, <2>2
    <3>2. e # None /\ p.at < e /\ e <= t BY <1>0, <2>2 DEF EndsWithin, e
    <3>3. CASE e < t
      <4>1. EndsWithin(p, t) BY <3>2, <3>3 DEF EndsWithin, e
      <4> QED BY <1>0, <1>6, <1>4, <3>1, <3>2, <4>1
    <3>4. CASE e = t
      <4>1. ~EndsWithin(p, t) BY <1>0, <3>4 DEF EndsWithin, e
      <4> QED BY <1>0, <1>6, <1>4, <2>2, <3>1, <3>2, <3>4, <4>1
    <3> QED BY <1>0, <3>2, <3>3, <3>4
  <2>3. CASE ~EndedBy(p) /\ ~EndsWithin(p, t + 1)
    <3>1. r.pos = p.pos + (p.cmd * (t - p.at) + p.cmd) + (p.vel - p.cmd) /\ r.vel = p.cmd /\ r.cmd = p.cmd
      BY <1>2, <1>4, <2>3
    <3>2. CASE p.at = t
      <4>1. p.cmd * (t - p.at) = 0 BY <1>0, <3>2
      <4> QED BY <1>0, <1>3, <3>1, <3>2, <4>1
    <3>3. CASE p.at < t
      <4>1. ~EndsWithin(p, t) BY <1>0, <2>3 DEF EndsWithin, e
      <4> QED BY <1>0, <1>6, <1>4, <2>3, <3>1, <3>3, <4>1
    <3> QED BY <1>0, <3>2, <3>3
  <2> QED BY <2>1, <2>2, <2>3
<1> QED BY <1>5 DEF q, r

(* A carriage that has stood for two ticks has nothing left to move it; the *)
(* encoder is where the drive last published; and from the observation that *)
(* found the carriage so, until it moves, that is where it stands.          *)
Rested  == /\ calm >= 1 => Reading.cmd = Reading.vel
           /\ calm >= 2 => Reading.vel = 0 /\ Reading.cmd = 0
Follows == /\ encoder.count = plant.published
           /\ encoder.snapped \/ encoder.counter = encoder.count
           /\ encoder.count \in Int /\ encoder.counter \in Int /\ encoder.snapped \in BOOLEAN
Watched == next \in wheel /\ next \in Nat /\ next <= now + Cadence
Seen    == "motor" \notin due /\ calm >= now - next + Cadence + 2 => encoder.count = Reading.pos

RestInv == PulseInv /\ Rested /\ Follows /\ Watched /\ Seen

LEMMA RestInit == Init => RestInv
<1> SUFFICES ASSUME Init PROVE RestInv OBVIOUS
<1>1. PulseInv BY PulseInit
<1>2. /\ now = 0 /\ calm = 0 /\ next = Cadence /\ wheel = {Cadence}
      /\ encoder = [count |-> 0, counter |-> 0, snapped |-> FALSE] /\ plant.published = 0
  BY DEF Init
<1>3. Cadence \in Nat BY AxisAssumption
<1>4. Rested BY <1>2 DEF Rested
<1>5. Follows
  <2>1. encoder.count = 0 /\ encoder.counter = 0 /\ ~encoder.snapped /\ encoder.snapped \in BOOLEAN
    BY <1>2
  <2> QED BY <1>2, <2>1 DEF Follows
<1>6. Watched BY <1>2, <1>3 DEF Watched
<1>7. Seen BY <1>2, <1>3 DEF Seen
<1> QED BY <1>1, <1>4, <1>5, <1>6, <1>7 DEF RestInv

(* Nothing is known of a carriage that was just moved or swayed.            *)
LEMMA RestRestarts ==
  ASSUME calm' = 0, Watched', now' \in Nat PROVE Rested' /\ Seen'
<1>1. Cadence \in Nat /\ next' \in Nat /\ next' <= now' + Cadence
  BY AxisAssumption DEF Watched
<1>2. /\ ~(calm' >= 1) /\ ~(calm' >= 2)
      /\ ~(calm' >= now' - next' + Cadence + 2)
  <2>1. ASSUME NEW n \in Nat, NEW x \in Nat, NEW c \in Nat, x <= n + c, NEW k, k = 0
        PROVE  ~(k >= 1) /\ ~(k >= 2) /\ ~(k >= n - x + c + 2)
    BY <2>1
  <2> QED BY <1>1, <2>1
<1>3. Rested' BY <1>2, Zenon DEF Rested
<1>4. Seen' BY <1>2, Zenon DEF Seen
<1> QED BY <1>3, <1>4

(* Reading again at the same instant reads the same.                        *)
LEMMA ReadingAgain ==
  ASSUME NEW p \in Plants, p.at = now PROVE Advance(p, now) = p
<1>1. now <= p.at BY DEF Plants
<1> QED BY <1>1 DEF Advance

LEMMA SenseRest == ASSUME RestInv, SenseStep \/ SenseDir \/ SenseEna PROVE RestInv'
<1>1. UNCHANGED <<now, bench, encoder, next, wheel>> /\ calm' = 0 BY DEF SenseStep, SenseDir, SenseEna, hosted
<1>2. PulseInv' BY SenseStepPulses, SenseOtherPulses DEF RestInv
<1>3. plant'.published = plant.published
  <2>1. CASE SenseStep
    <3>1. /\ told.step # Step
          /\ plant' = IF Step = NoTrain THEN EndTrain(plant) ELSE ReceiveTrain(plant, Step)
      BY <2>1 DEF SenseStep
    <3>2. Step \in Trains /\ plant.train # Step
      BY <3>1, StepOfIs DEF RestInv, PulseInv, Recorded
    <3>3. Step # NoTrain => plant.ended = Step \/ Step.since = now
      BY <3>1 DEF RestInv, PulseInv, Anchored
    <3> QED BY <3>1, <3>2, <3>3, EndFacts, ReceiveFacts DEF RestInv
  <2>2. CASE SenseDir \/ SenseEna
    <3>1. bench.dir \in {"forward", "reverse", "none"} /\ bench.ena \in {"on", "off"}
      BY DEF RestInv, PulseInv, Typed, Benches
    <3>2. plant' = SetDir(plant, bench.dir) \/ plant' = SetEna(plant, bench.ena)
      BY <2>2 DEF SenseDir, SenseEna
    <3> QED BY <3>1, <3>2, SwayFacts DEF RestInv
  <2> QED BY <2>1, <2>2
<1>4. Watched' BY <1>1 DEF RestInv, Watched
<1>5. now' \in Nat BY <1>2 DEF PulseInv, Typed
<1>6. Rested' /\ Seen' BY <1>1, <1>4, <1>5, RestRestarts
<1>7. Follows' BY <1>1, <1>3 DEF RestInv, Follows
<1> QED BY <1>2, <1>4, <1>6, <1>7 DEF RestInv

(* Arming adds an instant to the wheel and takes none.                      *)
LEMMA ArmAdds == ASSUME NEW c, Arm(c), Watched, UNCHANGED <<now, next>> PROVE Watched'
BY DEF Arm, Watched

LEMMA WalkFacts ==
  ASSUME NEW target \in Int, Follows
  PROVE  LET e == SetCount(encoder, target)
         IN  /\ e.count = target /\ e.count \in Int /\ e.counter \in Int /\ e.snapped \in BOOLEAN
             /\ e.snapped \/ e.counter = e.count
<1>1. /\ encoder.count \in Int /\ encoder.counter \in Int /\ encoder.snapped \in BOOLEAN
      /\ encoder.snapped \/ encoder.counter = encoder.count
  BY DEF Follows
<1>2. MaxWalk \in Nat BY AxisAssumption
<1> DEFINE d == target - encoder.count
<1>3. d \in Int /\ encoder.count + d = target BY <1>1
<1> HIDE DEF d
<1>4. Read(d) \in Int /\ (Abs(d) <= MaxWalk => Read(d) = d) /\ Abs(d) \in Int BY <1>3 DEF Read, Abs
<1> DEFINE e == SetCount(encoder, target)
<1>5. PICK k \in Int, z \in BOOLEAN :
        /\ e = [count |-> target, counter |-> k, snapped |-> z]
        /\ k = encoder.counter + Read(d) /\ (z <=> encoder.snapped \/ Abs(d) > MaxWalk)
  <2>1. encoder.counter + Read(d) \in Int BY <1>1, <1>4
  <2>2. (encoder.snapped \/ Abs(d) > MaxWalk) \in BOOLEAN OBVIOUS
  <2>3. e = [count |-> target, counter |-> encoder.counter + Read(d),
             snapped |-> encoder.snapped \/ Abs(d) > MaxWalk]
    BY DEF SetCount, d
  <2> HIDE DEF e
  <2> QED BY <2>1, <2>2, <2>3, Zenon
<1>6. /\ e.count = target /\ e.counter = encoder.counter + Read(d)
      /\ e.snapped <=> (encoder.snapped \/ Abs(d) > MaxWalk)
      /\ e.snapped \in BOOLEAN
  <2> HIDE DEF e
  <2> QED BY <1>5
<1> HIDE DEF e
<1>7. e.snapped \in BOOLEAN /\ e.counter \in Int /\ e.count \in Int BY <1>1, <1>4, <1>6
<1>8. e.snapped \/ e.counter = e.count
  <2>1. SUFFICES ASSUME ~e.snapped PROVE e.counter = e.count OBVIOUS
  <2>2. ~encoder.snapped /\ Abs(d) <= MaxWalk BY <1>2, <1>4, <1>6, <2>1
  <2> QED BY <1>1, <1>3, <1>4, <1>6, <2>2
<1> QED BY <1>6, <1>7, <1>8 DEF e

LEMMA WakeRest == ASSUME RestInv, WakeMotor PROVE RestInv'
<1>0. PulseInv' BY ReadPulses DEF RestInv
<1>1. UNCHANGED <<now, calm, next>> /\ due' = due \ {"motor"} BY DEF WakeMotor, past
<1>2. /\ Reading \in Plants /\ SameDrive(plant, Reading) /\ Reading.at = now /\ Reading.pos \in Int
      /\ now \in Nat /\ calm \in Nat
  BY ReadingFacts DEF RestInv, PulseInv, Typed, Plants
<1>3. CASE Published(Reading)
  <2>1. /\ plant' = [Reading EXCEPT !.emitted = WholeSteps(Reading.pos), !.published = Reading.pos]
        /\ encoder' = SetCount(encoder, Reading.pos)
        /\ Arm(contact') \/ UNCHANGED wheel
    BY <1>3 DEF WakeMotor, Reading
  <2>2. /\ plant'.published = Reading.pos /\ plant'.pos = Reading.pos /\ plant'.vel = Reading.vel
        /\ plant'.cmd = Reading.cmd /\ plant'.at = now
    BY <1>2, <2>1 DEF Plants
  <2>3. plant' \in Plants BY <1>0 DEF PulseInv, Typed
  <2>4. Reading' = plant' BY <1>1, <2>2, <2>3, ReadingAgain DEF Reading
  <2>5. Watched' BY <1>1, <2>1, ArmAdds DEF RestInv, Watched
  <2>6. Follows' /\ encoder'.count = Reading.pos
    <3>1. Follows BY DEF RestInv
    <3> QED BY <1>2, <2>1, <2>2, <3>1, WalkFacts DEF Follows
  <2>7. Rested' BY <1>1, <2>2, <2>4 DEF RestInv, Rested
  <2>8. Seen' BY <2>2, <2>4, <2>6 DEF Seen
  <2> QED BY <1>0, <2>5, <2>6, <2>7, <2>8 DEF RestInv
<1>4. CASE ~Published(Reading)
  <2>1. plant' = Reading /\ UNCHANGED <<encoder, wheel>> BY <1>4 DEF WakeMotor, Reading
  <2>2. Reading' = Reading BY <1>0, <1>1, <1>2, <2>1, ReadingAgain DEF Reading
  <2>3. Watched' BY <1>1, <2>1 DEF RestInv, Watched
  <2>4. Follows' BY <1>2, <2>1 DEF RestInv, Follows, SameDrive
  <2>5. Rested' BY <1>1, <2>2 DEF RestInv, Rested
  <2>6. Seen'
    <3>1. SUFFICES ASSUME calm >= now - next + Cadence + 2 PROVE encoder.count = Reading.pos
      BY <1>1, <2>1, <2>2 DEF Seen
    <3>2. next \in Nat /\ next <= now + Cadence /\ Cadence \in Nat
      BY AxisAssumption DEF RestInv, Watched
    <3>3. calm >= 2 BY <1>2, <3>1, <3>2
    <3>4. Reading.cmd = 0 /\ Reading.vel = 0 BY <3>3 DEF RestInv, Rested
    <3>5. Reading.pos = Reading.published BY <1>4, <3>4 DEF Published, Settled
    <3> QED BY <1>2, <3>5 DEF RestInv, Follows, SameDrive
  <2> QED BY <1>0, <2>3, <2>4, <2>5, <2>6 DEF RestInv
<1> QED BY <1>3, <1>4

LEMMA DispatchWatched == ASSUME Watched, Dispatch, now \in Nat PROVE Watched'
<1>1. /\ next' = IF next > now THEN next
                 ELSE IF next + Cadence > now THEN next + Cadence ELSE now + Cadence
      /\ wheel' = (wheel \ {now}) \cup (IF next <= now THEN {next'} ELSE {}) /\ now' = now
  BY DEF Dispatch
<1>2. next \in wheel /\ next \in Nat /\ next <= now + Cadence /\ Cadence \in Nat
  BY AxisAssumption DEF Watched
<1>3. CASE next > now BY <1>1, <1>2, <1>3 DEF Watched
<1>4. CASE next <= now
  <2>1. next' \in wheel' BY <1>1, <1>4
  <2>2. next' \in Nat /\ next' <= now + Cadence BY <1>1, <1>2, <1>4
  <2> QED BY <1>1, <2>1, <2>2 DEF Watched
<1> QED BY <1>2, <1>3, <1>4

LEMMA TickRest == ASSUME RestInv, Tick PROVE RestInv'
<1>0. PulseInv' BY TickPulses DEF RestInv
<1>1. /\ now' = now + 1 /\ UNCHANGED <<plant, encoder, next, wheel, due>>
      /\ calm' = IF Advance(plant, now + 1).pos = Reading.pos THEN calm + 1 ELSE 0
  BY DEF Tick, hosted, Reading
<1>2. /\ plant \in Plants /\ now \in Nat /\ plant.at <= now /\ FoldedAt(plant, plant.at)
      /\ calm \in Nat /\ Cadence \in Nat /\ next \in Nat /\ next <= now + Cadence
  BY AxisAssumption DEF RestInv, PulseInv, Typed, Recorded, Watched
<1>3. Reading' = Advance(plant, now + 1) BY <1>1 DEF Reading
<1>4. /\ Reading'.pos = Reading.pos + Reading.vel /\ Reading'.vel = Reading'.cmd
      /\ Reading'.cmd = 0 \/ Reading'.cmd = Reading.cmd
  BY <1>2, <1>3, TickFacts DEF Reading
<1>5. Reading.pos \in Int /\ Reading.vel \in Int BY ReadingFacts DEF RestInv, PulseInv, Plants
<1>6. Watched' BY <1>1, <1>2 DEF RestInv, Watched
<1>7. Follows' BY <1>1 DEF RestInv, Follows
<1>8. CASE Reading'.pos = Reading.pos
  <2>1. calm' = calm + 1 BY <1>1, <1>3, <1>8
  <2>2. Reading.vel = 0 BY <1>4, <1>5, <1>8
  <2>3. Rested' BY <1>2, <1>4, <2>1, <2>2 DEF RestInv, Rested
  <2>4. Seen' BY <1>1, <1>2, <1>8, <2>1 DEF RestInv, Seen
  <2> QED BY <1>0, <1>6, <1>7, <2>3, <2>4 DEF RestInv
<1>9. CASE Reading'.pos # Reading.pos
  <2>1. calm' = 0 /\ now' \in Nat BY <1>1, <1>2, <1>3, <1>9
  <2>2. Rested' /\ Seen' BY <1>6, <2>1, RestRestarts
  <2> QED BY <1>0, <1>6, <1>7, <2>2 DEF RestInv
<1> QED BY <1>8, <1>9

LEMMA RestStep == ASSUME RestInv, [Next]_vars PROVE RestInv'
<1>0. PulseInv' /\ now \in Nat BY PulseStep DEF RestInv, PulseInv, Typed
<1>1. CASE SenseCom \/ BenchStep \/ UNCHANGED vars
  <2>1. UNCHANGED <<now, plant, encoder, next, wheel, due, calm>>
    BY <1>1 DEF SenseCom, BenchStep, Moves, vars, past, hosted
  <2> QED BY <1>0, <2>1 DEF RestInv, Rested, Follows, Watched, Seen, Reading
<1>2. CASE ReadShaft
  <2>1. UNCHANGED <<now, encoder, next, wheel, due, calm>> /\ plant' = Reading
    BY <1>2 DEF ReadShaft, past, hosted, Reading
  <2>2. Reading \in Plants /\ SameDrive(plant, Reading) /\ Reading.at = now
    BY ReadingFacts DEF RestInv, PulseInv
  <2>3. Reading' = Reading BY <2>1, <2>2, ReadingAgain DEF Reading
  <2>4. Follows' BY <2>1, <2>2 DEF RestInv, Follows, SameDrive
  <2>5. Rested' /\ Seen' /\ Watched' BY <2>1, <2>3 DEF RestInv, Rested, Watched, Seen
  <2> QED BY <1>0, <2>4, <2>5 DEF RestInv
<1>3. CASE WakeSwitch
  <2>1. UNCHANGED <<now, plant, encoder, next, calm>> /\ Arm(contact') /\ due = {"switch"}
    BY <1>3 DEF WakeSwitch, past
  <2>2. Watched' BY <2>1, ArmAdds DEF RestInv
  <2>3. Rested' /\ Follows' BY <2>1 DEF RestInv, Rested, Follows, Reading
  <2>4. Seen' BY <2>1 DEF RestInv, Seen, Reading
  <2> QED BY <1>0, <2>2, <2>3, <2>4 DEF RestInv
<1>4. CASE Dispatch
  <2>1. UNCHANGED <<now, plant, encoder, calm>> BY <1>4 DEF Dispatch, past
  <2>2. Watched' BY <1>0, <1>4, DispatchWatched DEF RestInv
  <2>3. Rested' /\ Follows' BY <2>1 DEF RestInv, Rested, Follows, Reading
  <2>4. "motor" \in due' \/ next' = next
    BY <1>0, <1>4 DEF Dispatch, RestInv, Watched
  <2>5. Seen' BY <1>4, <2>1, <2>4 DEF RestInv, Seen, Reading, Dispatch
  <2> QED BY <1>0, <2>2, <2>3, <2>5 DEF RestInv
<1> QED BY <1>1, <1>2, <1>3, <1>4, SenseRest, WakeRest, TickRest DEF Next

LEMMA RestAlways == Spec => []RestInv
<1>1. RestInv /\ [Next]_vars => RestInv' BY RestStep
<1> QED BY RestInit, <1>1, PTL DEF Spec

(* When the carriage has stood still for an observation's interval, the     *)
(* encoder, and any counter whose decoder never jumped, are where it stands *)
(* (stepper_motor.rs, observe; quadrature_encoder.rs, set_count): for any   *)
(* interval, trains and walk.                                               *)
THEOREM RestsWhereItStopsAlways == Spec => []RestsWhereItStops
<1>1. RestInv => RestsWhereItStops
  <2> SUFFICES ASSUME RestInv, calm > Cadence, due = {}, \A t \in wheel : t > now
               PROVE  /\ encoder.count = Advance(plant, now).pos
                      /\ encoder.snapped \/ encoder.counter = encoder.count
    BY DEF RestsWhereItStops
  <2>1. /\ next > now /\ next \in Nat /\ now \in Nat /\ calm \in Nat /\ Cadence \in Nat
    BY AxisAssumption DEF RestInv, Watched, PulseInv, Typed
  <2>2. calm >= now - next + Cadence + 2 BY <2>1
  <2> QED BY <2>2 DEF RestInv, Seen, Follows, Reading
<1> QED BY RestAlways, <1>1, PTL

-----------------------------------------------------------------------------
(* The contact comes to rest.                                               *)

Ringing == Seq([at : Nat, closed : BOOLEAN])

Contacts == [closed : BOOLEAN, driven : BOOLEAN, burst : Ringing, com : Int, no : Int, since : Nat]

(* A switch with bounces to play is asked back, or due.                     *)
AskedBack(c) ==
  [at |-> c.burst[1].at, by |-> "switch"] \in asks /\ c.burst[1].at \in wheel

(* What is left to play ends where the carriage put the contact, within its *)
(* window; the last that was played is on NO.                               *)
Plays(c) ==
  /\ c.burst \in Ringing /\ c.closed \in BOOLEAN /\ c.driven \in BOOLEAN /\ c.since \in Nat
  /\ c.burst = <<>> => c.driven = c.closed
  /\ c.burst # <<>> => c.burst[Len(c.burst)].closed = c.closed
  /\ \A i \in 1..Len(c.burst) : c.burst[i].at <= c.since + Window
  /\ c.no = IF c.driven THEN c.com ELSE Open

ContactInv ==
  /\ now \in Nat /\ contact.com = told.com /\ Plays(contact)
  /\ contact \in Contacts
  /\ contact.burst # <<>> => "switch" \in due \/ AskedBack(contact)

(* The bounces of a burst fall within the window.                           *)
LEMMA WithinWindow ==
  ASSUME NEW i \in 1..Bounces
  PROVE  (Window * i) \div Bounces \in Nat /\ (Window * i) \div Bounces <= Window
<1>1. Bounces \in Nat /\ Window \in Nat /\ i \in Nat /\ i <= Bounces /\ Bounces > 0
  BY AxisAssumption
<1> DEFINE x == Window * i
           y == Bounces * Window
           z == x \div Bounces
<1>2. x \in Nat /\ y \in Nat /\ x <= y
  <2>1. i * Window \in Nat /\ Bounces * Window \in Nat /\ i * Window <= Bounces * Window
    BY <1>1, ProductGrows
  <2>2. i * Window = Window * i BY <1>1
  <2> QED BY <2>1, <2>2
<1>3. z \in Nat /\ Bounces * z <= x
  <2> HIDE DEF x
  <2> QED BY <1>1, <1>2
<1>4. z <= Window
  <2> HIDE DEF z
  <2>1. SUFFICES ASSUME Window + 1 <= z PROVE FALSE BY <1>1, <1>3
  <2>2. (Window + 1) * Bounces <= z * Bounces /\ z * Bounces \in Nat
    <3>1. Window + 1 \in Nat BY <1>1
    <3> QED BY <1>1, <1>3, <2>1, <3>1, ProductGrows
  <2>3. (Window + 1) * Bounces = y + Bounces /\ z * Bounces = Bounces * z BY <1>1, <1>3
  <2> HIDE DEF x, y
  <2> QED BY <1>1, <1>2, <1>3, <2>2, <2>3
<1> QED BY <1>3, <1>4

LEMMA BurstFacts ==
  ASSUME now \in Nat, NEW settled \in BOOLEAN
  PROVE  LET b == BurstFor(settled)
         IN  /\ b \in Ringing /\ Len(b) = Bounces
             /\ b # <<>> => b[Len(b)].closed = settled
             /\ \A i \in 1..Len(b) : b[i].at <= now + Window
<1>0. Bounces \in Nat /\ Window \in Nat BY AxisAssumption
<1> DEFINE at(i) == now + (Window * i) \div Bounces
           val(i) == IF i % 2 = 1 /\ i # Bounces THEN ~settled ELSE settled
           b == BurstFor(settled)
<1>1. \A i \in 1..Bounces : at(i) \in Nat /\ at(i) <= now + Window
  <2> TAKE i \in 1..Bounces
  <2>1. (Window * i) \div Bounces \in Nat /\ (Window * i) \div Bounces <= Window BY WithinWindow
  <2> QED BY <1>0, <2>1
<1>2. \A i \in 1..Bounces : val(i) \in BOOLEAN OBVIOUS
<1>3. b = [i \in 1..Bounces |-> [at |-> at(i), closed |-> val(i)]] BY DEF BurstFor
<1>4. val(Bounces) = settled OBVIOUS
<1> HIDE DEF at, val, b
<1>5. \A i \in 1..Bounces : [at |-> at(i), closed |-> val(i)] \in [at : Nat, closed : BOOLEAN]
  BY <1>1, <1>2
<1>6. b \in [1..Bounces -> [at : Nat, closed : BOOLEAN]] BY <1>3, <1>5
<1>7. b \in Ringing /\ Len(b) = Bounces
  <2>1. ASSUME NEW T, NEW n \in Nat, NEW f \in [1..n -> T] PROVE f \in Seq(T) /\ Len(f) = n OBVIOUS
  <2> QED BY <1>0, <1>6, <2>1 DEF Ringing
<1>8. \A i \in 1..Len(b) : b[i].at <= now + Window BY <1>1, <1>3, <1>7
<1>9. b # <<>> => b[Len(b)].closed = settled
  <2> SUFFICES ASSUME b # <<>> PROVE b[Len(b)].closed = settled OBVIOUS
  <2>1. Bounces \in 1..Bounces BY <1>0, <1>7 DEF Ringing
  <2> QED BY <1>3, <1>4, <1>7, <2>1
<1> QED BY <1>7, <1>8, <1>9 DEF b

(* Whoever arms is asked back.                                              *)
LEMMA ArmFacts ==
  ASSUME NEW c, c.burst \in Ringing, Arm(c)
  PROVE  /\ asks \subseteq asks' /\ wheel \subseteq wheel'
         /\ c.burst # <<>> =>
              [at |-> c.burst[1].at, by |-> "switch"] \in asks' /\ c.burst[1].at \in wheel'
BY DEF Arm, Ringing

(* There is a first bounce that is not due, or all are.                     *)
LEMMA DrainedFacts ==
  ASSUME Plays(contact), now \in Nat
  PROVE  LET d == Drained(contact)
         IN  \/ d = contact
             \/ \E n \in 1..Len(contact.burst) :
                  d = Apply([contact EXCEPT !.burst = SubSeq(@, n + 1, Len(@))], contact.burst[n].closed)
<1> DEFINE b == contact.burst
           S == {k \in 0..Len(b) : k < Len(b) => b[k + 1].at > now}
           P(k) == /\ \A i \in 1..k : b[i].at <= now
                   /\ k < Len(b) => b[k + 1].at > now
           n == CHOOSE k \in 0..Len(b) : P(k)
           R == {ss \in Nat \X Nat : ss[1] < ss[2]}
<1>0. Len(b) \in Nat /\ \A i \in 1..Len(b) : b[i].at \in Nat
  <2>1. b \in Ringing BY DEF Plays
  <2>2. Len(b) \in Nat /\ \A i \in 1..Len(b) : b[i] \in [at : Nat, closed : BOOLEAN]
    <3> HIDE DEF b
    <3> QED BY <2>1, LenProperties, ElementOfSeq DEF Ringing
  <2> QED BY <2>2
<1>1. IsWellFoundedOn(R, Nat) BY NatLessThanWellFounded DEF OpToRel
<1>2. \A x, y \in Nat : x < y => <<x, y>> \in R OBVIOUS
<1>3. S \subseteq Nat /\ S # {}
  <2>1. Len(b) \in S BY <1>0
  <2> QED BY <1>0, <2>1
<1> HIDE DEF R
<1>4. PICK m \in S : \A y \in S : <<y, m>> \notin R
  <2> HIDE DEF S
  <2> QED BY <1>1, <1>3, WFMin, Zenon
<1>5. P(m)
  <2>1. m \in 0..Len(b) /\ (m < Len(b) => b[m + 1].at > now) BY <1>4
  <2>2. ASSUME NEW i \in 1..m, ~(b[i].at <= now) PROVE FALSE
    <3>1. /\ i \in Nat /\ i - 1 \in Nat /\ m \in Nat /\ i - 1 < m /\ i \in 1..Len(b)
          /\ i - 1 \in 0..Len(b) /\ (i - 1) + 1 = i
      BY <1>0, <2>1
    <3>2. b[i].at > now BY <1>0, <2>2, <3>1
    <3>3. i - 1 \in S BY <3>1, <3>2
    <3>4. <<i - 1, m>> \in R BY <1>2, <3>1
    <3> QED BY <1>4, <3>3, <3>4
  <2> QED BY <2>1, <2>2
<1>6. n \in 0..Len(b)
  <2>1. m \in 0..Len(b) BY <1>4
  <2> HIDE DEF P, S, b
  <2> QED BY <1>5, <2>1
<1>7. Drained(contact) =
        IF n = 0 THEN contact
        ELSE Apply([contact EXCEPT !.burst = SubSeq(@, n + 1, Len(@))], b[n].closed)
  BY DEF Drained
<1> HIDE DEF n
<1>8. n = 0 \/ n \in 1..Len(b) BY <1>0, <1>6
<1> QED BY <1>7, <1>8

(* The parts of the contact a bounce does not touch.                        *)
LEMMA ApplyFacts ==
  ASSUME NEW c \in Contacts, NEW v \in BOOLEAN
  PROVE  LET d == Apply(c, v)
         IN  /\ d \in Contacts /\ d.closed = c.closed /\ d.burst = c.burst /\ d.com = c.com
             /\ d.since = c.since /\ d.driven = v /\ d.no = IF v THEN d.com ELSE Open
<1> DEFINE w == IF v THEN c.com ELSE Open
           d == Apply(c, v)
<1>1. w \in Int BY DEF Contacts, Open
<1>2. d = [c EXCEPT !.driven = v, !.no = w] BY DEF Apply
<1> HIDE DEF w, d
<1>3. /\ d \in Contacts /\ d.closed = c.closed /\ d.burst = c.burst /\ d.com = c.com
      /\ d.since = c.since /\ d.driven = v /\ d.no = w
  BY <1>1, <1>2 DEF Contacts
<1> QED BY <1>3 DEF d, w

(* Playing the due bounces leaves the rest of the burst.                    *)
LEMMA RestOfBurst ==
  ASSUME NEW b \in Ringing, NEW n \in 1..Len(b)
  PROVE  LET r == SubSeq(b, n + 1, Len(b))
         IN  /\ r \in Ringing /\ b[n] \in [at : Nat, closed : BOOLEAN]
             /\ r = <<>> => n = Len(b)
             /\ r # <<>> => r[Len(r)] = b[Len(b)]
             /\ \A i \in 1..Len(r) : \E j \in 1..Len(b) : r[i] = b[j]
<1> DEFINE T == [at : Nat, closed : BOOLEAN]
<1>1. ASSUME NEW U, NEW s \in Seq(U), NEW k \in 1..Len(s)
      PROVE  /\ s[k] \in U
             /\ SubSeq(s, k + 1, Len(s)) \in Seq(U)
             /\ Len(SubSeq(s, k + 1, Len(s))) = Len(s) - k
             /\ \A i \in 1..(Len(s) - k) : SubSeq(s, k + 1, Len(s))[i] = s[k + i]
             /\ Len(s) \in Nat
  <2>1. Len(s) \in Nat /\ s[k] \in U BY LenProperties, ElementOfSeq
  <2>2. \A i \in k + 1 .. Len(s) : s[i] \in U
    <3> TAKE i \in k + 1 .. Len(s)
    <3>1. i \in 1..Len(s) BY <2>1
    <3> QED BY <3>1, ElementOfSeq
  <2>3. SubSeq(s, k + 1, Len(s)) \in Seq(U) BY <2>1, <2>2
  <2>4. /\ Len(SubSeq(s, k + 1, Len(s))) = Len(s) - k
        /\ \A i \in 1..(Len(s) - k) : SubSeq(s, k + 1, Len(s))[i] = s[k + i]
    BY <2>1
  <2> QED BY <2>1, <2>3, <2>4
<1> DEFINE r == SubSeq(b, n + 1, Len(b))
<1>2. b \in Seq(T) BY DEF Ringing
<1> HIDE DEF T
<1>3. /\ b[n] \in T /\ r \in Seq(T) /\ Len(r) = Len(b) - n /\ Len(b) \in Nat
      /\ \A i \in 1..(Len(b) - n) : r[i] = b[n + i]
  BY <1>1, <1>2
<1> HIDE DEF r
<1>4. r = <<>> => n = Len(b) BY <1>3
<1>5. r # <<>> => r[Len(r)] = b[Len(b)]
  <2> SUFFICES ASSUME r # <<>> PROVE r[Len(r)] = b[Len(b)] OBVIOUS
  <2>1. Len(r) # 0 BY <1>3
  <2>2. Len(r) \in 1..(Len(b) - n) /\ n + Len(r) = Len(b) BY <1>3, <2>1
  <2> QED BY <1>3, <2>2
<1>6. \A i \in 1..Len(r) : \E j \in 1..Len(b) : r[i] = b[j]
  <2> TAKE i \in 1..Len(r)
  <2>1. n + i \in 1..Len(b) /\ i \in 1..(Len(b) - n) BY <1>3
  <2> QED BY <1>3, <2>1
<1> QED BY <1>3, <1>4, <1>5, <1>6 DEF r, T, Ringing

LEMMA DrainedPlays ==
  ASSUME contact \in Contacts, Plays(contact), now \in Nat
  PROVE  LET d == Drained(contact) IN d \in Contacts /\ Plays(d) /\ d.com = contact.com
<1> DEFINE d == Drained(contact)
           b == contact.burst
<1>1. CASE d = contact
  <2> HIDE DEF d
  <2> QED BY <1>1 DEF d
<1>2. ASSUME NEW n \in 1..Len(b),
             d = Apply([contact EXCEPT !.burst = SubSeq(@, n + 1, Len(@))], b[n].closed)
      PROVE  d \in Contacts /\ Plays(d) /\ d.com = contact.com
  <2> DEFINE r == SubSeq(b, n + 1, Len(b))
             c == [contact EXCEPT !.burst = r]
  <2>1. b \in Ringing BY DEF Contacts
  <2>2. /\ r \in Ringing /\ b[n] \in [at : Nat, closed : BOOLEAN]
        /\ r = <<>> => n = Len(b)
        /\ r # <<>> => r[Len(r)] = b[Len(b)]
        /\ \A i \in 1..Len(r) : \E j \in 1..Len(b) : r[i] = b[j]
    <3> HIDE DEF b
    <3> QED BY <1>2, <2>1, RestOfBurst
  <2>3. b # <<>>
    <3> HIDE DEF b
    <3> QED BY <1>2
  <2>4. d = Apply(c, b[n].closed) BY <1>2
  <2> HIDE DEF r, d
  <2>5. /\ c \in Contacts /\ c.burst = r /\ c.closed = contact.closed /\ c.since = contact.since
        /\ c.com = contact.com
    BY <2>2 DEF Contacts
  <2> HIDE DEF c
  <2>6. b[n].closed \in BOOLEAN BY <2>2
  <2>7. /\ d \in Contacts /\ d.closed = c.closed /\ d.burst = c.burst /\ d.com = c.com
        /\ d.since = c.since /\ d.driven = b[n].closed /\ d.no = IF b[n].closed THEN d.com ELSE Open
    BY <2>4, <2>5, <2>6, ApplyFacts
  <2>8. b[Len(b)].closed = contact.closed BY <2>3 DEF Plays
  <2>9. \A i \in 1..Len(r) : r[i].at <= contact.since + Window
    <3>1. \A j \in 1..Len(b) : b[j].at <= contact.since + Window BY DEF Plays
    <3> HIDE DEF b
    <3> QED BY <2>2, <3>1
  <2> HIDE DEF b
  <2>10. d.burst = r /\ d.closed = contact.closed /\ d.since = contact.since BY <2>5, <2>7
  <2>11. d.burst = <<>> => d.driven = d.closed BY <2>2, <2>7, <2>8, <2>10
  <2>12. d.burst # <<>> => d.burst[Len(d.burst)].closed = d.closed BY <2>2, <2>8, <2>10
  <2>13. \A i \in 1..Len(d.burst) : d.burst[i].at <= d.since + Window BY <2>9, <2>10
  <2>14. /\ d.burst \in Ringing /\ d.closed \in BOOLEAN /\ d.driven \in BOOLEAN /\ d.since \in Nat
         /\ d.no = IF d.driven THEN d.com ELSE Open
    BY <2>7 DEF Contacts
  <2>15. Plays(d) BY <2>11, <2>12, <2>13, <2>14 DEF Plays
  <2> QED BY <2>5, <2>7, <2>15
<1> QED BY <1>1, <1>2, DrainedFacts

(* The carriage moves the contact, or leaves it.                            *)
LEMMA PositionFacts ==
  ASSUME ContactInv, NEW pos \in Int
  PROVE  LET d == SetPosition(contact, pos)
         IN  /\ d \in Contacts /\ Plays(d) /\ d.com = contact.com
             /\ d.closed = contact.closed => d = contact
<1> DEFINE d == SetPosition(contact, pos)
           v == Actuated(contact, pos)
           c == [contact EXCEPT !.closed = v, !.burst = BurstFor(v), !.since = now]
<1>0. contact \in Contacts /\ now \in Nat BY DEF ContactInv
<1>1. v \in BOOLEAN BY DEF Actuated
<1>2. CASE v = contact.closed
  <2>1. d = contact BY <1>2 DEF SetPosition
  <2> HIDE DEF d, v
  <2> QED BY <2>1 DEF ContactInv, d
<1>3. CASE v # contact.closed
  <2>1. d = Apply(c, v) BY <1>3 DEF SetPosition
  <2> HIDE DEF v
  <2> DEFINE b == BurstFor(v)
  <2>2. /\ b \in Ringing
        /\ b # <<>> => b[Len(b)].closed = v
        /\ \A i \in 1..Len(b) : b[i].at <= now + Window
    BY <1>0, <1>1, BurstFacts
  <2> HIDE DEF b
  <2>3. /\ c \in Contacts /\ c.closed = v /\ c.burst = b /\ c.since = now /\ c.com = contact.com
    BY <1>0, <1>1, <2>2 DEF Contacts, b
  <2> HIDE DEF c, d
  <2>4. /\ d \in Contacts /\ d.closed = v /\ d.burst = b /\ d.com = contact.com
        /\ d.since = now /\ d.driven = v /\ d.no = IF v THEN d.com ELSE Open
    BY <1>1, <2>1, <2>3, ApplyFacts
  <2>5. Plays(d)
    <3>1. d.burst \in Ringing /\ d.closed \in BOOLEAN /\ d.driven \in BOOLEAN /\ d.since \in Nat
      BY <2>4 DEF Contacts
    <3>2. d.burst = <<>> => d.driven = d.closed BY <2>4
    <3>3. d.burst # <<>> => d.burst[Len(d.burst)].closed = d.closed BY <2>2, <2>4
    <3>4. \A i \in 1..Len(d.burst) : d.burst[i].at <= d.since + Window BY <2>2, <2>4
    <3>5. d.no = IF d.driven THEN d.com ELSE Open BY <2>4
    <3> QED BY <3>1, <3>2, <3>3, <3>4, <3>5 DEF Plays
  <2> QED BY <1>3, <2>4, <2>5 DEF d
<1> QED BY <1>2, <1>3

LEMMA ContactInit == Init => ContactInv
<1> SUFFICES ASSUME Init PROVE ContactInv OBVIOUS
<1>1. now = 0 /\ told.com = Open
      /\ contact = [closed |-> FALSE, driven |-> FALSE, burst |-> <<>>, com |-> Open, no |-> Open,
                    since |-> 0]
  BY DEF Init
<1>2. <<>> \in Ringing /\ Len(<<>>) = 0 BY DEF Ringing
<1>3. /\ contact.closed = FALSE /\ contact.driven = FALSE /\ contact.burst = <<>>
      /\ contact.com = Open /\ contact.no = Open /\ contact.since = 0
  BY <1>1
<1>4. contact \in Contacts BY <1>1, <1>2 DEF Contacts, Open
<1>5. Plays(contact)
  <2>1. \A i \in 1..Len(contact.burst) : FALSE BY <1>2, <1>3
  <2>2. contact.burst \in Ringing /\ contact.since \in Nat BY <1>4 DEF Contacts
  <2> QED BY <1>3, <2>1, <2>2, Zenon DEF Plays
<1> QED BY <1>1, <1>3, <1>4, <1>5 DEF ContactInv

LEMMA DispatchContact == ASSUME ContactInv, Dispatch PROVE ContactInv'
<1>1. /\ due = {} /\ UNCHANGED <<now, told, contact>>
      /\ {a.by : a \in {b \in asks : b.at <= now}} \subseteq due'
      /\ asks' = {a \in asks : a.at > now} /\ wheel \ {now} \subseteq wheel'
  BY DEF Dispatch
<1> DEFINE t == contact.burst[1].at
           ask == [at |-> t, by |-> "switch"]
<1>2. ASSUME contact.burst # <<>> PROVE "switch" \in due' \/ AskedBack(contact)'
  <2>1. ask \in asks /\ t \in wheel BY <1>1, <1>2 DEF ContactInv, AskedBack
  <2>2. now \in Nat /\ t \in Nat
    <3>1. contact.burst \in Seq([at : Nat, closed : BOOLEAN]) BY DEF ContactInv, Contacts, Ringing
    <3>2. Len(contact.burst) \in Nat /\ Len(contact.burst) # 0 BY <1>2, <3>1, EmptySeq, LenProperties
    <3>3. 1 \in 1..Len(contact.burst) BY <3>2
    <3>4. contact.burst[1] \in [at : Nat, closed : BOOLEAN] BY <3>1, <3>3, ElementOfSeq
    <3> QED BY <3>4 DEF ContactInv
  <2>3. ask.at = t /\ ask.by = "switch" OBVIOUS
  <2>5. AskedBack(contact)' <=> ask \in asks' /\ t \in wheel' BY <1>1 DEF AskedBack
  <2> HIDE DEF t, ask
  <2>4. CASE t <= now
    <3>1. ask \in {b \in asks : b.at <= now} BY <2>1, <2>3, <2>4
    <3>2. "switch" \in {a.by : a \in {b \in asks : b.at <= now}} BY <2>3, <3>1
    <3> QED BY <1>1, <3>2
  <2>6. CASE t > now BY <1>1, <2>1, <2>2, <2>3, <2>5, <2>6
  <2> QED BY <2>2, <2>4, <2>6
<1>3. Plays(contact)' BY <1>1 DEF ContactInv, Plays
<1> QED BY <1>1, <1>2, <1>3 DEF ContactInv

(* A step that leaves the contact, or arms it.                              *)
LEMMA WakeMotorContact == ASSUME PulseInv, ContactInv, WakeMotor PROVE ContactInv'
<1>0. Reading.pos \in Int BY ReadingFacts DEF PulseInv, Plants
<1>1. /\ UNCHANGED <<now, told>> /\ due' = due \ {"motor"}
      /\ \/ /\ contact' = SetPosition(contact, Reading.pos)
            /\ IF contact'.closed # contact.closed THEN Arm(contact') ELSE UNCHANGED <<asks, wheel>>
         \/ UNCHANGED <<contact, asks, wheel>>
  BY DEF WakeMotor, Reading
<1>2. CASE UNCHANGED <<contact, asks, wheel>>
  BY <1>1, <1>2 DEF ContactInv, Plays, AskedBack
<1>3. CASE /\ contact' = SetPosition(contact, Reading.pos)
           /\ IF contact'.closed # contact.closed THEN Arm(contact') ELSE UNCHANGED <<asks, wheel>>
  <2>1. /\ contact' \in Contacts /\ Plays(contact') /\ contact'.com = contact.com
        /\ contact'.closed = contact.closed => contact' = contact
    BY <1>0, <1>3, PositionFacts
  <2>2. CASE contact'.closed = contact.closed
    <3>1. UNCHANGED <<contact, asks, wheel>> BY <1>3, <2>1, <2>2
    <3> QED BY <1>2, <3>1
  <2>3. CASE contact'.closed # contact.closed
    <3>1. Arm(contact') /\ contact'.burst \in Ringing BY <1>3, <2>1, <2>3 DEF Contacts
    <3>2. contact'.burst # <<>> => AskedBack(contact)' BY <3>1, ArmFacts DEF AskedBack
    <3>3. Plays(contact)' BY <2>1 DEF Plays
    <3> QED BY <1>1, <2>1, <3>2, <3>3 DEF ContactInv
  <2> QED BY <2>2, <2>3
<1> QED BY <1>1, <1>2, <1>3

LEMMA WakeSwitchContact == ASSUME ContactInv, WakeSwitch PROVE ContactInv'
<1>1. UNCHANGED <<now, told>> /\ contact' = Drained(contact) /\ Arm(contact')
  BY DEF WakeSwitch
<1>2. contact' \in Contacts /\ Plays(contact') /\ contact'.com = contact.com
  BY <1>1, DrainedPlays DEF ContactInv
<1>3. contact'.burst \in Ringing BY <1>2 DEF Contacts
<1>4. contact'.burst # <<>> => AskedBack(contact)' BY <1>1, <1>3, ArmFacts DEF AskedBack
<1>5. Plays(contact)' BY <1>2 DEF Plays
<1> QED BY <1>1, <1>2, <1>4, <1>5 DEF ContactInv

LEMMA SenseComContact == ASSUME PulseInv, ContactInv, SenseCom PROVE ContactInv'
<1> DEFINE c == [contact EXCEPT !.com = bench.com]
<1>1. /\ UNCHANGED <<now, asks, wheel, due>> /\ told' = [told EXCEPT !.com = bench.com]
      /\ contact' = IF contact.driven THEN Apply(c, TRUE) ELSE c
  BY DEF SenseCom, hosted
<1>2. bench.com \in Int /\ told \in Tolds /\ contact \in Contacts /\ Plays(contact)
  BY DEF PulseInv, Typed, Benches, ContactInv
<1>3. told'.com = bench.com BY <1>1, <1>2 DEF Tolds
<1>4. /\ c \in Contacts /\ c.closed = contact.closed /\ c.driven = contact.driven
      /\ c.burst = contact.burst /\ c.com = bench.com /\ c.since = contact.since /\ c.no = contact.no
  BY <1>2 DEF Contacts
<1> HIDE DEF c
<1>5. contact.driven \in BOOLEAN BY <1>2 DEF Contacts
<1>6. /\ contact' \in Contacts /\ contact'.closed = contact.closed
      /\ contact'.driven = contact.driven /\ contact'.burst = contact.burst
      /\ contact'.com = bench.com /\ contact'.since = contact.since
      /\ contact'.no = IF contact'.driven THEN contact'.com ELSE Open
  <2>1. CASE contact.driven
    <3>1. TRUE \in BOOLEAN /\ contact' = Apply(c, TRUE) /\ contact.driven = TRUE BY <1>1, <1>5, <2>1
    <3> QED BY <1>4, <3>1, ApplyFacts
  <2>2. CASE ~contact.driven
    <3>1. contact' = c /\ contact.no = Open BY <1>1, <1>2, <2>2 DEF Plays
    <3> QED BY <1>4, <2>2, <3>1
  <2> QED BY <2>1, <2>2
<1>7. Plays(contact)' BY <1>2, <1>6 DEF Plays
<1>8. AskedBack(contact)' <=> AskedBack(contact) BY <1>1, <1>6 DEF AskedBack
<1> QED BY <1>1, <1>3, <1>6, <1>7, <1>8 DEF ContactInv

LEMMA ContactStep == ASSUME PulseInv, ContactInv, [Next]_vars PROVE ContactInv'
<1>1. CASE SenseStep \/ SenseDir \/ SenseEna
  <2>1. UNCHANGED <<now, contact, asks, wheel, due>> /\ told'.com = told.com
    BY <1>1 DEF SenseStep, SenseDir, SenseEna, hosted, PulseInv, Typed, Tolds
  <2> QED BY <2>1 DEF ContactInv, Plays, AskedBack
<1>2. CASE ReadShaft \/ BenchStep \/ UNCHANGED vars
  <2>1. UNCHANGED <<now, contact, asks, wheel, due, told>>
    BY <1>2 DEF ReadShaft, BenchStep, Moves, vars, hosted
  <2> QED BY <2>1 DEF ContactInv, Plays, AskedBack
<1>3. CASE Tick
  <2>1. UNCHANGED <<contact, asks, wheel, due, told>> /\ now' = now + 1 BY <1>3 DEF Tick, hosted
  <2>2. now' \in Nat BY <2>1 DEF ContactInv
  <2> QED BY <2>1, <2>2 DEF ContactInv, Plays, AskedBack
<1> QED
  BY <1>1, <1>2, <1>3, DispatchContact, WakeMotorContact, WakeSwitchContact, SenseComContact DEF Next

LEMMA ContactAlways == Spec => [](PulseInv /\ ContactInv)
<1>1. PulseInv /\ ContactInv /\ [Next]_vars => (PulseInv /\ ContactInv)' BY PulseStep, ContactStep
<1> QED BY PulseInit, ContactInit, <1>1, PTL DEF Spec

(* The switch's contact is, a window after its last actuation, where the    *)
(* carriage put it, and NO always carries what the contact and COM say      *)
(* (end_switch.rs, set_position, drain, apply): for any window and bounces. *)
THEOREM ContactSettlesAlways == Spec => []ContactSettles
<1>1. ContactInv => ContactSettles
  <2> SUFFICES ASSUME ContactInv PROVE ContactSettles OBVIOUS
  <2>1. ASSUME due = {}, \A t \in wheel : t > now, now >= contact.since + Window
        PROVE  contact.driven = contact.closed
    <3>1. CASE contact.burst = <<>> BY <3>1 DEF ContactInv, Plays
    <3>2. CASE contact.burst # <<>>
      <4>1. contact.burst \in Seq([at : Nat, closed : BOOLEAN]) BY DEF ContactInv, Contacts, Ringing
      <4>2. Len(contact.burst) \in Nat /\ Len(contact.burst) # 0 BY <3>2, <4>1, EmptySeq, LenProperties
      <4>3. 1 \in 1..Len(contact.burst) BY <4>2
      <4>4. contact.burst[1].at \in Nat
        <5>1. contact.burst[1] \in [at : Nat, closed : BOOLEAN] BY <4>1, <4>3, ElementOfSeq
        <5> QED BY <5>1
      <4>5. contact.burst[1].at <= contact.since + Window BY <4>3 DEF ContactInv, Plays
      <4>6. contact.burst[1].at > now BY <2>1, <3>2 DEF ContactInv, AskedBack
      <4>7. now \in Nat /\ contact.since + Window \in Nat
        BY AxisAssumption DEF ContactInv, Contacts
      <4> QED BY <2>1, <4>4, <4>5, <4>6, <4>7
    <3> QED BY <3>1, <3>2
  <2>2. told.com = bench.com => contact.no = IF contact.driven THEN bench.com ELSE Open
    BY DEF ContactInv, Plays
  <2> QED BY <2>1, <2>2 DEF ContactSettles
<1> QED BY ContactAlways, <1>1, PTL
=============================================================================
