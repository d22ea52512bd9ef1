------------------------------ MODULE PowerUp ------------------------------
(***************************************************************************)
(* Power-up of the EC32MB module (boards/src/ec32mb.rs): the bench feeds   *)
(* the core rail, whose brownout detector sinks RESN; RESN is pulled up to *)
(* a bank supply, which rises and falls with the core rail, and a button   *)
(* of the bench pulls it low.  The START gate of the Propeller 2 senses    *)
(* the three nets.  The rail and the detector are PowerChain's, the gate   *)
(* is StartGate's, and this module is what joins them: the nets, one       *)
(* engine that runs one handler at a time, and one clock.                  *)
(***************************************************************************)
EXTENDS StartGate

CONSTANTS
  StartUp, Discharge, OpenEnables, TPd, TPr,    \* PowerChain's parts
  Inputs, Enables, Grounds, Straps,             \* what the bench puts on them
  MaxMoves                                      \* bound: what the bench does

VARIABLES
  bench, rail, det, wakes, since, moves,        \* PowerChain's
  button, pushes,                               \* the reset button: up or down; the bound's
  bankUp                                        \* the bank supply last sensed

Chain == INSTANCE PowerChain

ASSUME PowerUpAssumption == Chain!PowerAssumption

chain   == <<bench, rail, det, wakes, since, moves>>
wiring  == <<button, pushes, bankUp>>
package == <<reset, gate, agenda, pc, pin, starter, core, past>>

-----------------------------------------------------------------------------
(* The nets the package senses, against the module's ground.                *)

BankSupply == Chain!IsUp(rail)

Resn ==
  CASE bench.ground = Chain!Open -> "none"
    [] bench.ground # Chain!Open /\ (button = "down" \/ det.published.kind = "sink") -> "low"
    [] OTHER -> IF BankSupply THEN "high" ELSE "none"

Vdd == IF Chain!Supply = Chain!VSet THEN "in" ELSE "out"

(* A sense is delivered at registration and when its net has changed.       *)
SensesBank ==
  \E b \in Banks :
    /\ b \notin told \/ bankUp # BankSupply
    /\ SenseBank(b) /\ upSince' = UpSince
    /\ bankUp' = BankSupply /\ UNCHANGED <<chain, button, pushes>>

SensesResn ==
  /\ "RESN" \notin told \/ resn # Resn
  /\ SenseResn(Resn) /\ upSince' = UpSince
  /\ UNCHANGED <<chain, wiring>>

SensesVdd ==
  /\ "VDD" \notin told \/ vdd # Vdd
  /\ SenseVdd(Vdd) /\ upSince' = UpSince
  /\ UNCHANGED <<chain, wiring>>

Built == told = Banks \cup {"RESN", "VDD"}

Sensed ==
  /\ Built
  /\ bankUp = BankSupply /\ resn = Resn /\ vdd = Vdd

-----------------------------------------------------------------------------
(* The package's own steps, the engine's threads', the core's and the       *)
(* system's.                                                                *)
PackageStep ==
  /\ \/ WatchReset \/ EnterReset \/ Follow \/ ArmDelay \/ WatchBrownout
     \/ Wake \/ StartCore \/ ForwardHeld
     \/ RequestStart \/ StartFollow \/ StartArm
     \/ \E r \in Requests : Ask(r)
  /\ UNCHANGED <<chain, wiring>>

(* The rail's and the detector's, when the engine's thread is free.         *)
ChainStep ==
  /\ pc = "idle"
  /\ \/ Chain!SenseGround \/ Chain!SenseInput \/ Chain!SenseEnable
     \/ Chain!SenseVss \/ Chain!SenseVcc
     \/ Chain!WakeRail \/ Chain!WakeDetector
  /\ UNCHANGED <<package, wiring>>

InBound == moves + pushes < MaxMoves

(* The bench's drives take effect on that thread too.                       *)
BenchStep ==
  /\ pc = "idle" /\ Built /\ InBound
  /\ \/ \E v \in Inputs \cup {Chain!Open} : Chain!Move("input", v)
     \/ \E v \in Enables \cup {Chain!Open} : Chain!Move("enable", v)
     \/ \E v \in Grounds \cup {Chain!Open} : Chain!Move("ground", v)
     \/ \E v \in Straps \cup {Chain!Open} : Chain!Move("strap", v)
  /\ UNCHANGED <<package, wiring>>

Push ==
  /\ pc = "idle" /\ Built /\ InBound /\ pushes' = pushes + 1
  /\ button' = IF button = "up" THEN "down" ELSE "up"
  /\ UNCHANGED <<now, package, chain, bankUp>>

(* One clock: nothing due and nothing left to deliver, anywhere.            *)
Clock ==
  /\ Sensed /\ Tick /\ Chain!Advance
  /\ UNCHANGED wiring

SystemInit == Init /\ Chain!Init /\ button = "up" /\ pushes = 0 /\ bankUp = FALSE

SystemNext ==
  \/ SensesBank \/ SensesResn \/ SensesVdd
  \/ PackageStep \/ ChainStep \/ BenchStep \/ Push \/ Clock

SystemSpec == SystemInit /\ [][SystemNext]_<<vars, chain, wiring>>

-----------------------------------------------------------------------------
UpOnTime == Chain!UpOnTime
DetectorSettles == Chain!DetectorSettles

(* At the end of an instant a core that runs, and could enter its reset     *)
(* when told to, is powered and out of reset: whatever order the rail, the  *)
(* detector, the button and the supplies were heard in, a reset has held    *)
(* it or a brownout stopped it.                                             *)
RunsPowered ==
  /\ Sensed /\ Chain!Quiet /\ pc = "idle" /\ core = "running" /\ cannotRestart = "no"
  => Vdd = "in" /\ Resn # "low"
=============================================================================
