----------------------------- MODULE StartGate -----------------------------
(***************************************************************************)
(* The START gate of the Propeller 2 package, boards/src/p2.rs.  A core    *)
(* runs the restart delay after its reset was released, for as long as     *)
(* RESN and VDD keep it released; a reset holds it again, a brownout for   *)
(* good; what it asks for while it is held lands at its START.  The        *)
(* package's senses and wakes come on the engine's thread, Component::start*)
(* on the system's, and the core may ask on one of its own.  One mutex     *)
(* guards the gate, so an action is one critical section.  The engine is   *)
(* an agenda of instants (EngineWheel) whose clock waits for the assembly  *)
(* and for every request on its way (EngineLoop).                          *)
(***************************************************************************)
EXTENDS Integers, FiniteSets

CONSTANTS
  Banks,      \* the supply pins of the pads (sixteen on the part)
  Delay,      \* P2_RESTART_DELAY_NS
  Answers,    \* what the core may answer to enter_reset: can it boot again?
  Instants,   \* the instants the core may ask a wake at
  Periods,    \* and the periods
  MaxTime,    \* bound: the last instant of a run
  MaxAsks     \* bound: the wakes the core asks for

ASSUME GateAssumption ==
  /\ Delay \in Nat \ {0} /\ Answers \subseteq {"restarts", "cannot"}
  /\ Instants \subseteq Nat /\ Periods \subseteq Nat \ {0}
  /\ MaxTime \in Nat /\ MaxAsks \in Nat

VARIABLES
  now,            \* the virtual clock
  resn, vdd,      \* PackageState.reset: RESN's level; is VDD in its window?
  told,           \* the pins whose sense has delivered
  releasedAt,     \* Gate.released_at_ns
  startedAt,      \* Gate.started_at_ns
  brownout,       \* Gate.brownout: its instant
  cannotRestart,  \* Gate.cannot_restart
  held,           \* Gate.held_wakes and Gate.held_periods
  agenda,         \* the package's entries on the engine's wheel
  pc, pin,        \* where the engine's thread is, and the pin it delivers
  starter,        \* where Component::start is
  core,           \* what the core was told last: held, running or stopped
  upSince,        \* history: since when the inputs release the reset
  sent            \* the requests so far

reset  == <<resn, vdd, told>>
gate   == <<releasedAt, startedAt, brownout, cannotRestart, held>>
engine == <<now, agenda, pc, pin>>
past   == <<upSince, sent>>
vars   == <<reset, gate, engine, starter, core, past>>

None  == -1
Times == 0..MaxTime

OneShots == [at : Instants, period : {0}]
Requests == OneShots \cup [at : {0}, period : Periods]

Init ==
  /\ now = 0 /\ resn = "none" /\ vdd = "out" /\ told = {}
  /\ releasedAt = None /\ startedAt = None /\ brownout = None
  /\ cannotRestart = "no" /\ held = {} /\ agenda = {}
  /\ pc = "idle" /\ pin = "bank" /\ starter = "request" /\ core = "held"
  /\ upSince = None /\ sent = 0

-----------------------------------------------------------------------------
(* Helpers.                                                                 *)

Held == startedAt = None

(* P2Package::released: the system is live, RESN reads high with VDD in its *)
(* window, and every bank has been told its supply.                         *)
Released ==
  /\ starter # "request" /\ resn = "high" /\ vdd = "in"
  /\ Banks \subseteq told

UpSince == IF ~Released' THEN None ELSE IF upSince = None THEN now ELSE upSince

(* schedule_at_ns and schedule_every_ns at t: never in the past, and the    *)
(* first period counted from t.                                             *)
Entry(r, t) ==
  IF r.period > 0 THEN [r EXCEPT !.at = t + r.period]
  ELSE IF r.at < t THEN [r EXCEPT !.at = t] ELSE r

(* follow_reset under the lock: the release is counted once, and forgotten  *)
(* when the reset is asserted again before the START.                       *)
Counted == Held /\ Released /\ releasedAt = None

ForgottenFault == FALSE                    \* a glitch does not start it over
Forgotten == Held /\ ~Released

FollowReset ==
  /\ releasedAt' = IF Counted THEN now ELSE IF Forgotten THEN None ELSE releasedAt
  /\ UNCHANGED <<startedAt, brownout, cannotRestart, held>>

(* ... and out of it: the package's own wake.                               *)
Arm == agenda' = agenda \cup {[at |-> now + Delay, period |-> 0]}

-----------------------------------------------------------------------------
(* The senses, on the engine's thread, in the order attach registers them:  *)
(* the banks first, then RESN, then VDD.                                    *)

Delivered(p, after) ==
  /\ pc = "idle"
  /\ told' = told \cup {p}
  /\ pc' = after
  /\ UNCHANGED <<gate, now, agenda, starter, core, sent>>

SenseBank(b) ==
  /\ Delivered(b, "follow") /\ pin' = "bank"
  /\ UNCHANGED <<resn, vdd>>

SenseResn(level) ==
  /\ Banks \subseteq told
  /\ Delivered("RESN", "watch") /\ pin' = "reset"
  /\ resn' = level /\ UNCHANGED vdd

SenseVdd(window) ==
  /\ "RESN" \in told
  /\ Delivered("VDD", "watch") /\ pin' = "reset"
  /\ vdd' = window /\ UNCHANGED resn

(* watch_reset: RESN reads low while the core runs.                         *)
ResetRead == ~Held /\ brownout = None /\ cannotRestart = "no" /\ resn = "low"

WatchReset ==
  /\ pc = "watch"
  /\ pc' = IF ResetRead THEN "reset" ELSE "follow"
  /\ UNCHANGED <<reset, gate, now, agenda, pin, starter, core, past>>

(* A core that can boot again has entered its reset and is held behind it;  *)
(* one that cannot is not asked again.                                      *)
EnterReset ==
  /\ pc = "reset" /\ pc' = "follow"
  /\ \/ /\ "restarts" \in Answers
        /\ startedAt' = None /\ releasedAt' = None /\ held' = {}
        /\ core' = "held"
        /\ UNCHANGED cannotRestart
     \/ /\ "cannot" \in Answers
        /\ cannotRestart' = "yes"
        /\ UNCHANGED <<startedAt, releasedAt, held, core>>
  /\ UNCHANGED <<reset, brownout, now, agenda, pin, starter, upSince, sent>>

AfterFollow == IF pin = "bank" THEN "idle" ELSE "brownout"

Follow ==
  /\ pc = "follow" /\ FollowReset
  /\ pc' = IF Counted THEN "arm" ELSE AfterFollow
  /\ UNCHANGED <<reset, now, agenda, pin, starter, core, past>>

ArmDelay ==
  /\ pc = "arm" /\ Arm /\ pc' = AfterFollow
  /\ UNCHANGED <<reset, gate, now, pin, starter, core, past>>

(* watch_brownout: VDD has left its window with RESN not asserted; the core *)
(* is stopped and told nothing any more.                                    *)
BrownedOutFault == ~Held /\ brownout = None /\ vdd = "out" /\ resn = "high"  \* a RESN nobody drives
BrownedOut == ~Held /\ brownout = None /\ vdd = "out" /\ resn # "low"

WatchBrownout ==
  /\ pc = "brownout" /\ pc' = "idle"
  /\ IF BrownedOut
       THEN brownout' = now /\ core' = "stopped"
       ELSE UNCHANGED <<brownout, core>>
  /\ UNCHANGED <<reset, releasedAt, startedAt, cannotRestart, held,
                 now, agenda, pin, starter, upSince, sent>>

-----------------------------------------------------------------------------
(* The package's wake handler, the one the engine has for it.               *)

Fires(e) ==
  /\ pc = "idle" /\ e \in agenda /\ e.at <= now
  /\ agenda' = (agenda \ {e}) \cup (IF e.period = 0 THEN {}
                                    ELSE {[e EXCEPT !.at = e.at + e.period]})
  /\ UNCHANGED <<reset, now, pin, starter, upSince, sent>>

(* A core that a brownout stopped is woken no more.                         *)
IgnoreWake(e) ==
  /\ Fires(e) /\ brownout # None
  /\ UNCHANGED <<gate, pc, core>>

AwakeFault == ~Held                        \* the brownout not looked at
Awake == ~Held /\ brownout = None

WakeCore(e) ==
  /\ Fires(e) /\ Awake
  /\ UNCHANGED <<gate, pc, core>>

(* try_begin: the delay is out and the reset released still.                *)
DelayOut == releasedAt # None /\ now >= releasedAt + Delay /\ Released

TryBegin(e) ==
  /\ Fires(e) /\ Held /\ brownout = None
  /\ IF DelayOut
       THEN startedAt' = now /\ pc' = "begin"
       ELSE UNCHANGED <<startedAt, pc>>
  /\ UNCHANGED <<releasedAt, brownout, cannotRestart, held, core>>

(* The core is started, and then what it had asked for is forwarded.        *)
StartCore ==
  /\ pc = "begin" /\ core = "held" /\ core' = "running"
  /\ UNCHANGED <<reset, gate, engine, starter, past>>

Forwarded == {Entry(r, now) : r \in held}

ForwardHeld ==
  /\ pc = "begin" /\ core = "running" /\ pc' = "idle"
  /\ agenda' = agenda \cup Forwarded /\ held' = {}
  /\ UNCHANGED <<reset, releasedAt, startedAt, brownout, cannotRestart,
                 now, pin, starter, core, past>>

-----------------------------------------------------------------------------
(* CoreWakes: the core asks, through the gate.  A core in its reset stops.  *)
Ask(r) ==
  /\ sent < MaxAsks /\ pc # "reset" /\ sent' = sent + 1
  /\ IF brownout # None THEN UNCHANGED <<agenda, held>>
     ELSE IF Held THEN held' = held \cup {r} /\ UNCHANGED agenda
             ELSE agenda' = agenda \cup {Entry(r, now)} /\ UNCHANGED held
  /\ UNCHANGED <<reset, releasedAt, startedAt, brownout, cannotRestart,
                 now, pc, pin, starter, core, upSince>>

(* Component::start, on the system's thread: the system is live, and the    *)
(* reset followed from there.                                               *)
RequestStart ==
  /\ starter = "request" /\ starter' = "follow"
  /\ UNCHANGED <<reset, gate, engine, core, sent>>
  /\ upSince' = UpSince

StartFollow ==
  /\ starter = "follow" /\ FollowReset
  /\ starter' = IF Counted THEN "arm" ELSE "done"
  /\ UNCHANGED <<reset, engine, core, past>>

StartArm ==
  /\ starter = "arm" /\ Arm /\ starter' = "done"
  /\ UNCHANGED <<reset, gate, now, pc, pin, core, past>>

(* The engine's clock: held until the system is assembled, and moved with   *)
(* nothing due.                                                             *)
Tick ==
  /\ pc = "idle" /\ starter = "done" /\ now < MaxTime
  /\ \A e \in agenda : now < e.at
  /\ now' = now + 1
  /\ UNCHANGED <<reset, gate, agenda, pc, pin, starter, core, past>>

Sense ==
  /\ \/ \E b \in Banks : SenseBank(b)
     \/ \E level \in {"low", "high", "none"} : SenseResn(level)
     \/ \E window \in {"in", "out"} : SenseVdd(window)
  /\ upSince' = UpSince

Wake == \E e \in agenda : IgnoreWake(e) \/ WakeCore(e) \/ TryBegin(e)

Next ==
  \/ Sense \/ WatchReset \/ EnterReset \/ Follow \/ ArmDelay \/ WatchBrownout
  \/ Wake \/ StartCore \/ ForwardHeld
  \/ RequestStart \/ StartFollow \/ StartArm
  \/ \E r \in Requests : Ask(r)
  \/ Tick

Spec == Init /\ [][Next]_vars

-----------------------------------------------------------------------------
TypeOK ==
  /\ now \in Times
  /\ resn \in {"low", "high", "none"} /\ vdd \in {"in", "out"}
  /\ told \subseteq Banks \cup {"RESN", "VDD"}
  /\ releasedAt \in Times \cup {None} /\ startedAt \in Times \cup {None}
  /\ brownout \in Times \cup {None} /\ upSince \in Times \cup {None}
  /\ cannotRestart \in {"no", "yes"}
  /\ held \subseteq Requests
  /\ agenda \subseteq [at : Nat, period : Periods \cup {0}]
  /\ pc \in {"idle", "watch", "reset", "follow", "arm", "brownout", "begin"}
  /\ pin \in {"bank", "reset"} /\ starter \in {"request", "follow", "arm", "done"}
  /\ core \in {"held", "running", "stopped"}

(* The core starts exactly the restart delay after the inputs last released *)
(* its reset: no earlier, whatever wake of an earlier release, of the core  *)
(* or of a life before comes in between, and no later (the module docs,     *)
(* "The START gate").                                                       *)
StartsOnTime ==
  [][/\ Held /\ ~Held' => upSince # None /\ now = upSince + Delay
     /\ now' # now /\ Held /\ upSince # None => now < upSince + Delay]_vars

(* Wakes reach a core only while it runs: after its START, not while a      *)
(* reset holds it, and never again after a brownout.                        *)
OnlyRunningWoken ==
  [][/\ (\E e \in agenda : WakeCore(e)) => core = "running"
     /\ core = "stopped" => core' = "stopped"]_vars
=============================================================================
