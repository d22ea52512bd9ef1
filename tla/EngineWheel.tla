----------------------------- MODULE EngineWheel ----------------------------
(***************************************************************************)
(* The timer wheel of board/src/engine.rs.  The engine thread alternates   *)
(* between draining requests and firing what is due, and moves the clock   *)
(* only when a pass fired nothing.  A wake carries only its instant, so    *)
(* the engine keeps one key for each (component, deadline) that is owed a  *)
(* wake and delivers it once, whatever number of entries ask for it.       *)
(***************************************************************************)
EXTENDS Integers, FiniteSets

CONSTANTS
  Components,  \* components that ask for wakes
  Endpoints,   \* pins that publish finite pulse trains
  MaxTime,     \* bound: the last instant of a run
  MaxPeriod,   \* bound: the longest period asked for
  MaxEntries   \* bound: the entries after which nobody asks any more

ASSUME WheelAssumption ==
  /\ Components \cap Endpoints = {}
  /\ MaxTime \in Nat /\ MaxPeriod \in Nat \ {0} /\ MaxEntries \in Nat

VARIABLES
  now,         \* the instant the engine last advanced to
  wheel,       \* EngineCore.wheel
  armedWakes,  \* EngineCore.armed_wakes
  timerSeq,    \* EngineCore.timer_seq
  wakeSubs,    \* the components with a wake handler
  train,       \* the instant each slot's running train completes, 0: none runs
  pc,          \* where the engine is in its iteration
  asked,       \* history: the wakes asked for; heard if a handler was there
  chains,      \* history: the periodic wakes asked for
  wakes        \* history: the wakes delivered

wheelVars == <<now, wheel, armedWakes, timerSeq, wakeSubs, train, pc, asked, chains, wakes>>

Times   == 0..MaxTime
Latest  == MaxTime + MaxPeriod
OneShot == 0    \* the period of an entry that does not re-arm (period_ns: None)

Entry == [deadline : 0..Latest, seq : Nat,
          target : Components \cup Endpoints, period : 0..MaxPeriod]

WheelInit ==
  /\ now = 0 /\ wheel = {} /\ armedWakes = {} /\ timerSeq = 0
  /\ wakeSubs = {} /\ train = [e \in Endpoints |-> 0]
  /\ pc = "drain" /\ asked = {} /\ chains = {} /\ wakes = {}

-----------------------------------------------------------------------------
(* arm: a second one-shot for an instant that is owed a wake already adds   *)
(* nothing; a periodic entry carries its chain, and a train's completion    *)
(* carries no key, so both are always pushed.                               *)

RedundantFault(K, key, period) == key \in K   \* drops a chain with it
Redundant(K, key, period) == key \in K /\ period = OneShot

Pushed(W, d, target, period) ==
  W \cup {[deadline |-> d, seq |-> timerSeq, target |-> target, period |-> period]}

ArmWake(W, K, c, d, period) ==
  /\ armedWakes' = K \cup {<<c, d>>}
  /\ IF Redundant(K, <<c, d>>, period)
       THEN wheel' = W /\ UNCHANGED timerSeq
       ELSE wheel' = Pushed(W, d, c, period) /\ timerSeq' = timerSeq + 1

-----------------------------------------------------------------------------
(* Draining: the requests the engine handles between two firing passes.     *)

Draining == pc = "drain" /\ timerSeq < MaxEntries

(* Command::RegisterWake. *)
RegisterWake(c) ==
  /\ Draining
  /\ wakeSubs' = wakeSubs \cup {c}
  /\ UNCHANGED <<now, wheel, armedWakes, timerSeq, train, pc, asked, chains, wakes>>

(* Command::ScheduleAt, for an instant to come or one already past. *)
ScheduleAt(c, at) ==
  /\ Draining
  /\ ArmWake(wheel, armedWakes, c, at, OneShot)
  /\ asked' = asked \cup {[by |-> c, at |-> IF at < now THEN now ELSE at,
                            heard |-> c \in wakeSubs]}
  /\ UNCHANGED <<now, wakeSubs, train, pc, chains, wakes>>

(* Command::ScheduleEvery; a period of 0 is ignored. *)
ScheduleEvery(c, period) ==
  /\ Draining
  /\ ArmWake(wheel, armedWakes, c, now + period, period)
  /\ chains' = chains \cup {[by |-> c, since |-> now, period |-> period,
                              heard |-> c \in wakeSubs]}
  /\ UNCHANGED <<now, wakeSubs, train, pc, asked, wakes>>

CompletionArmedFault(e, t) ==                  \* an older train's entry trusted
  IF \E x \in wheel : x.target = e THEN wheel ELSE Pushed(wheel, t, e, OneShot)
CompletionArmed(e, t) == Pushed(wheel, t, e, OneShot)

(* arm_finite_train, when a drive puts a finite train in the slot. *)
PublishTrain(e, t) ==
  /\ Draining
  /\ train' = [train EXCEPT ![e] = t]
  /\ wheel' = CompletionArmed(e, t) /\ timerSeq' = timerSeq + 1
  /\ UNCHANGED <<now, armedWakes, wakeSubs, pc, asked, chains, wakes>>

(* Any other drive replaces the train and leaves its entry behind, stale.   *)
EndTrain(e) ==
  /\ Draining /\ train[e] # 0
  /\ train' = [train EXCEPT ![e] = 0]
  /\ UNCHANGED <<now, wheel, armedWakes, timerSeq, wakeSubs, pc, asked, chains, wakes>>

Drained == /\ pc = "drain" /\ pc' = "fire"
           /\ UNCHANGED <<now, wheel, armedWakes, timerSeq, wakeSubs, train,
                          asked, chains, wakes>>

-----------------------------------------------------------------------------
(* Firing: fire_due_timers.                                                 *)

Before(e, f) == \/ e.deadline < f.deadline
                \/ e.deadline = f.deadline /\ e.seq <= f.seq

DueFault(e) == e.deadline < now                \* an instant too late
Due(e) == e.deadline <= now

IsHead(e) == e \in wheel /\ \A f \in wheel : Before(e, f)

Rearmed(e) == IF e.deadline + e.period <= now THEN now + e.period
                                              ELSE e.deadline + e.period

KeyLeft(e) == armedWakes \ {<<e.target, e.deadline>>}

(* A wake entry: delivered if its key is still there, re-armed if periodic. *)
FireWake(e) ==
  /\ wakes' = IF <<e.target, e.deadline>> \in armedWakes /\ e.target \in wakeSubs
                THEN wakes \cup {<<e.target, now>>} ELSE wakes
  /\ IF e.period = OneShot
       THEN /\ wheel' = wheel \ {e} /\ armedWakes' = KeyLeft(e)
            /\ UNCHANGED timerSeq
       ELSE ArmWake(wheel \ {e}, KeyLeft(e), e.target, Rearmed(e), e.period)
  /\ UNCHANGED train

Outdated(e) == train[e.target] # e.deadline

(* A train's completion rests the train it was armed for, and no other.     *)
FireTrainDone(e) ==
  /\ wheel' = wheel \ {e}
  /\ train' = IF Outdated(e) THEN train ELSE [train EXCEPT ![e.target] = 0]
  /\ UNCHANGED <<armedWakes, timerSeq, wakes>>

FireDueTimer ==
  /\ pc = "fire"
  /\ \E e \in wheel : /\ IsHead(e) /\ Due(e)
                      /\ IF e.target \in Components THEN FireWake(e) ELSE FireTrainDone(e)
  /\ UNCHANGED <<now, wakeSubs, pc, asked, chains>>

(* Nothing is due.  A pass that did something starts over, unless the data  *)
(* queue has been at its cap for too long; otherwise the clock may move.    *)
PassEnds ==
  /\ pc = "fire" /\ \A e \in wheel : ~Due(e)
  /\ pc' \in {"drain", "advance"}
  /\ UNCHANGED <<now, wheel, armedWakes, timerSeq, wakeSubs, train, asked, chains, wakes>>

(* To the wheel's head, or to an actor's deadline before it. *)
AdvanceFault(t) == TRUE                        \* to the actor's deadline, wherever it is
NotPastHead(t) == \A e \in wheel : t <= e.deadline

Advance ==
  /\ pc = "advance" /\ pc' = "drain"
  /\ \E t \in Times : now < t /\ NotPastHead(t) /\ now' = t
  /\ UNCHANGED <<wheel, armedWakes, timerSeq, wakeSubs, train, asked, chains, wakes>>

-----------------------------------------------------------------------------
WheelNext ==
  \/ \E c \in Components : \/ RegisterWake(c)
                           \/ \E at \in Times : ScheduleAt(c, at)
                           \/ \E period \in 1..MaxPeriod : ScheduleEvery(c, period)
  \/ \E e \in Endpoints : EndTrain(e) \/ \E t \in 1..MaxTime : PublishTrain(e, t)
  \/ Drained \/ FireDueTimer \/ PassEnds \/ Advance

WheelSpec == WheelInit /\ [][WheelNext]_wheelVars

-----------------------------------------------------------------------------
WheelTypeOK ==
  /\ now \in Times /\ wheel \subseteq Entry
  /\ armedWakes \subseteq Components \X (0..Latest)
  /\ timerSeq \in Nat /\ wakeSubs \subseteq Components
  /\ train \in [Endpoints -> Times]
  /\ pc \in {"drain", "fire", "advance"}
  /\ wakes \subseteq Components \X Times
  /\ asked \subseteq [by : Components, at : Times, heard : BOOLEAN]
  /\ chains \subseteq [by : Components, since : Times, period : 1..MaxPeriod,
                       heard : BOOLEAN]

WakeEntry(e) == e.target \in Components

(* Every wake that is owed has an entry that will fire at its instant: the  *)
(* key that drops a repeated request never outlives the entry it trusts.    *)
KeyBacked ==
  \A k \in armedWakes : \E e \in wheel : e.target = k[1] /\ e.deadline = k[2]

(* Requests do not compound: no instant has two one-shot entries of one     *)
(* component on the wheel (the doc of armed_wakes).                         *)
NoCompounding ==
  \A e, f \in wheel :
    /\ WakeEntry(e) /\ e.target = f.target /\ e.deadline = f.deadline
    /\ e.period = OneShot /\ f.period = OneShot
    => e = f

(* The clock never moves past an instant something is due at, and a chain   *)
(* never has to coalesce (the doc of schedule_every).                       *)
NothingOverdue ==
  /\ pc = "advance" => \A e \in wheel : now < e.deadline
  /\ \A e \in wheel : e.period # OneShot => now <= e.deadline

(* A wake asked for in time is delivered at its instant, and so is every    *)
(* tick of a periodic chain, whichever other entries share the instant; and *)
(* nobody is woken at an instant nobody asked for.                          *)
Ticks(ch) == {t \in Times : \E k \in 1..MaxTime : t = ch.since + k * ch.period}
WokenOnTime ==
  pc = "advance" =>
    /\ \A a \in asked : a.heard /\ a.at <= now => <<a.by, a.at>> \in wakes
    /\ \A ch \in chains : \A t \in Ticks(ch) :
         ch.heard /\ t <= now => <<ch.by, t>> \in wakes
    /\ \A w \in wakes : \/ \E a \in asked : a.by = w[1] /\ a.at = w[2]
                        \/ \E ch \in chains : ch.by = w[1] /\ w[2] \in Ticks(ch)

(* A running train has an entry at its ceiling.                             *)
TrainBacked ==
  \A e \in Endpoints : train[e] # 0 =>
    \E x \in wheel : x.target = e /\ x.deadline = train[e]

(* A finite train comes to rest at its own ceiling: the clock never moves   *)
(* past it while the train still runs, and no completion, be it the one a   *)
(* train before it left behind, rests it earlier.                           *)
TrainsRestOnTime ==
  [][\A e \in Endpoints :
       /\ now' # now /\ train[e] # 0 => now' <= train[e]
       /\ FireDueTimer /\ train'[e] # train[e] => train[e] <= now /\ train'[e] = 0]_wheelVars
=============================================================================
