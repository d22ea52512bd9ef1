---------------------------- MODULE VirtualClock ----------------------------
(***************************************************************************)
(* The process-global virtual clock of core/src/virtual_clock.rs: one      *)
(* nanosecond counter, the registry of actors, the pending park deadlines  *)
(* and the two rules that may move the counter.  A holder of a             *)
(* TimeAuthority (the engine, or a test) waits for quiescence and advances;*)
(* without a holder, the last thread to park jumps to the earliest         *)
(* deadline.  One mutex guards the registry, so an action is one critical  *)
(* section: what the code does after it unlocks is a later action of the   *)
(* same thread.                                                            *)
(***************************************************************************)
EXTENDS Naturals, FiniteSets

CONSTANTS
  Workers,     \* threads that run simulation work and park on the clock
  Bound,       \* the workers that registered as actors before the run
  Late,        \* the workers that may register while the clock is live
  Guests,      \* the workers that may park without being registered
  Schedulers,  \* threads that take a TimeAuthority and advance the clock
  Early,       \* the schedulers that hold theirs before the run
  MaxTime,     \* bound: the last instant of a run
  MaxEpoch,    \* bound: how often the clock is initialised again
  Quantum,     \* HAL work that exhausts a slice (DEFAULT_QUANTUM_US)
  NoOwner      \* the owner of an unregistered thread's wait

Threads == Workers \cup Schedulers

ASSUME ClockAssumption ==
  /\ IsFiniteSet(Workers) /\ Workers \cap Schedulers = {}
  /\ Bound \subseteq Workers /\ Late \subseteq Workers
  /\ Guests \subseteq Workers /\ Early \subseteq Schedulers
  /\ MaxTime \in Nat /\ MaxEpoch \in Nat /\ Quantum \in Nat \ {0}
  /\ NoOwner \notin Workers

VARIABLES
  now,      \* Sched.now_ns (NOW_NS mirrors it under the same lock)
  epoch,    \* Sched.epoch
  actors,   \* keys of Sched.actors
  parked,   \* the actors whose state is parked
  running,  \* Sched.running
  waits,    \* Sched.waits
  holders,  \* who holds a TimeAuthority; TIME_AUTHORITY counts them
  pc,       \* where each thread is
  move,     \* the advance a thread has decided on, and where it goes next
  park,     \* the deadline and epoch a thread in park_until_virtual waits for
  slice,    \* SLICE_USED_US of each worker
  stalled   \* the holders that have given the barrier up (quiescence_stalled)

sched == <<now, epoch, actors, parked, running, waits>>
vars  == <<now, epoch, actors, parked, running, waits, holders,
           pc, move, park, slice, stalled>>

Places == {"run", "move", "notify", "asleep", "woken", "drain", "dropped",
           "idle", "hold", "blocked", "reached", "done"}

Returns == {"run", "woken", "dropped", "hold", "done"}

NoMove == [to |-> 0, ret |-> "run"]
NoPark == [deadline |-> 0, epoch |-> 0]

Wait == [deadline : 0..MaxTime, by : Workers, owner : Workers \cup {NoOwner}]

Init ==
  /\ now = 0 /\ epoch = 0
  /\ actors = Bound /\ parked = {} /\ running = Cardinality(Bound)
  /\ waits = {} /\ holders = Early
  /\ pc = [t \in Threads |-> CASE t \in Workers -> "run"
                               [] t \in Early   -> "hold"
                               [] OTHER         -> "idle"]
  /\ move  = [t \in Threads |-> NoMove]
  /\ park  = [t \in Workers |-> NoPark]
  /\ slice = [t \in Workers |-> 0]
  /\ stalled = {}

-----------------------------------------------------------------------------
(* Helpers.  d is the key a scheduler reads first in the ordered map.      *)

Earliest(d, W) == /\ \E w \in W : w.deadline = d
                  /\ \A w \in W : d <= w.deadline

(* Nobody runs and nobody holds the authority: a parking thread may jump. *)
MayIdleJumpFault(left) == holders = {}               \* the running actors forgotten
MayIdleJump(left) == left = 0 /\ holders = {}

(* QUIESCENT.notify_all: the threads asleep in await_quiescence look again. *)
WakeBarrierFault(f) == f                             \* the notification forgotten
WakeBarrier(f) == [t \in Threads |-> IF f[t] = "blocked" THEN "hold" ELSE f[t]]

(* ADVANCED.notify_all: the threads parked on the clock look again. *)
WakeParked(f) == [t \in Threads |-> IF f[t] = "asleep" THEN "woken" ELSE f[t]]

(* park_until_virtual up to the wait: the deadline joins the map, the actor *)
(* stops counting as running, and the thread either decides on an idle jump *)
(* (dropping the lock first) or sleeps on ADVANCED.                         *)
ParkUntilVirtual(t, d) ==
  LET owner == IF t \in actors THEN t ELSE NoOwner
      W     == waits \cup {[deadline |-> d, by |-> t, owner |-> owner]}
      stops == t \in actors \ parked
      left  == IF stops THEN running - 1 ELSE running
      woke  == IF stops /\ left = 0 THEN WakeBarrier(pc) ELSE pc
  IN /\ now < d
     /\ waits' = W
     /\ parked' = IF stops THEN parked \cup {t} ELSE parked
     /\ running' = left
     /\ park' = [park EXCEPT ![t] = [deadline |-> d, epoch |-> epoch]]
     /\ slice' = [slice EXCEPT ![t] = 0]
     /\ IF MayIdleJump(left)
          THEN \E e \in 1..MaxTime :
                 /\ Earliest(e, W)
                 /\ move' = [move EXCEPT ![t] = [to |-> e, ret |-> "woken"]]
                 /\ pc' = [woke EXCEPT ![t] = "move"]
          ELSE /\ pc' = [woke EXCEPT ![t] = "asleep"]
               /\ UNCHANGED move
     /\ UNCHANGED <<now, epoch, actors, holders, stalled>>

-----------------------------------------------------------------------------
(* The operations of a worker thread.                                      *)

(* A wait for no time or for an instant that has passed: the thread goes on *)
(* at once, and its slice has begun again.                                  *)
PastWait(t) ==
  /\ pc[t] = "run" /\ t \in actors \cup Guests
  /\ slice' = [slice EXCEPT ![t] = 0]
  /\ UNCHANGED <<sched, holders, pc, move, park, stalled>>

(* wait_until, wait_until_ns, wait_virtual_us and wait_virtual_ns. *)
WaitUntil(t) ==
  \/ PastWait(t)
  \/ /\ pc[t] = "run" /\ t \in actors \cup Guests
     /\ \E d \in 1..MaxTime : ParkUntilVirtual(t, d)

SliceUsed(t, us) == slice[t] + us

SliceFull(used) == used >= Quantum

(* charge: HAL work fills the slice, and a full slice parks the actor. *)
ChargeFault(t) ==                                    \* only the last call counted
  /\ pc[t] = "run" /\ t \in actors
  /\ \E us \in 1..Quantum : slice' = [slice EXCEPT ![t] = us]
  /\ UNCHANGED <<sched, holders, pc, move, park, stalled>>
Charge(t) ==
  /\ pc[t] = "run" /\ t \in actors
  /\ \E us \in 1..Quantum :
       \/ /\ ~SliceFull(SliceUsed(t, us))
          /\ slice' = [slice EXCEPT ![t] = SliceUsed(t, us)]
          /\ UNCHANGED <<sched, holders, pc, move, park, stalled>>
       \/ /\ SliceFull(SliceUsed(t, us))
          /\ now + SliceUsed(t, us) <= MaxTime
          /\ ParkUntilVirtual(t, now + SliceUsed(t, us))

RegisterActor(t) ==
  /\ pc[t] = "run" /\ t \in Late \ actors
  /\ actors' = actors \cup {t}
  /\ running' = running + 1
  /\ UNCHANGED <<now, epoch, parked, waits, holders, pc, move, park, slice, stalled>>

(* Actor::drop under the lock: the actor leaves, a park it still owns turns *)
(* anonymous, and the last running actor goes on to the idle jump.          *)
LeftRunningFault(t) == running                       \* the leaver still counted
LeftRunning(t) == IF t \in parked THEN running ELSE running - 1

ActorDrop(t) ==
  LET left == LeftRunning(t)
  IN /\ pc[t] = "run" /\ t \in actors
     /\ actors' = actors \ {t}
     /\ parked' = parked \ {t}
     /\ running' = left
     /\ waits' = {[w EXCEPT !.owner = IF @ = t THEN NoOwner ELSE @] : w \in waits}
     /\ slice' = [slice EXCEPT ![t] = 0]
     /\ IF left = 0
          THEN /\ move' = [move EXCEPT ![t] = [to |-> 0, ret |-> "dropped"]]
               /\ pc' = [pc EXCEPT ![t] = "drain"]
          ELSE UNCHANGED <<pc, move>>
     /\ UNCHANGED <<now, epoch, holders, park, stalled>>

(* Actor::drop after the jump: tell a scheduler, unless someone runs again. *)
NotifyDropped(t) ==
  /\ pc[t] = "dropped"
  /\ pc' = [IF running = 0 THEN WakeBarrier(pc) ELSE pc EXCEPT ![t] = "run"]
  /\ UNCHANGED <<sched, holders, move, park, slice, stalled>>

(* init: an in-process restart.  The epoch ends every park, and ADVANCED is *)
(* notified after the lock is dropped.                                      *)
ClockInit(t) ==
  /\ pc[t] = "run" /\ epoch < MaxEpoch
  /\ now' = 0 /\ epoch' = epoch + 1
  /\ waits' = {} /\ parked' = {}
  /\ running' = running + Cardinality(parked)
  /\ pc' = [pc EXCEPT ![t] = "notify"]
  /\ UNCHANGED <<actors, holders, move, park, slice, stalled>>

Exit(t) ==
  /\ pc[t] = "run" /\ t \notin actors
  /\ pc' = [pc EXCEPT ![t] = "done"]
  /\ UNCHANGED <<sched, holders, move, park, slice, stalled>>

-----------------------------------------------------------------------------
(* Moving the clock.                                                       *)

(* wake_parked_if_drained, up to where it drops the lock. *)
WakeParkedIfDrained(t) ==
  /\ pc[t] = "drain"
  /\ IF MayIdleJump(running) /\ waits # {}
       THEN \E e \in 1..MaxTime :
              /\ Earliest(e, waits)
              /\ move' = [move EXCEPT ![t].to = e]
              /\ pc' = [pc EXCEPT ![t] = "move"]
       ELSE /\ pc' = [pc EXCEPT ![t] = move[t].ret]
            /\ move' = [move EXCEPT ![t] = NoMove]
  /\ UNCHANGED <<sched, holders, park, slice, stalled>>

(* advance_to_ns under the lock.  A target behind now is refused; otherwise *)
(* every wait now due leaves the map and its parked owner runs again.       *)
DueFault(v) == {w \in waits : w.deadline < v}        \* the deadline itself missed
Due(v) == {w \in waits : w.deadline <= v}

Released(v) == {a \in parked : \E w \in Due(v) : w.owner = a}

AdvanceToNs(t) ==
  LET v        == move[t].to
      released == Released(v)
  IN /\ pc[t] = "move"
     /\ IF v < now
          THEN /\ pc' = [pc EXCEPT ![t] = move[t].ret]
               /\ move' = [move EXCEPT ![t] = NoMove]
               /\ UNCHANGED sched
          ELSE /\ now' = v
               /\ waits' = waits \ Due(v)
               /\ parked' = parked \ released
               /\ running' = running + Cardinality(released)
               /\ pc' = [pc EXCEPT ![t] = "notify"]
               /\ UNCHANGED <<epoch, actors, move>>
     /\ UNCHANGED <<holders, park, slice, stalled>>

(* ADVANCED.notify_all, after the lock is dropped. *)
NotifyAdvanced(t) ==
  /\ pc[t] = "notify"
  /\ pc' = [WakeParked(pc) EXCEPT ![t] = move[t].ret]
  /\ move' = [move EXCEPT ![t] = NoMove]
  /\ UNCHANGED <<sched, holders, park, slice, stalled>>

(* The loop around ADVANCED.wait: return, or sleep again. *)
Recheck(t) ==
  /\ pc[t] = "woken"
  /\ IF now < park[t].deadline /\ epoch = park[t].epoch
       THEN /\ pc' = [pc EXCEPT ![t] = "asleep"]
            /\ UNCHANGED park
       ELSE /\ pc' = [pc EXCEPT ![t] = "run"]
            /\ park' = [park EXCEPT ![t] = NoPark]
  /\ UNCHANGED <<sched, holders, move, slice, stalled>>

-----------------------------------------------------------------------------
(* The operations of a thread that holds a TimeAuthority.                  *)

TakeTimeAuthority(s) ==
  /\ pc[s] = "idle"
  /\ holders' = holders \cup {s}
  /\ pc' = [pc EXCEPT ![s] = "hold"]
  /\ UNCHANGED <<sched, move, park, slice, stalled>>

(* await_quiescence: Reached with the earliest deadline, or asleep on       *)
(* QUIESCENT; a holder that has given the barrier up only reads the         *)
(* deadline.  With none pending the run's bound stands in for it.           *)
AwaitQuiescence(s) ==
  /\ pc[s] = "hold"
  /\ \/ /\ running > 0 /\ s \notin stalled
        /\ pc' = [pc EXCEPT ![s] = "blocked"]
        /\ UNCHANGED move
     \/ /\ running = 0 \/ s \in stalled
        /\ \E e \in 0..MaxTime :
             /\ IF waits = {} THEN e = MaxTime ELSE Earliest(e, waits)
             /\ move' = [move EXCEPT ![s] = [to |-> e, ret |-> "hold"]]
        /\ pc' = [pc EXCEPT ![s] = "reached"]
  /\ UNCHANGED <<sched, holders, park, slice, stalled>>

(* The wall-clock escape hatch: with somebody still running Stalled is      *)
(* reported, and the engine goes on without the barrier from then on.       *)
QuiescenceStalled(s) ==
  /\ pc[s] = "blocked"
  /\ pc' = [pc EXCEPT ![s] = "hold"]
  /\ stalled' = IF running > 0 THEN stalled \cup {s} ELSE stalled
  /\ UNCHANGED <<sched, holders, move, park, slice>>

(* The engine advances to the deadline it was given or to an earlier event  *)
(* of its own.                                                              *)
ChooseTarget(s) ==
  /\ pc[s] = "reached"
  /\ \E v \in now + 1 .. move[s].to : move' = [move EXCEPT ![s].to = v]
  /\ pc' = [pc EXCEPT ![s] = "move"]
  /\ UNCHANGED <<sched, holders, park, slice, stalled>>

(* TimeAuthority::drop: the last holder nudges whoever is parked. *)
DropTimeAuthority(s) ==
  /\ pc[s] \in {"hold", "reached"}
  /\ holders' = holders \ {s}
  /\ move' = [move EXCEPT ![s] = [to |-> 0, ret |-> "done"]]
  /\ pc' = [pc EXCEPT ![s] = IF holders = {s} THEN "drain" ELSE "done"]
  /\ UNCHANGED <<sched, park, slice, stalled>>

-----------------------------------------------------------------------------
Terminated == /\ \A t \in Threads : pc[t] = "done"
              /\ UNCHANGED vars

WorkerStep(t) == WaitUntil(t) \/ Charge(t) \/ ActorDrop(t)

ClockStep(t) ==
  \/ WakeParkedIfDrained(t) \/ AdvanceToNs(t) \/ NotifyAdvanced(t)

SchedulerStep(s) == AwaitQuiescence(s) \/ ChooseTarget(s) \/ DropTimeAuthority(s)

Next ==
  \/ \E t \in Workers : \/ WorkerStep(t) \/ RegisterActor(t) \/ ClockInit(t)
                        \/ NotifyDropped(t) \/ Recheck(t) \/ Exit(t)
  \/ \E t \in Threads : ClockStep(t)
  \/ \E s \in Schedulers : \/ TakeTimeAuthority(s) \/ SchedulerStep(s)
                           \/ QuiescenceStalled(s)
  \/ Terminated

Spec == Init /\ [][Next]_vars

(* The operating system runs every thread that can run; an actor that runs  *)
(* waits again, reaches HAL or leaves; a holder advances or lets go.        *)
Fairness ==
  /\ \A t \in Threads : WF_vars(ClockStep(t))
  /\ \A t \in Workers : /\ WF_vars(NotifyDropped(t) \/ Recheck(t))
                        /\ WF_vars(t \in actors /\ WorkerStep(t))
  /\ \A s \in Schedulers : WF_vars(SchedulerStep(s))

FairSpec == Spec /\ Fairness
-----------------------------------------------------------------------------
(* Properties.                                                             *)

TypeOK ==
  /\ now \in 0..MaxTime /\ epoch \in 0..MaxEpoch
  /\ actors \subseteq Workers /\ parked \subseteq actors
  /\ running \in Nat
  /\ waits \subseteq Wait /\ holders \subseteq Schedulers
  /\ pc \in [Threads -> Places]
  /\ move \in [Threads -> [to : 0..MaxTime, ret : Returns]]
  /\ park \in [Workers -> [deadline : 0..MaxTime, epoch : 0..MaxEpoch]]
  /\ slice \in [Workers -> 0..Quantum - 1]
  /\ stalled \subseteq Schedulers

(* The counter the barrier reads is the number of registered actors that    *)
(* are not parked, whatever order threads park, leave, register, restart    *)
(* the clock and are released in.                                           *)
RunningExact == running = Cardinality(actors \ parked)

(* No park is overdue, and an actor counts as parked exactly while a        *)
(* deadline of its own is pending: nobody is parked that no advance will    *)
(* release, and nobody the clock has released still counts as parked.       *)
ParkedIffPending ==
  /\ \A w \in waits : now < w.deadline
  /\ \A a \in actors : a \in parked <=> \E w \in waits : w.owner = a

(* A thread asleep in await_quiescence with nobody running has a            *)
(* notification on its way: an actor that left is still between its         *)
(* deregistration and its notify.                                           *)
BarrierNotifyNotLost ==
  (running = 0 /\ \E s \in Schedulers : pc[s] = "blocked")
    => \E t \in Workers : \/ pc[t] = "dropped"
                          \/ pc[t] \in {"drain", "move", "notify"}
                             /\ move[t].ret = "dropped"

(* Until a holder has given the barrier up, time moves only when every      *)
(* registered actor is parked.                                              *)
MovesOnlyQuiescent == [][stalled = {} /\ now < now' => running = 0]_vars

(* Until then time never moves past an instant somebody is parked for. *)
SkipsNoDeadline ==
  [][stalled = {} => \A w \in waits : now' <= w.deadline \/ now' = now]_vars

(* Until then a thread that returns from a park returns at the very instant *)
(* it asked for, however late the operating system schedules it.            *)
WakesOnTime ==
  [][\A t \in Workers : stalled = {} /\ pc[t] = "woken" /\ pc'[t] = "run"
                          => now = park[t].deadline]_vars

(* Nobody jumps the clock while a TimeAuthority is held.  Only of schedulers *)
(* that held theirs before the run: a jump decided before an authority is    *)
(* taken is made after it (Early = {}).                                      *)
JumpsOnlyUnheld ==
  [][\A t \in Workers : pc[t] = "move" /\ now < now' /\ pc'[t] = "notify"
                          => holders = {}]_vars

(* No actor goes on for ever making waits that are already over.            *)
WaitsAreReal == \A t \in Workers : <>[][~PastWait(t)]_vars

(* Every parked thread is released, unless an actor goes on for ever making *)
(* waits that are over: each of them begins its HAL slice again, so that it *)
(* never fills and the actor holds the barrier (charge's doc promises it of *)
(* a real wait only).                                                       *)
SleepersReturn ==
  WaitsAreReal => \A t \in Workers : pc[t] = "asleep" ~> pc[t] = "run"

(* An actor that spins on HAL calls without ever waiting still stops        *)
(* running: it parks or leaves, so it cannot hold the barrier for ever.     *)
(* Again but for waits that are over, which begin its slice again.          *)
SpinnersYield ==
  \A t \in Workers :
    <>[][~PastWait(t)]_vars => (t \in actors \ parked ~> t \notin actors \ parked)

(* With every worker registered before the run the clock implements the     *)
(* abstract one: no lock, notification, stale jump or holder shows through. *)
SleepingUntil(t) ==
  IF \E w \in waits : w.by = t
  THEN (CHOOSE w \in waits : w.by = t).deadline ELSE 0

Simulated == INSTANCE SimTime
  WITH Members <- Workers, Horizon <- MaxTime, time <- now, present <- actors,
       sleeping <- [t \in Workers |-> SleepingUntil(t)], degraded <- stalled # {}
ImplementsSimTime == Simulated!Spec
=============================================================================
