----------------------------- MODULE EngineLoop -----------------------------
(***************************************************************************)
(* run_stepped_iteration of board/src/engine.rs: the loop in which the net *)
(* engine, as the time authority, waits for the registered actors, drains  *)
(* its two queues, fires its wheel and moves the clock.  The clock is the  *)
(* one of SimTime, the wheel a set of instants (EngineWheel has its        *)
(* entries) and a drive is only the instant it was published at            *)
(* (DriveSequencer has their order).                                       *)
(***************************************************************************)
EXTENDS Integers, Sequences, FiniteSets

CONSTANTS
  Actors,      \* registered actors: the barrier waits for them
  Guests,      \* threads that are not: scripted stimulus, protocol threads
  Schedulers,  \* the threads that ask for wakes
  Flooders,    \* guests that publish without pause
  Batch,       \* COMMAND_DRAIN_BATCH_MAX
  CappedMax,   \* COMMAND_DRAIN_CAPPED_PASSES_MAX
  Stalls,      \* may an actor outlast the quiescence timeout?
  MaxTime,     \* bound: the last instant of a run
  MaxSends,    \* bound: the requests and drives sent by anyone but a flooder
  MaxQueue     \* bound: the queue length at which a flooder pauses

ASSUME LoopAssumption ==
  /\ Actors \cap Guests = {} /\ Flooders \subseteq Guests
  /\ {"engine", "release", "shutdown"} \cap (Actors \cup Guests) = {}
  /\ Schedulers \subseteq Actors \cup Guests
  /\ Batch \in Nat \ {0} /\ CappedMax \in Nat \ {0} /\ Stalls \in BOOLEAN
  /\ MaxTime \in Nat \ {0} /\ MaxSends \in Nat /\ MaxQueue \in Nat

VARIABLES
  now,       \* the virtual clock
  until,     \* a thread's park deadline; Running, or Gone once it has ended
  unsent,    \* a request counted in pending_schedules but not yet sent
  control,   \* the control queue: the requests for wakes
  data,      \* the data queue: drives and the system's commands
  pending,   \* EngineLink.pending_schedules
  system,    \* how far System has come: assembling, started, dropped
  pc,        \* where the engine is in its iteration
  work,      \* has this pass done anything?
  drained,   \* commands taken off the data queue in this pass
  capped,    \* consecutive passes that filled their batch
  released,  \* EngineCore.clock_released
  stalled,   \* EngineCore.quiescence_stalled
  wheel,     \* the instants armed
  target,    \* the deadline the engine has read and is about to advance to
  sent,      \* history: what anyone but a flooder has sent
  handled    \* history: commands off the data queue at this instant

threads == <<until, unsent, sent>>
queues  == <<control, data, pending, system>>
loop    == <<pc, work, drained, capped>>
engine  == <<released, stalled, wheel, target, handled>>
vars    == <<now, threads, queues, loop, engine>>

Threads == Actors \cup Guests
Engine  == "engine"        \* a callback on the engine's own thread
Times   == 0..MaxTime
Running == 0
Gone    == MaxTime + 1
NoRequest == {}

Parked(t) == until[t] \in 1..MaxTime
Awake == {a \in Actors : until[a] = Running}

Init ==
  /\ now = 0 /\ until = [t \in Threads |-> Running]
  /\ unsent = [t \in Threads |-> NoRequest] /\ sent = 0
  /\ control = <<>> /\ data = <<>> /\ pending = 0 /\ system = "assembling"
  /\ pc = "quiesce" /\ work = FALSE /\ drained = 0 /\ capped = 0
  /\ released = FALSE /\ stalled = FALSE /\ wheel = {} /\ target = 0 /\ handled = 0

-----------------------------------------------------------------------------
(* Threads: what an actor or a guest does between two of its parks.         *)

Request(at) == [at |-> at, asked |-> now]
Drive(by)   == [by |-> by, issued |-> now]
Command(c)  == [by |-> c, issued |-> 0]

CanAct(t) == pc # "stopped" /\ until[t] = Running /\ unsent[t] = NoRequest

(* send_control: the request is counted first ...                           *)
CountRequest(t, at) ==
  /\ CanAct(t) /\ t \in Schedulers /\ sent < MaxSends
  /\ sent' = sent + 1 /\ pending' = pending + 1
  /\ unsent' = [unsent EXCEPT ![t] = {Request(at)}]
  /\ UNCHANGED <<now, until, control, data, system, loop, engine>>

(* ... and sent in a step of its own.                                       *)
SendRequest(t) ==
  /\ pc # "stopped"
  /\ \E r \in unsent[t] : control' = Append(control, r)
  /\ unsent' = [unsent EXCEPT ![t] = NoRequest]
  /\ UNCHANGED <<now, until, sent, data, pending, system, loop, engine>>

Publish(t) ==
  /\ CanAct(t) /\ t \notin Flooders /\ sent < MaxSends
  /\ sent' = sent + 1 /\ data' = Append(data, Drive(t))
  /\ UNCHANGED <<now, until, unsent, control, pending, system, loop, engine>>

Flood(t) ==
  /\ CanAct(t) /\ t \in Flooders /\ Len(data) < MaxQueue
  /\ data' = Append(data, Drive(t))
  /\ UNCHANGED <<now, threads, control, pending, system, loop, engine>>

Park(t, d) ==
  /\ CanAct(t) /\ t \notin Flooders /\ d > now
  /\ until' = [until EXCEPT ![t] = d]
  /\ UNCHANGED <<now, unsent, sent, queues, loop, engine>>

(* An actor's thread ends, and with it its place in the barrier.            *)
End(t) ==
  /\ CanAct(t) /\ t \in Actors
  /\ until' = [until EXCEPT ![t] = Gone]
  /\ UNCHANGED <<now, unsent, sent, queues, loop, engine>>

(* System::start, once every component has started; and its drop.           *)
ReleaseTime ==
  /\ system = "assembling" /\ system' = "started"
  /\ data' = Append(data, Command("release"))
  /\ UNCHANGED <<now, threads, control, pending, loop, engine>>

Shutdown ==
  /\ system = "started" /\ system' = "dropped"
  /\ data' = Append(data, Command("shutdown"))
  /\ UNCHANGED <<now, threads, control, pending, loop, engine>>

ThreadStep(t) ==
  \/ \E at \in Times : CountRequest(t, at)
  \/ SendRequest(t) \/ Publish(t) \/ Flood(t) \/ End(t)
  \/ \E d \in Times : Park(t, d)

-----------------------------------------------------------------------------
(* The engine's thread.  handle, for a command of each queue.               *)

HandleControl ==
  /\ control # <<>> /\ control' = Tail(control)
  /\ wheel' = wheel \cup {Head(control).at}
  /\ pending' = pending - 1

(* What a callback of a component does on this thread, "rest" being left of  *)
(* the data queue: it asks for a wake, publishes a drive or does neither.   *)
Callback(rest) ==
  \/ data' = rest /\ UNCHANGED <<sent, control, pending>>
  \/ /\ sent < MaxSends /\ sent' = sent + 1
     /\ \E at \in Times : control' = Append(control, Request(at))
     /\ pending' = pending + 1 /\ data' = rest
  \/ /\ sent < MaxSends /\ sent' = sent + 1
     /\ data' = Append(rest, Drive(Engine))
     /\ UNCHANGED <<control, pending>>

IsDrive(m) == m.by \in Threads \cup {Engine}

(* A drive that moves a net is heard by the components that sense it.       *)
HandleData ==
  /\ data # <<>>
  /\ \/ IsDrive(Head(data)) /\ Callback(Tail(data))
     \/ ~IsDrive(Head(data)) /\ data' = Tail(data) /\ UNCHANGED <<sent, control, pending>>
  /\ released' = (released \/ Head(data).by = "release")
  /\ handled' = IF handled < Batch * CappedMax THEN handled + 1 ELSE handled

NewPass == pc' = "quiesce"
NewIteration == NewPass /\ capped' = 0

Quiescent == Awake = {}

(* await_actor_quiescence: reached, or given up on once and for all.        *)
Quiesce ==
  /\ pc = "quiesce" /\ (stalled \/ Quiescent)
  /\ pc' = "control" /\ work' = FALSE /\ drained' = 0
  /\ UNCHANGED <<now, threads, queues, capped, engine>>

Stall ==
  /\ Stalls /\ pc = "quiesce" /\ ~stalled /\ ~Quiescent
  /\ stalled' = TRUE
  /\ pc' = "control" /\ work' = FALSE /\ drained' = 0
  /\ UNCHANGED <<now, threads, queues, capped, released, wheel, target, handled>>

(* drain_control: to the last request. *)
DrainControl ==
  /\ pc = "control"
  /\ \/ /\ HandleControl /\ work' = TRUE
        /\ UNCHANGED pc
     \/ /\ control = <<>> /\ pc' = "data"
        /\ UNCHANGED <<control, pending, wheel, work>>
  /\ UNCHANGED <<now, threads, data, system, drained, capped,
                 released, stalled, target, handled>>

BatchFull == drained >= Batch

(* The data queue: to its end, to a full batch or to a shutdown.            *)
DrainData ==
  /\ pc = "data"
  /\ \/ /\ ~BatchFull /\ HandleData
        /\ work' = TRUE /\ drained' = drained + 1
        /\ pc' = IF Head(data).by = "shutdown" THEN "stopped" ELSE "data"
     \/ /\ BatchFull \/ data = <<>>
        /\ pc' = "fire"
        /\ UNCHANGED <<sent, data, control, pending, released, handled, work, drained>>
  /\ UNCHANGED <<now, until, unsent, system, capped, stalled, wheel, target>>

-----------------------------------------------------------------------------
(* fire_due_timers: the head of the wheel, delivered to its component.      *)

Due(d) == d <= now

Fire ==
  /\ pc = "fire"
  /\ \E d \in wheel : /\ Due(d) /\ \A e \in wheel : d <= e
                      /\ wheel' = wheel \ {d}
  /\ work' = TRUE /\ Callback(data)
  /\ UNCHANGED <<now, until, unsent, system, pc, drained, capped,
                 released, stalled, target, handled>>

(* next_virtual_deadline: the head of the wheel or the earliest park.       *)
DeadlinesFault == {until[t] : t \in {u \in Threads : Parked(u)}}  \* parks only
Deadlines == wheel \cup {until[t] : t \in {u \in Threads : Parked(u)}}
Earliest(D) == CHOOSE d \in D : \A e \in D : d <= e

CappedOutFault == capped + 1 >= CappedMax - 1   \* a pass too early
CappedOutNever == FALSE                         \* no way out of a flood
CappedOut == capped + 1 >= CappedMax

(* The end of a pass: nothing done, or a batch that has been full too often *)
(* and something to advance to; otherwise another pass.                     *)
PassEnds ==
  /\ pc = "fire" /\ \A d \in wheel : ~Due(d)
  /\ IF ~work \/ (BatchFull /\ CappedOut /\ Deadlines # {} /\ Earliest(Deadlines) > now)
       THEN pc' = "check" /\ capped' = 0
       ELSE /\ NewPass
            /\ capped' = IF BatchFull /\ capped < CappedMax THEN capped + 1
                         ELSE IF BatchFull THEN capped ELSE 0
  /\ UNCHANGED <<now, threads, queues, work, drained, engine>>

-----------------------------------------------------------------------------
(* Between two instants.                                                    *)

HoldFault == FALSE                        \* time is not held for a request
Hold == pending > 0

CheckPending ==
  /\ pc = "check"
  /\ pc' = IF Hold THEN "hold" ELSE "choose"
  /\ UNCHANGED <<now, threads, queues, work, drained, capped, engine>>

(* A request on its way: taken when it lands, or not before the timeout.    *)
AwaitRequest ==
  /\ pc = "hold" /\ NewIteration
  /\ \/ HandleControl
     \/ control = <<>> /\ UNCHANGED <<control, pending, wheel>>
  /\ UNCHANGED <<now, threads, data, system, work, drained,
                 released, stalled, target, handled>>

NotHeld == released

ChooseDeadline ==
  /\ pc = "choose"
  /\ IF NotHeld /\ Deadlines # {}
       THEN IF Earliest(Deadlines) > now
              THEN /\ pc' = "advance" /\ target' = Earliest(Deadlines)
                   /\ UNCHANGED <<capped, work>>
              ELSE NewIteration /\ UNCHANGED <<target, work>>
       ELSE pc' = "idle" /\ work' = FALSE /\ UNCHANGED <<target, capped>>
  /\ UNCHANGED <<now, threads, queues, drained, released, stalled, wheel, handled>>

(* advance_to_ns: every park up to the target is released with the move.    *)
Advance ==
  /\ pc = "advance" /\ NewIteration
  /\ now' = target
  /\ until' = [t \in Threads |->
                 IF Parked(t) /\ until[t] <= target THEN Running ELSE until[t]]
  /\ handled' = 0 /\ target' = 0
  /\ UNCHANGED <<unsent, sent, queues, work, drained, released, stalled, wheel>>

(* Nothing to advance to: the requests that are there, else one command off *)
(* the data queue, else the end of the poll.                                *)
Idle ==
  /\ pc = "idle"
  /\ \/ /\ HandleControl /\ work' = TRUE
        /\ UNCHANGED <<pc, capped, sent, data, released, handled>>
     \/ /\ control = <<>>
        /\ \/ /\ ~work /\ HandleData
              /\ pc' = IF Head(data).by = "shutdown" THEN "stopped" ELSE "quiesce"
           \/ /\ work \/ data = <<>>
              /\ NewPass /\ UNCHANGED <<sent, control, pending, data, released, handled>>
        /\ capped' = 0 /\ UNCHANGED <<wheel, work>>
  /\ UNCHANGED <<now, until, unsent, system, drained, stalled, target>>

EngineStep ==
  \/ Quiesce \/ Stall \/ DrainControl \/ DrainData \/ Fire \/ PassEnds
  \/ CheckPending \/ AwaitRequest \/ ChooseDeadline \/ Advance \/ Idle

Next ==
  \/ \E t \in Threads : ThreadStep(t)
  \/ ReleaseTime \/ Shutdown \/ EngineStep

Spec == Init /\ [][Next]_vars

(* The engine's thread runs, System starts and is not dropped, and what a   *)
(* thread has counted it sends.  No thread has to park.                     *)
FairSpec ==
  /\ Init /\ [][Next /\ ~Shutdown]_vars
  /\ WF_vars(EngineStep) /\ WF_vars(ReleaseTime)
  /\ \A t \in Threads : WF_vars(SendRequest(t))

-----------------------------------------------------------------------------
TypeOK ==
  /\ now \in Times /\ until \in [Threads -> 0..Gone]
  /\ \A t \in Threads : Cardinality(unsent[t]) <= 1
  /\ \A i \in 1..Len(control) : control[i] \in [at : Times, asked : Times]
  /\ \A i \in 1..Len(data) : /\ data[i].issued \in Times
                             /\ data[i].by \in Threads \cup {Engine, "release", "shutdown"}
  /\ pending \in Nat /\ drained \in 0..Batch /\ capped \in 0..CappedMax
  /\ pc \in {"quiesce", "control", "data", "fire", "check", "hold", "choose",
             "advance", "idle", "stopped"}
  /\ wheel \subseteq Times /\ target \in Times
  /\ <<work, released, stalled>> \in BOOLEAN \X BOOLEAN \X BOOLEAN

InFlight == {control[i] : i \in 1..Len(control)} \cup UNION {unsent[t] : t \in Threads}
Registered(m) == m.by \in Actors \cup {Engine}
TimeMoves == now' # now

(* A request for a wake never outlives the instant it was made at, so none  *)
(* is overdue when it arrives and a period is anchored where it was asked   *)
(* for (the docs of send_control and schedule_every).                       *)
RequestsCurrent == ~stalled => \A r \in InFlight : r.asked = now

(* No deadline is passed: not one on the wheel, nor an actor's.             *)
NoDeadlinePassed ==
  [][TimeMoves /\ ~stalled =>
       /\ \A d \in wheel : now' <= d
       /\ \A a \in Actors : Parked(a) => now' <= until[a]]_vars

(* A drive of an actor or a callback is applied at the instant it was       *)
(* published at, unless a whole run of full batches went before it.         *)
DrivesOnInstant ==
  [][TimeMoves /\ ~stalled =>
       \/ handled = Batch * CappedMax
       \/ \A i \in 1..Len(data) : ~Registered(data[i])]_vars

(* Time goes on: what is armed fires, however full the data queue is kept   *)
(* and whether or not every actor parks.  Only a trickle can hold it for    *)
(* ever: pass after pass that finds something to do and too little of it to *)
(* fill a batch, which no cap counts; and then only what is not yet due.    *)
Trickles == PassEnds /\ work /\ ~BatchFull

WakesFire ==
  \A d \in Times :
    \/ d \in wheel ~> d \notin wheel
    \/ <>[](now < d) /\ []<><<Trickles>>_vars
=============================================================================
