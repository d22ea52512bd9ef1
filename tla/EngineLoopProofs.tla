-------------------------- MODULE EngineLoopProofs --------------------------
(***************************************************************************)
(* Proofs about EngineLoop, for any actors and guests, any batch and cap   *)
(* and any bounds.  While the engine is past its wait for the actors no    *)
(* actor runs, so what it has read of them and of their requests stays     *)
(* true until it moves the clock.                                          *)
(***************************************************************************)
EXTENDS EngineLoop, TLAPS, FiniteSetTheorems, WellFoundedInduction

MaxHandled == Batch * CappedMax
ARequest == [at : Times, asked : Times]
AMessage == [by : Threads \cup {Engine, "release", "shutdown"}, issued : Times]
Asking == {t \in Threads : unsent[t] # NoRequest}
InPass == pc \in {"control", "data", "fire"}
Moving == pc \in {"choose", "advance"}

LoopType ==
  /\ now \in Times /\ until \in [Threads -> 0..Gone]
  /\ unsent \in [Threads -> SUBSET ARequest]
  /\ control \in Seq(ARequest)
  /\ data \in Seq(AMessage)
  /\ pending \in Nat /\ drained \in 0..Batch /\ capped \in 0..CappedMax
  /\ handled \in 0..MaxHandled
  /\ pc \in {"quiesce", "control", "data", "fire", "check", "hold", "choose",
             "advance", "idle", "stopped"}
  /\ wheel \subseteq Times /\ target \in Times /\ work \in BOOLEAN /\ stalled \in BOOLEAN

(* A thread asks for one wake at a time, and asks before it parks.          *)
AskedOnce ==
  \A t \in Asking : /\ t \in Schedulers /\ until[t] = Running
                    /\ \E r \in ARequest : unsent[t] = {r}

(* The counter counts what is on its way, from before it is sent.           *)
Counted == /\ IsFiniteSet(Asking)
           /\ pending = Len(control) + Cardinality(Asking)

(* The barrier: past the wait no actor runs, until the clock moves.         *)
Barrier == ~stalled /\ pc \notin {"quiesce", "stopped"} => Awake = {}

LoopInv == LoopType /\ AskedOnce /\ Counted /\ Barrier

(* Nothing is on its way when the engine has seen the counter at nought.    *)
NoneInFlight == Moving /\ ~stalled => pending = 0

(* The deadline that was read is the first, of the wheel's and the actors'. *)
FirstDeadline ==
  pc = "advance" =>
    /\ target > now /\ \A d \in wheel : target <= d
    /\ ~stalled => \A a \in Actors : Parked(a) => target <= until[a]

(* What a pass has done so far, and what the full ones before it have.      *)
PassCounts ==
  /\ pc = "quiesce" => handled = MaxHandled \/ handled >= Batch * capped
  /\ InPass => handled = MaxHandled \/ handled >= Batch * capped + drained
  /\ pc \in {"control", "data"} /\ ~work => drained = 0
  /\ pc = "control" => drained = 0

(* A pass that did nothing has seen the data queue empty; a registered      *)
(* drive comes of an actor or of a callback, and there was neither since.   *)
NoneRegistered == \A i \in 1..Len(data) : ~Registered(data[i])

DataSeen ==
  ~stalled =>
    /\ pc = "fire" /\ ~work => NoneRegistered
    /\ pc = "check" \/ Moving => handled = MaxHandled \/ NoneRegistered

-----------------------------------------------------------------------------
(* The least instant of a set of them.                                      *)
LEMMA EarliestIsLeast ==
  ASSUME NEW D, D \subseteq Nat, D # {}
  PROVE  Earliest(D) \in D /\ \A e \in D : Earliest(D) <= e
<1> DEFINE R == {ss \in Nat \X Nat : ss[1] < ss[2]}
<1>1. IsWellFoundedOn(R, Nat)
  BY NatLessThanWellFounded DEF OpToRel
<1> HIDE DEF R
<1>2. PICK d \in D : \A e \in D : ~ (<<e, d>> \in R)
  BY <1>1, WFMin, Zenon
<1>3. ASSUME NEW e \in D, ~(d <= e)
      PROVE  FALSE
  <2>1. e \in Nat /\ d \in Nat /\ e < d
    BY <1>3
  <2>2. <<e, d>> \in R
    BY <2>1 DEF R
  <2> QED BY <1>2, <2>2
<1> QED BY <1>3 DEF Earliest

(* What is asked, in order.                                                 *)
LEMMA RequestType == ASSUME LoopType, NEW at \in Times PROVE Request(at) \in ARequest
BY DEF Request, ARequest, LoopType

LEMMA Bounds ==
  /\ Batch \in Nat /\ CappedMax \in Nat /\ Batch > 0 /\ CappedMax > 0
  /\ MaxHandled \in Nat /\ Times \subseteq Nat /\ 0 \in Times /\ MaxTime \in Nat
  /\ Gone \in Nat /\ Running # Gone
BY LoopAssumption DEF MaxHandled, Times, Gone, Running

LEMMA InitLoop == Init => LoopInv
<1> SUFFICES ASSUME Init PROVE LoopInv
  OBVIOUS
<1>1. LoopType
  <2>1. until \in [Threads -> 0..Gone] /\ unsent \in [Threads -> SUBSET ARequest]
    BY Bounds DEF Init, NoRequest, Running
  <2>2. control \in Seq(ARequest) /\ data \in Seq(AMessage)
    BY DEF Init
  <2>3. /\ now \in Times /\ target \in Times /\ pending \in Nat /\ drained \in 0..Batch
        /\ capped \in 0..CappedMax /\ handled \in 0..MaxHandled
    BY Bounds DEF Init
  <2>4. wheel \subseteq Times /\ work \in BOOLEAN /\ stalled \in BOOLEAN /\ pc = "quiesce"
    BY DEF Init
  <2> QED BY <2>1, <2>2, <2>3, <2>4 DEF LoopType
<1>2. Asking = {}
  BY DEF Init, Asking
<1>3. AskedOnce /\ Barrier
  BY <1>2 DEF AskedOnce, Barrier, Init
<1>4. Counted
  BY <1>2, FS_EmptySet DEF Counted, Init
<1> QED BY <1>1, <1>3, <1>4 DEF LoopInv

(* A thread's step is an actor's only while the engine waits for them.      *)
LEMMA ActorsHeld ==
  ASSUME Barrier, NEW a \in Actors, until[a] = Running, pc # "stopped"
  PROVE  stalled \/ pc = "quiesce"
BY DEF Barrier, Awake

LEMMA ThreadInv ==
  ASSUME LoopInv, NEW t \in Threads, ThreadStep(t)
  PROVE  /\ LoopInv' /\ UNCHANGED <<now, loop, engine, system>> /\ pc # "stopped"
         /\ pending' # pending => t \in Schedulers /\ until[t] = Running
         /\ until' # until => until[t] = Running /\ until' = [until EXCEPT ![t] = until'[t]]
         /\ data' # data => until[t] = Running /\ data' = Append(data, Drive(t))
<1> USE DEF LoopInv
<1>1. CASE \E at \in Times : CountRequest(t, at)
  <2>1. PICK at \in Times : CountRequest(t, at)
    BY <1>1
  <2> DEFINE r == Request(at)
  <2>2. /\ t \in Schedulers /\ until[t] = Running /\ unsent[t] = NoRequest /\ pc # "stopped"
        /\ pending' = pending + 1 /\ unsent' = [unsent EXCEPT ![t] = {r}]
        /\ UNCHANGED <<now, until, control, data, system, loop, engine>>
    BY <2>1 DEF CountRequest, CanAct
  <2>3. r \in ARequest
    BY RequestType
  <2> HIDE DEF r
  <2>4. LoopType'
    BY <2>2, <2>3 DEF LoopType, loop, engine
  <2>5. Asking' = Asking \cup {t} /\ t \notin Asking
    BY <2>2 DEF Asking, LoopType, NoRequest
  <2>6. AskedOnce'
    BY <2>2, <2>3, <2>5 DEF AskedOnce, LoopType, Asking
  <2>7. Counted'
    <3>1. IsFiniteSet(Asking) /\ pending = Len(control) + Cardinality(Asking)
      BY DEF Counted
    <3>2. IsFiniteSet(Asking') /\ Cardinality(Asking') = Cardinality(Asking) + 1
      BY <2>5, <3>1, FS_AddElement
    <3>3. Cardinality(Asking) \in Nat /\ Len(control) \in Nat
      BY <3>1, FS_CardinalityType DEF LoopType
    <3> QED BY <2>2, <3>1, <3>2, <3>3 DEF Counted
  <2>8. Barrier'
    BY <2>2 DEF Barrier, Awake, loop, engine
  <2> QED BY <2>2, <2>4, <2>6, <2>7, <2>8
<1>2. CASE SendRequest(t)
  <2>1. PICK r \in unsent[t] : control' = Append(control, r)
    BY <1>2 DEF SendRequest
  <2>2. /\ unsent' = [unsent EXCEPT ![t] = NoRequest] /\ pc # "stopped"
        /\ UNCHANGED <<now, until, data, pending, system, loop, engine>>
    BY <1>2 DEF SendRequest
  <2>3. r \in ARequest /\ t \in Asking
    BY <2>1 DEF LoopType, Asking, NoRequest
  <2>4. control' \in Seq(ARequest) /\ Len(control') = Len(control) + 1
    BY <2>1, <2>3 DEF LoopType
  <2>5. LoopType'
    BY <2>2, <2>4 DEF LoopType, loop, engine, NoRequest
  <2>6. Asking' = Asking \ {t}
    BY <2>2 DEF Asking, LoopType
  <2>7. AskedOnce'
    BY <2>2, <2>6 DEF AskedOnce, LoopType, Asking
  <2>8. Counted'
    <3>1. IsFiniteSet(Asking) /\ pending = Len(control) + Cardinality(Asking)
      BY DEF Counted
    <3>2. IsFiniteSet(Asking') /\ Cardinality(Asking') = Cardinality(Asking) - 1
      BY <2>3, <2>6, <3>1, FS_RemoveElement
    <3>3. Cardinality(Asking) \in Nat /\ Len(control) \in Nat
      BY <3>1, FS_CardinalityType DEF LoopType
    <3> QED BY <2>2, <2>4, <3>1, <3>2, <3>3 DEF Counted
  <2>9. Barrier'
    BY <2>2 DEF Barrier, Awake, loop, engine
  <2> QED BY <2>2, <2>5, <2>7, <2>8, <2>9
<1>3. CASE Publish(t) \/ Flood(t)
  <2>1. /\ until[t] = Running /\ data' = Append(data, Drive(t)) /\ pc # "stopped"
        /\ UNCHANGED <<now, until, unsent, control, pending, system, loop, engine>>
    BY <1>3 DEF Publish, Flood, CanAct, threads
  <2>2. data' \in Seq(AMessage)
    BY <2>1 DEF AMessage, Drive, LoopType
  <2>3. LoopType'
    BY <2>1, <2>2 DEF LoopType, loop, engine
  <2>4. AskedOnce' /\ Counted' /\ Barrier'
    BY <2>1 DEF AskedOnce, Counted, Barrier, Asking, Awake, loop, engine
  <2> QED BY <2>1, <2>3, <2>4
<1>4. CASE End(t) \/ \E d \in Times : Park(t, d)
  <2>1. PICK u \in 1..Gone : until' = [until EXCEPT ![t] = u]
    BY <1>4, Bounds DEF End, Park, Times, Gone, LoopType
  <2>2. /\ until[t] = Running /\ unsent[t] = NoRequest /\ pc # "stopped"
        /\ UNCHANGED <<now, unsent, control, data, pending, system, loop, engine>>
    BY <1>4 DEF End, Park, CanAct, queues
  <2>3. LoopType'
    BY <2>1, <2>2, Bounds DEF LoopType, loop, engine
  <2>4. AskedOnce'
    BY <2>1, <2>2 DEF AskedOnce, Asking, LoopType
  <2>5. Counted'
    BY <2>2 DEF Counted, Asking
  <2>6. Awake' \subseteq Awake
    BY <2>1, <2>2 DEF Awake, LoopType, Running, Threads
  <2>7. Barrier'
    BY <2>2, <2>6 DEF Barrier, loop, engine
  <2> QED BY <2>1, <2>2, <2>3, <2>4, <2>5, <2>7 DEF LoopType
<1> QED BY <1>1, <1>2, <1>3, <1>4 DEF ThreadStep

(* The system's two commands.                                               *)
LEMMA SystemInv ==
  ASSUME LoopInv, ReleaseTime \/ Shutdown
  PROVE  /\ LoopInv' /\ UNCHANGED <<now, threads, control, pending, loop, engine>>
         /\ \E c \in {"release", "shutdown"} : data' = Append(data, Command(c))
<1>1. PICK c \in {"release", "shutdown"} : data' = Append(data, Command(c))
  BY DEF ReleaseTime, Shutdown
<1>2. UNCHANGED <<now, threads, control, pending, loop, engine>>
  BY DEF ReleaseTime, Shutdown
<1>3. Command(c) \in AMessage
  BY Bounds DEF AMessage, Command
<1>4. LoopType'
  BY <1>1, <1>2, <1>3 DEF LoopInv, LoopType, threads, loop, engine
<1>5. AskedOnce' /\ Counted' /\ Barrier'
  BY <1>2 DEF LoopInv, AskedOnce, Counted, Barrier, Asking, Awake, threads, loop, engine
<1> QED BY <1>1, <1>2, <1>4, <1>5 DEF LoopInv

(* A request that is handled is armed, and counted no more.                 *)
LEMMA ControlHandled ==
  ASSUME LoopInv, HandleControl, UNCHANGED <<unsent>>
  PROVE  /\ control' \in Seq(ARequest) /\ wheel' \subseteq Times /\ pending' \in Nat
         /\ Counted'
<1>1. /\ control' \in Seq(ARequest) /\ Len(control') = Len(control) - 1
      /\ Head(control) \in ARequest /\ pending >= 1
  BY FS_CardinalityType DEF LoopInv, LoopType, HandleControl, Counted
<1>2. Counted' /\ pending' \in Nat
  <2>1. Asking' = Asking /\ pending' = pending - 1
    BY DEF HandleControl, Asking
  <2>2. Cardinality(Asking) \in Nat /\ Len(control) \in Nat /\ pending \in Nat
    BY FS_CardinalityType DEF LoopInv, LoopType, Counted
  <2> QED BY <1>1, <2>1, <2>2 DEF LoopInv, Counted
<1> QED BY <1>1, <1>2 DEF LoopInv, LoopType, HandleControl, ARequest

(* A callback keeps the types of the queues, and counts what it asks for.    *)
LEMMA CallbackKept ==
  ASSUME LoopInv, UNCHANGED unsent,
         NEW rest \in Seq(AMessage), Callback(rest)
  PROVE  /\ control' \in Seq(ARequest) /\ pending' \in Nat
         /\ data' \in Seq(AMessage)
         /\ Counted'
<1>1. /\ control' \in Seq(ARequest) /\ pending' \in Nat /\ data' \in Seq(AMessage)
      /\ \/ pending' = pending /\ Len(control') = Len(control)
         \/ pending' = pending + 1 /\ Len(control') = Len(control) + 1
  <2>1. CASE data' = rest /\ UNCHANGED <<control, pending>>
    BY <2>1 DEF LoopInv, LoopType
  <2>2. CASE data' = rest /\ pending' = pending + 1 /\ \E at \in Times : control' = Append(control, Request(at))
    <3>1. PICK at \in Times : control' = Append(control, Request(at))
      BY <2>2
    <3>2. Request(at) \in ARequest
      BY RequestType DEF LoopInv
    <3> QED BY <2>2, <3>1, <3>2 DEF LoopInv, LoopType
  <2>3. CASE data' = Append(rest, Drive(Engine)) /\ UNCHANGED <<control, pending>>
    <3>1. Drive(Engine) \in AMessage
      BY DEF AMessage, Drive, LoopInv, LoopType
    <3> QED BY <2>3, <3>1 DEF LoopInv, LoopType
  <2> QED BY <2>1, <2>2, <2>3 DEF Callback
<1>2. Counted'
  <2>1. Asking' = Asking
    BY DEF Asking
  <2>2. IsFiniteSet(Asking) /\ pending = Len(control) + Cardinality(Asking)
    BY DEF LoopInv, Counted
  <2>3. pending' \in Nat /\ pending \in Nat /\ Len(control') \in Nat /\ Len(control) \in Nat
    BY <1>1 DEF LoopInv, LoopType
  <2>4. Cardinality(Asking) \in Nat
    BY <2>2, FS_CardinalityType
  <2>5. pending' = Len(control') + Cardinality(Asking)
    BY <1>1, <2>2, <2>3, <2>4
  <2> QED BY <2>1, <2>2, <2>5 DEF Counted
<1> QED BY <1>1, <1>2

LEMMA DataHandled ==
  ASSUME LoopInv, HandleData, UNCHANGED unsent
  PROVE  /\ control' \in Seq(ARequest) /\ pending' \in Nat
         /\ data' \in Seq(AMessage)
         /\ Counted'
         /\ handled' \in 0..MaxHandled
         /\ handled' = IF handled = MaxHandled THEN handled ELSE handled + 1
<1>1. Tail(data) \in Seq(AMessage)
  BY DEF LoopInv, LoopType, HandleData
<1>2. ASSUME Callback(Tail(data))
      PROVE  control' \in Seq(ARequest) /\ pending' \in Nat /\ data' \in Seq(AMessage) /\ Counted'
  <2>1. PICK rest \in Seq(AMessage) : Callback(rest)
    BY <1>1, <1>2
  <2> QED BY <2>1, CallbackKept
<1>3. ASSUME data' = Tail(data), UNCHANGED <<control, pending>>
      PROVE  control' \in Seq(ARequest) /\ pending' \in Nat /\ data' \in Seq(AMessage) /\ Counted'
  BY <1>1, <1>3 DEF LoopInv, LoopType, Counted, Asking
<1>4. handled' \in 0..MaxHandled /\ handled' = IF handled = MaxHandled THEN handled ELSE handled + 1
  BY Bounds DEF LoopInv, LoopType, HandleData, MaxHandled
<1> QED BY <1>2, <1>3, <1>4 DEF HandleData

(* A deadline is an instant of the wheel's or a thread's.                   *)
LEMMA DeadlineTypes ==
  ASSUME LoopType
  PROVE  /\ Deadlines \subseteq Times /\ wheel \subseteq Deadlines
         /\ \A t \in Threads : Parked(t) => until[t] \in Deadlines
<1>1. ASSUME NEW d \in Deadlines, d \notin wheel
      PROVE  d \in Times
  <2>1. PICK t \in {u \in Threads : Parked(u)} : d = until[t]
    BY <1>1 DEF Deadlines
  <2> QED BY <2>1 DEF Parked, Times
<1>2. wheel \subseteq Times
  BY DEF LoopType
<1> QED BY <1>1, <1>2 DEF Deadlines

(* A step of the engine's thread, but for the move of the clock.            *)
EngineKeeps == \/ Quiesce \/ Stall \/ DrainControl \/ DrainData \/ Fire \/ PassEnds
               \/ CheckPending \/ AwaitRequest \/ ChooseDeadline \/ Idle

LEMMA FireInv ==
  ASSUME LoopInv, Fire
  PROVE  LoopInv'
<1>1. /\ wheel' \subseteq wheel /\ work' = TRUE /\ pc = "fire"
      /\ UNCHANGED <<now, until, unsent, system, pc, drained, capped,
                     released, stalled, target, handled>>
  BY DEF Fire
<1>2. /\ control' \in Seq(ARequest) /\ pending' \in Nat
      /\ data' \in Seq(AMessage)
      /\ Counted'
  <2>1. PICK rest \in Seq(AMessage) : Callback(rest)
    BY DEF Fire, LoopInv, LoopType
  <2> QED BY <1>1, <2>1, CallbackKept
<1>3. LoopType'
  BY <1>1, <1>2 DEF LoopInv, LoopType
<1>4. AskedOnce' /\ Barrier'
  BY <1>1 DEF LoopInv, AskedOnce, Asking, Barrier, Awake
<1> QED BY <1>2, <1>3, <1>4 DEF LoopInv

LEMMA EngineInv ==
  ASSUME LoopInv, EngineKeeps
  PROVE  LoopInv' /\ UNCHANGED <<now, until, unsent, system>>
<1> USE DEF LoopInv
<1>0. UNCHANGED <<now, until, unsent, system>>
  BY DEF EngineKeeps, Quiesce, Stall, DrainControl, DrainData, Fire, PassEnds,
     CheckPending, AwaitRequest, ChooseDeadline, Idle, NewIteration, threads, queues
<1>1. AskedOnce'
  BY <1>0 DEF AskedOnce, Asking
<1>2. Barrier'
  BY <1>0 DEF Barrier, Awake, Quiescent, EngineKeeps, Quiesce, Stall, DrainControl, DrainData,
     Fire, PassEnds, CheckPending, AwaitRequest, ChooseDeadline, Idle, NewIteration, NewPass, LoopType,
     loop, engine
<1>3. UNCHANGED <<control, pending>> => Counted'
  BY <1>0 DEF Counted, Asking
<1>4. CASE Fire
  BY <1>0, <1>4, FireInv
<1>5. CASE Quiesce \/ Stall
  <2>1. LoopType'
    <3>1. drained' \in 0..Batch /\ pc' = "control" /\ work' = FALSE
      BY <1>5, Bounds DEF Quiesce, Stall
    <3>2. stalled' \in BOOLEAN
      BY <1>5 DEF Quiesce, Stall, engine, LoopType
    <3>3. UNCHANGED <<now, until, unsent, control, data, pending, capped, handled, wheel, target>>
      BY <1>5 DEF Quiesce, Stall, threads, queues, engine
    <3> QED BY <3>1, <3>2, <3>3 DEF LoopType
  <2> QED BY <1>0, <1>1, <1>2, <1>3, <1>5, <2>1 DEF Quiesce, Stall, queues
<1>6. CASE DrainControl
  <2>1. CASE HandleControl
    BY <1>0, <1>1, <1>2, <1>6, <2>1, ControlHandled DEF DrainControl, LoopType
  <2>2. CASE control = <<>> /\ pc' = "data" /\ UNCHANGED <<control, pending, wheel, work>>
    BY <1>0, <1>1, <1>2, <1>3, <1>6, <2>2 DEF DrainControl, LoopType
  <2> QED BY <1>6, <2>1, <2>2 DEF DrainControl
<1>7. CASE DrainData
  <2>1. UNCHANGED wheel
    BY <1>7 DEF DrainData
  <2>2. CASE HandleData /\ ~BatchFull
    <3>1. drained' \in 0..Batch
      BY <1>7, <2>2, Bounds DEF DrainData, BatchFull, LoopType
    <3> QED BY <1>0, <1>1, <1>2, <1>3, <1>7, <2>1, <2>2, <3>1, DataHandled DEF DrainData, LoopType, BatchFull
  <2>3. CASE pc' = "fire" /\ UNCHANGED <<data, control, pending, released, handled, work, drained>>
    BY <1>0, <1>1, <1>2, <1>3, <1>7, <2>1, <2>3 DEF DrainData, LoopType
  <2> QED BY <1>7, <2>2, <2>3 DEF DrainData
<1>8. CASE PassEnds
  <2>1. capped' \in 0..CappedMax
    BY <1>8, Bounds DEF PassEnds, LoopType
  <2>2. pc' \in {"check", "quiesce"}
    BY <1>8 DEF PassEnds, NewPass
  <2>3. UNCHANGED <<now, threads, queues, work, drained, engine>>
    BY <1>8 DEF PassEnds
  <2>4. LoopType'
    BY <2>1, <2>2, <2>3 DEF LoopType, threads, queues, engine
  <2> QED BY <1>0, <1>1, <1>2, <1>3, <2>3, <2>4 DEF queues
<1>9. CASE CheckPending
  BY <1>0, <1>1, <1>2, <1>3, <1>9 DEF CheckPending, LoopType, threads, queues, engine
<1>10. CASE AwaitRequest
  <2>1. capped' = 0 /\ pc' = "quiesce" /\ 0 \in 0..CappedMax
    BY <1>10, Bounds DEF AwaitRequest, NewIteration, NewPass
  <2>2. CASE HandleControl
    BY <1>0, <1>1, <1>2, <1>10, <2>1, <2>2, ControlHandled DEF AwaitRequest, LoopType
  <2>3. CASE UNCHANGED <<control, pending, wheel>>
    BY <1>0, <1>1, <1>2, <1>3, <1>10, <2>1, <2>3 DEF AwaitRequest, LoopType
  <2> QED BY <1>10, <2>2, <2>3 DEF AwaitRequest
<1>11. CASE ChooseDeadline
  <2>1. capped' \in {0, capped} /\ pc' \in {"quiesce", "advance", "idle"} /\ work' \in {work, FALSE}
    BY <1>11 DEF ChooseDeadline, NewIteration, NewPass
  <2>2. target' \in Times
    <3>1. CASE Deadlines # {} /\ target' = Earliest(Deadlines)
      <4>1. Deadlines \subseteq Times
        BY DeadlineTypes
      <4> QED BY <3>1, <4>1, EarliestIsLeast, Bounds
    <3> QED BY <1>11, <3>1 DEF ChooseDeadline, LoopType
  <2>3. UNCHANGED <<now, threads, queues, drained, released, stalled, wheel, handled>>
    BY <1>11 DEF ChooseDeadline
  <2>4. LoopType'
    <3>1. capped' \in 0..CappedMax
      BY <2>1, Bounds DEF LoopType
    <3>2. work' \in BOOLEAN
      BY <2>1 DEF LoopType
    <3> QED BY <2>1, <2>2, <2>3, <3>1, <3>2 DEF LoopType, threads, queues
  <2> QED BY <1>0, <1>1, <1>2, <1>3, <2>3, <2>4 DEF queues
<1>12. CASE Idle
  <2>1. CASE HandleControl /\ work' = TRUE /\ UNCHANGED <<pc, capped, data, released, handled>>
    BY <1>0, <1>1, <1>2, <1>12, <2>1, ControlHandled DEF Idle, LoopType
  <2>2. CASE HandleData /\ pc' \in {"stopped", "quiesce"} /\ capped' = 0 /\ UNCHANGED <<wheel, work>>
    BY <1>0, <1>1, <1>2, <1>3, <1>12, <2>2, DataHandled, Bounds DEF Idle, LoopType
  <2>3. CASE NewPass /\ capped' = 0 /\ UNCHANGED <<control, pending, wheel, work, data, released, handled>>
    BY <1>0, <1>1, <1>2, <1>3, <1>12, <2>3, Bounds DEF Idle, LoopType, NewPass
  <2> QED BY <1>12, <2>1, <2>2, <2>3 DEF Idle
<1> QED BY <1>4, <1>5, <1>6, <1>7, <1>8, <1>9, <1>10, <1>11, <1>12 DEF EngineKeeps

(* The clock moves, and with it every park up to it ends.                   *)
LEMMA AdvanceInv ==
  ASSUME LoopInv, Advance
  PROVE  LoopInv'
<1>1. /\ pc = "advance" /\ pc' = "quiesce" /\ capped' = 0 /\ now' = target
      /\ handled' = 0 /\ target' = 0
      /\ until' = [t \in Threads |-> IF Parked(t) /\ until[t] <= target THEN Running ELSE until[t]]
      /\ UNCHANGED <<unsent, control, data, pending, work, drained, stalled, wheel>>
  BY DEF Advance, NewIteration, NewPass, queues
<1>2. until' \in [Threads -> 0..Gone]
  BY <1>1, Bounds DEF LoopInv, LoopType, Running
<1>3. now' \in Times /\ capped' \in 0..CappedMax /\ handled' \in 0..MaxHandled /\ target' \in Times
  BY <1>1, Bounds DEF LoopInv, LoopType
<1>4. LoopType'
  BY <1>1, <1>2, <1>3 DEF LoopInv, LoopType
<1>5. AskedOnce'
  BY <1>1 DEF LoopInv, AskedOnce, Asking, Parked, Running
<1>6. Counted' /\ Barrier'
  BY <1>1 DEF LoopInv, Counted, Barrier, Asking
<1> QED BY <1>4, <1>5, <1>6 DEF LoopInv

LEMMA StutterInv ==
  ASSUME LoopInv, UNCHANGED vars
  PROVE  LoopInv'
BY DEF vars, threads, queues, loop, engine, LoopInv, LoopType, AskedOnce, Counted, Barrier, Asking, Awake

LEMMA NextInv == LoopInv /\ [Next]_vars => LoopInv'
BY ThreadInv, SystemInv, EngineInv, AdvanceInv, StutterInv DEF Next, EngineStep, EngineKeeps

LEMMA LoopInvAlways == Spec => []LoopInv
BY InitLoop, NextInv, PTL DEF Spec

-----------------------------------------------------------------------------
LEMMA MovingInv ==
  ASSUME Schedulers \subseteq Actors, LoopInv, NoneInFlight, [Next]_vars
  PROVE  NoneInFlight'
<1>1. ASSUME NEW t \in Threads, ThreadStep(t)
      PROVE  NoneInFlight'
  <2>1. /\ UNCHANGED <<pc, stalled>> /\ pc # "stopped"
        /\ pending' # pending => t \in Actors /\ until[t] = Running
    BY <1>1, ThreadInv DEF loop, engine
  <2>2. pending' # pending => stalled \/ pc = "quiesce"
    BY <2>1, ActorsHeld DEF LoopInv
  <2> QED BY <2>1, <2>2 DEF NoneInFlight, Moving
<1>2. CASE CheckPending
  BY <1>2 DEF CheckPending, Hold, NoneInFlight, Moving, LoopInv, LoopType, queues, engine
<1>3. CASE ChooseDeadline
  BY <1>3 DEF ChooseDeadline, NoneInFlight, Moving, queues
<1>4. CASE Quiesce \/ Stall \/ DrainControl \/ DrainData \/ Fire \/ PassEnds \/ AwaitRequest \/ Idle \/ Advance
  BY <1>4 DEF Quiesce, Stall, DrainControl, DrainData, Fire, PassEnds, AwaitRequest, Idle,
     Advance, NewIteration, NewPass, NoneInFlight, Moving
<1>5. CASE ReleaseTime \/ Shutdown \/ UNCHANGED vars
  BY <1>5 DEF ReleaseTime, Shutdown, vars, queues, loop, engine, NoneInFlight, Moving
<1> QED BY <1>1, <1>2, <1>3, <1>4, <1>5 DEF Next, EngineStep

LEMMA CurrentInv ==
  ASSUME LoopInv, NoneInFlight, RequestsCurrent, [Next]_vars
  PROVE  RequestsCurrent'
<1> SUFFICES ASSUME ~stalled' PROVE \A r \in InFlight' : r.asked = now'
  BY DEF RequestsCurrent
<1>1. CASE Advance
  <2>1. pending = 0 /\ UNCHANGED <<control, unsent>>
    BY <1>1 DEF NoneInFlight, Moving, Advance, queues
  <2>2. Len(control) \in Nat /\ Cardinality(Asking) \in Nat /\ IsFiniteSet(Asking)
    BY FS_CardinalityType DEF LoopInv, LoopType, Counted
  <2>3. Len(control) = 0 /\ Cardinality(Asking) = 0
    BY <2>1, <2>2 DEF LoopInv, Counted
  <2>4. Asking = {}
    BY <2>2, <2>3, FS_EmptySet
  <2> QED BY <2>1, <2>3, <2>4 DEF InFlight, Asking, NoRequest
<1>2. ASSUME UNCHANGED now, UNCHANGED stalled,
             \A r \in InFlight' : r \in InFlight \/ r.asked = now
      PROVE  \A r \in InFlight' : r.asked = now'
  BY <1>2 DEF RequestsCurrent
<1>3. ASSUME NEW t \in Threads, ThreadStep(t)
      PROVE  \A r \in InFlight' : r.asked = now'
  <2>1. UNCHANGED <<now, stalled>>
    BY <1>3, ThreadInv DEF engine
  <2>2. CASE \E at \in Times : CountRequest(t, at)
    <3>1. PICK at \in Times : CountRequest(t, at)
      BY <2>2
    <3>2. UNCHANGED control /\ \A s \in Threads : unsent'[s] \in {unsent[s], {Request(at)}}
      BY <3>1 DEF CountRequest, LoopInv, LoopType
    <3>3. Request(at).asked = now
      BY DEF Request
    <3>4. \A r \in InFlight' : r \in InFlight \/ r.asked = now
      BY <3>2, <3>3 DEF InFlight
    <3> QED BY <1>2, <2>1, <3>4
  <2>3. CASE SendRequest(t)
    <3>1. PICK r \in unsent[t] : control' = Append(control, r)
      BY <2>3 DEF SendRequest
    <3>2. \A s \in Threads : unsent'[s] \in {unsent[s], {}}
      BY <2>3 DEF SendRequest, LoopInv, LoopType, NoRequest
    <3>3. \A i \in 1..Len(control') : control'[i] = r \/ \E j \in 1..Len(control) : control'[i] = control[j]
      BY <3>1 DEF LoopInv, LoopType
    <3>4. \A q \in InFlight' : q \in InFlight
      BY <3>1, <3>2, <3>3 DEF InFlight
    <3> QED BY <1>2, <2>1, <3>4
  <2>4. CASE Publish(t) \/ Flood(t) \/ End(t) \/ \E d \in Times : Park(t, d)
    <3>1. UNCHANGED <<control, unsent>>
      BY <2>4 DEF Publish, Flood, End, Park, threads, queues
    <3> QED BY <1>2, <2>1, <3>1 DEF InFlight
  <2> QED BY <1>3, <2>2, <2>3, <2>4 DEF ThreadStep
<1>4. ASSUME EngineKeeps
      PROVE  \A r \in InFlight' : r.asked = now'
  <2>1. UNCHANGED <<now, unsent>> /\ control' \in Seq(ARequest) /\ control \in Seq(ARequest)
    BY <1>4, EngineInv DEF LoopInv, LoopType
  <2>2. UNCHANGED stalled
    BY <1>4 DEF EngineKeeps, Quiesce, Stall, DrainControl, DrainData, Fire, PassEnds,
       CheckPending, AwaitRequest, ChooseDeadline, Idle, engine
  <2>3. CASE HandleControl
    <3>1. \A i \in 1..Len(control') : \E j \in 1..Len(control) : control'[i] = control[j]
      BY <2>1, <2>3 DEF HandleControl
    <3> QED BY <1>2, <2>1, <2>2, <3>1 DEF InFlight
  <2>4. CASE UNCHANGED control
    BY <1>2, <2>1, <2>2, <2>4 DEF InFlight
  <2>5. CASE \E at \in Times : control' = Append(control, Request(at))
    <3>1. PICK at \in Times : control' = Append(control, Request(at))
      BY <2>5
    <3>2. \A i \in 1..Len(control') : control'[i] = Request(at) \/ \E j \in 1..Len(control) : control'[i] = control[j]
      BY <2>1, <3>1
    <3>3. Request(at).asked = now
      BY DEF Request
    <3>4. \A r \in InFlight' : r \in InFlight \/ r.asked = now
      BY <2>1, <3>2, <3>3 DEF InFlight
    <3> QED BY <1>2, <2>1, <2>2, <3>4
  <2>6. HandleControl \/ UNCHANGED control \/ \E at \in Times : control' = Append(control, Request(at))
    BY <1>4 DEF EngineKeeps, Quiesce, Stall, DrainControl, DrainData, HandleData, Fire, Callback, PassEnds,
       CheckPending, AwaitRequest, ChooseDeadline, Idle, NewIteration, queues
  <2> QED BY <2>3, <2>4, <2>5, <2>6
<1>5. CASE ReleaseTime \/ Shutdown \/ UNCHANGED vars
  <2>1. UNCHANGED <<now, stalled, control, unsent>>
    BY <1>5 DEF ReleaseTime, Shutdown, vars, threads, queues, engine
  <2> QED BY <1>2, <2>1 DEF InFlight
<1> QED BY <1>1, <1>3, <1>4, <1>5 DEF Next, EngineStep, EngineKeeps

(* A request for a wake, of a registered actor or of a callback, does not   *)
(* outlive its instant: send_control, and the check of pending_schedules    *)
(* before the clock moves.  The hypothesis is the hazard's: a thread that   *)
(* is not registered may ask between the check and the move.                *)
THEOREM RequestsCurrentAlways ==
  ASSUME Schedulers \subseteq Actors
  PROVE  Spec => []RequestsCurrent
<1>1. Init => NoneInFlight /\ RequestsCurrent
  BY DEF Init, NoneInFlight, Moving, RequestsCurrent, InFlight, NoRequest
<1>2. LoopInv /\ NoneInFlight /\ RequestsCurrent /\ [Next]_vars => (NoneInFlight /\ RequestsCurrent)'
  BY MovingInv, CurrentInv
<1> QED BY <1>1, <1>2, LoopInvAlways, PTL DEF Spec

-----------------------------------------------------------------------------
LEMMA FirstInv ==
  ASSUME LoopInv, FirstDeadline, [Next]_vars
  PROVE  FirstDeadline'
<1>1. ASSUME NEW t \in Threads, ThreadStep(t)
      PROVE  FirstDeadline'
  <2>1. /\ UNCHANGED <<now, pc, target, wheel, stalled>> /\ pc # "stopped"
        /\ until' # until => until[t] = Running /\ until' = [until EXCEPT ![t] = until'[t]]
    BY <1>1, ThreadInv DEF loop, engine
  <2>2. ~stalled /\ pc = "advance" => \A a \in Actors : until'[a] = until[a]
    <3>1. ~stalled /\ pc = "advance" => t \notin Actors \/ until' = until
      BY <2>1, ActorsHeld DEF LoopInv
    <3> QED BY <2>1, <3>1 DEF LoopInv, LoopType, Threads
  <2> QED BY <2>1, <2>2 DEF FirstDeadline, Parked
<1>2. CASE ChooseDeadline
  <2>1. UNCHANGED <<now, until, wheel, stalled>>
    BY <1>2 DEF ChooseDeadline, threads
  <2>2. ASSUME pc' = "advance"
        PROVE  /\ target' > now /\ \A d \in wheel : target' <= d
               /\ \A t \in Threads : Parked(t) => target' <= until[t]
    <3>1. Deadlines # {} /\ target' = Earliest(Deadlines) /\ Earliest(Deadlines) > now
      BY <1>2, <2>2 DEF ChooseDeadline, NewIteration, NewPass
    <3>2. /\ Deadlines \subseteq Nat /\ wheel \subseteq Deadlines
          /\ \A t \in Threads : Parked(t) => until[t] \in Deadlines
      BY DeadlineTypes, Bounds DEF LoopInv
    <3> QED BY <3>1, <3>2, EarliestIsLeast
  <2> QED BY <2>1, <2>2 DEF FirstDeadline, Parked, Threads
<1>3. CASE Quiesce \/ Stall \/ DrainControl \/ DrainData \/ Fire \/ PassEnds \/ CheckPending
           \/ AwaitRequest \/ Idle \/ Advance
  BY <1>3 DEF Quiesce, Stall, DrainControl, DrainData, Fire, PassEnds, CheckPending, AwaitRequest, Idle,
     Advance, NewIteration, NewPass, FirstDeadline
<1>4. CASE ReleaseTime \/ Shutdown \/ UNCHANGED vars
  BY <1>4 DEF ReleaseTime, Shutdown, vars, threads, queues, loop, engine, FirstDeadline, Parked
<1> QED BY <1>1, <1>2, <1>3, <1>4 DEF Next, EngineStep

(* Only advance_to_ns moves the clock.                                      *)
LEMMA OnlyAdvanceMoves ==
  ASSUME LoopInv, [Next]_vars, now' # now
  PROVE  pc = "advance" /\ now' = target
BY ThreadInv, SystemInv, EngineInv
DEF Next, EngineStep, EngineKeeps, Advance, vars, NewIteration

(* The clock passes no deadline, of the wheel's or of a registered actor's: *)
(* next_virtual_deadline and advance_to_ns.                                 *)
THEOREM NoDeadlinePassedAlways == Spec => NoDeadlinePassed
<1>1. Init => FirstDeadline
  BY DEF Init, FirstDeadline
<1>2. Spec => []FirstDeadline
  BY <1>1, FirstInv, LoopInvAlways, PTL DEF Spec
<1>3. LoopInv /\ FirstDeadline /\ [Next]_vars =>
        [TimeMoves /\ ~stalled =>
           /\ \A d \in wheel : now' <= d
           /\ \A a \in Actors : Parked(a) => now' <= until[a]]_vars
  BY OnlyAdvanceMoves DEF FirstDeadline, TimeMoves
<1> QED BY <1>2, <1>3, LoopInvAlways, PTL DEF Spec, NoDeadlinePassed

-----------------------------------------------------------------------------
(* Full passes add up.                                                      *)
LEMMA FullPasses ==
  ASSUME LoopType
  PROVE  /\ Batch * 0 = 0 /\ Batch * capped \in Nat /\ Batch * capped + Batch = Batch * (capped + 1)
         /\ capped + 1 >= CappedMax => Batch * capped + Batch >= MaxHandled
<1>1. Batch \in Nat /\ CappedMax \in Nat /\ capped \in Nat
  BY Bounds DEF LoopType
<1>2. \A a, b, c \in Nat : a <= b => c * a <= c * b
  OBVIOUS
<1>3. \A a, c \in Nat : c * a + c = c * (a + 1) /\ c * 0 = 0 /\ c * a \in Nat
  OBVIOUS
<1>4. capped + 1 >= CappedMax => Batch * (capped + 1) >= Batch * CappedMax
  BY <1>1, <1>2
<1> QED BY <1>1, <1>3, <1>4 DEF MaxHandled

LEMMA CountsInv ==
  ASSUME LoopInv, PassCounts, [Next]_vars
  PROVE  PassCounts'
<1> USE DEF PassCounts, InPass
<1>0. /\ handled \in 0..MaxHandled /\ drained \in 0..Batch /\ capped \in 0..CappedMax
      /\ MaxHandled \in Nat /\ Batch \in Nat /\ CappedMax \in Nat
  BY Bounds DEF LoopInv, LoopType
<1>1. Batch * 0 = 0 /\ Batch * capped \in Nat
  BY FullPasses DEF LoopInv
<1>2. ASSUME UNCHANGED <<pc, work, drained, capped, handled>>
      PROVE  PassCounts'
  BY <1>2
<1>3. CASE Quiesce \/ Stall
  BY <1>0, <1>1, <1>3 DEF Quiesce, Stall, engine
<1>4. CASE DrainControl
  BY <1>4 DEF DrainControl
<1>5. CASE DrainData
  <2>1. CASE HandleData /\ drained' = drained + 1 /\ work' = TRUE /\ pc' \in {"data", "stopped"}
    <3>1. handled' = IF handled = MaxHandled THEN handled ELSE handled + 1
      BY <1>5, <2>1, DataHandled DEF DrainData
    <3>2. capped' = capped /\ pc = "data"
      BY <1>5 DEF DrainData
    <3>3. handled' = MaxHandled \/ handled' >= Batch * capped + drained'
      BY <1>0, <1>1, <2>1, <3>1, <3>2
    <3> QED BY <2>1, <3>2, <3>3
  <2>2. CASE pc' = "fire" /\ UNCHANGED <<handled, work, drained>>
    BY <1>5, <2>2 DEF DrainData
  <2> QED BY <1>5, <2>1, <2>2 DEF DrainData
<1>6. CASE Fire
  BY <1>6 DEF Fire
<1>7. CASE PassEnds
  <2>1. pc = "fire" /\ pc' \in {"check", "quiesce"} /\ UNCHANGED handled
    BY <1>7 DEF PassEnds, NewPass, engine
  <2>2. ASSUME pc' = "quiesce"
        PROVE  handled = MaxHandled \/ handled >= Batch * capped'
    <3>1. CASE BatchFull /\ capped' = capped + 1
      BY <1>0, <1>1, <2>1, <3>1, FullPasses DEF BatchFull, LoopInv
    <3>2. CASE capped' = capped
      BY <1>0, <1>1, <2>1, <3>2
    <3>3. CASE capped' = 0
      BY <1>0, <1>1, <3>3
    <3> QED BY <1>7, <2>2, <3>1, <3>2, <3>3 DEF PassEnds
  <2> QED BY <2>1, <2>2
<1>8. CASE CheckPending
  BY <1>8 DEF CheckPending
<1>9. CASE AwaitRequest \/ Advance
  BY <1>0, <1>1, <1>9 DEF AwaitRequest, Advance, NewIteration, NewPass
<1>10. CASE ChooseDeadline
  BY <1>0, <1>1, <1>10 DEF ChooseDeadline, NewIteration, NewPass
<1>11. CASE Idle
  <2>1. pc' \in {"idle", "stopped"} \/ (pc' = "quiesce" /\ capped' = 0 /\ handled' \in 0..MaxHandled)
    BY <1>11, <1>0, DataHandled DEF Idle, NewPass
  <2> QED BY <1>0, <1>1, <2>1
<1>12. ASSUME NEW t \in Threads, ThreadStep(t)
       PROVE  PassCounts'
  BY <1>2, <1>12, ThreadInv DEF loop, engine
<1>13. CASE ReleaseTime \/ Shutdown
  BY <1>2, <1>13, SystemInv DEF loop, engine
<1>14. CASE UNCHANGED vars
  BY <1>2, <1>14 DEF vars, loop, engine
<1> QED
  BY <1>3, <1>4, <1>5, <1>6, <1>7, <1>8, <1>9, <1>10, <1>11, <1>12, <1>13, <1>14
  DEF Next, EngineStep

(* What is appended to the data queue past the wait is not registered.      *)
LEMMA NotRegistered ==
  ASSUME LoopInv, NoneRegistered, NEW m, data' = Append(data, m), m.by \notin Actors \cup {Engine}
  PROVE  NoneRegistered'
BY DEF NoneRegistered, Registered, LoopInv, LoopType

LEMMA SeenInv ==
  ASSUME LoopInv, PassCounts, DataSeen, [Next]_vars
  PROVE  DataSeen'
<1> USE DEF DataSeen, Moving
<1>1. ASSUME UNCHANGED <<pc, work, handled, stalled>>,
             ~stalled /\ pc # "quiesce" => (NoneRegistered => NoneRegistered')
      PROVE  DataSeen'
  BY <1>1
<1>2. ASSUME NEW t \in Threads, ThreadStep(t)
      PROVE  DataSeen'
  <2>1. /\ UNCHANGED <<pc, work, handled, stalled>> /\ pc # "stopped"
        /\ data' # data => until[t] = Running /\ data' = Append(data, Drive(t))
    BY <1>2, ThreadInv DEF loop, engine
  <2>2. ASSUME ~stalled, pc # "quiesce", NoneRegistered
        PROVE  NoneRegistered'
    <3>1. CASE data' # data
      <4>1. t \notin Actors
        BY <2>1, <2>2, <3>1, ActorsHeld DEF LoopInv
      <4>2. Drive(t).by = t /\ t # Engine
        BY LoopAssumption DEF Drive, Threads, Engine
      <4> QED BY <2>1, <2>2, <3>1, <4>1, <4>2, NotRegistered
    <3>2. CASE data' = data
      BY <2>2, <3>2 DEF NoneRegistered, Registered
    <3> QED BY <3>1, <3>2
  <2> QED BY <1>1, <2>1, <2>2
<1>3. CASE ReleaseTime \/ Shutdown
  <2>1. /\ UNCHANGED <<pc, work, handled, stalled>>
        /\ \E c \in {"release", "shutdown"} : data' = Append(data, Command(c))
    BY <1>3, SystemInv DEF loop, engine
  <2>2. \A c \in {"release", "shutdown"} : Command(c).by \notin Actors \cup {Engine}
    BY LoopAssumption DEF Command, Engine
  <2> QED BY <1>1, <2>1, <2>2, NotRegistered
<1>4. CASE Quiesce \/ Stall \/ DrainControl \/ AwaitRequest \/ Advance \/ Idle
  BY <1>4 DEF Quiesce, Stall, DrainControl, AwaitRequest, Advance, Idle, NewIteration, NewPass
<1>5. CASE DrainData
  <2>1. CASE pc' \in {"data", "stopped"}
    BY <2>1
  <2>2. CASE pc' = "fire" /\ (BatchFull \/ data = <<>>) /\ UNCHANGED <<data, work, drained, stalled>>
    <3>1. ~work => data = <<>>
      BY <1>5, <2>2, Bounds DEF DrainData, PassCounts, BatchFull
    <3> QED BY <2>2, <3>1 DEF NoneRegistered
  <2> QED BY <1>5, <2>1, <2>2 DEF DrainData
<1>6. CASE Fire
  BY <1>6 DEF Fire
<1>7. CASE PassEnds
  <2>1. /\ pc = "fire" /\ UNCHANGED <<data, work, drained, stalled, handled>>
        /\ pc' = "quiesce" \/ (pc' = "check" /\ (~work \/ (BatchFull /\ CappedOut)))
    BY <1>7 DEF PassEnds, NewPass, queues, engine
  <2>2. BatchFull /\ CappedOut => handled = MaxHandled
    <3>1. BatchFull /\ CappedOut => Batch * capped + drained >= MaxHandled
      BY FullPasses, Bounds DEF LoopInv, LoopType, BatchFull, CappedOut
    <3> QED BY <2>1, <3>1, Bounds, FullPasses DEF PassCounts, InPass, LoopInv, LoopType
  <2>3. NoneRegistered' <=> NoneRegistered
    BY <2>1 DEF NoneRegistered, Registered
  <2> QED BY <2>1, <2>2, <2>3
<1>8. CASE CheckPending \/ ChooseDeadline
  <2>1. pc \in {"check", "choose"} /\ UNCHANGED <<data, handled, stalled>> /\ pc' # "fire"
    BY <1>8 DEF CheckPending, ChooseDeadline, NewIteration, NewPass, queues, engine
  <2>2. NoneRegistered' <=> NoneRegistered
    BY <2>1 DEF NoneRegistered, Registered
  <2> QED BY <2>1, <2>2
<1>9. CASE UNCHANGED vars
  BY <1>9 DEF vars, queues, loop, engine, NoneRegistered, Registered
<1> QED BY <1>2, <1>3, <1>4, <1>5, <1>6, <1>7, <1>8, <1>9 DEF Next, EngineStep

(* A drive of an actor or a callback is applied at its instant, unless a    *)
(* whole run of full batches went before it: drain_data's cap, and the      *)
(* passes until nothing is done.                                            *)
THEOREM DrivesOnInstantAlways == Spec => DrivesOnInstant
<1>1. Init => PassCounts /\ DataSeen
  BY FullPasses, InitLoop, Bounds DEF Init, PassCounts, InPass, DataSeen, Moving, LoopInv
<1>2. Spec => [](PassCounts /\ DataSeen)
  BY <1>1, CountsInv, SeenInv, LoopInvAlways, PTL DEF Spec
<1>3. LoopInv /\ DataSeen /\ [Next]_vars =>
        [TimeMoves /\ ~stalled =>
           \/ handled = Batch * CappedMax
           \/ \A i \in 1..Len(data) : ~Registered(data[i])]_vars
  BY OnlyAdvanceMoves DEF DataSeen, Moving, TimeMoves, MaxHandled, NoneRegistered
<1> QED BY <1>2, <1>3, LoopInvAlways, PTL DEF Spec, DrivesOnInstant
=============================================================================
