------------------------- MODULE VirtualClockProofs -------------------------
(***************************************************************************)
(* Proofs about VirtualClock, for any set of threads and any bounds.       *)
(***************************************************************************)
EXTENDS VirtualClock, FiniteSetTheorems, TLAPS

-----------------------------------------------------------------------------
(* The count of running actors, and the types.                             *)

Counted == TypeOK /\ RunningExact

(* The registry is finite, so its running actors can be counted. *)
LEMMA RunningFinite ==
  ASSUME TypeOK
  PROVE  /\ IsFiniteSet(actors \ parked) /\ IsFiniteSet(parked)
         /\ Cardinality(actors \ parked) \in Nat
  <1>1. actors \ parked \in SUBSET Workers /\ parked \in SUBSET Workers
    BY DEF TypeOK
  <1>2. QED
    BY <1>1, ClockAssumption, FS_Subset, FS_CardinalityType

(* Somebody runs exactly when the count is not zero. *)
LEMMA RunningZero ==
  ASSUME Counted
  PROVE  running = 0 <=> actors \ parked = {}
  BY RunningFinite, FS_EmptySet DEF Counted, RunningExact

(* One actor that runs stops running: it parked, or it left. *)
LEMMA OneStops ==
  ASSUME Counted, NEW t \in actors \ parked,
         actors' \ parked' = (actors \ parked) \ {t}, running' = running - 1
  PROVE  RunningExact' /\ running' \in Nat
  <1>1. Cardinality(actors' \ parked') = Cardinality(actors \ parked) - 1
    BY RunningFinite, FS_RemoveElement DEF Counted
  <1>2. Cardinality(actors' \ parked') \in Nat
    BY RunningFinite, FS_RemoveElement, FS_CardinalityType DEF Counted
  <1>3. QED
    BY <1>1, <1>2 DEF Counted, RunningExact

(* A set of parked actors runs again: the clock reached them, or restarted. *)
LEMMA SomeRunAgain ==
  ASSUME Counted, NEW R \in SUBSET parked,
         actors' = actors, parked' = parked \ R,
         running' = running + Cardinality(R)
  PROVE  RunningExact' /\ running' \in Nat
  <1>1. IsFiniteSet(R) /\ Cardinality(R) \in Nat
    BY RunningFinite, FS_Subset, FS_CardinalityType DEF Counted
  <1>2. actors' \ parked' = (actors \ parked) \cup R /\ (actors \ parked) \cap R = {}
    BY DEF Counted, TypeOK
  <1>3. Cardinality(actors' \ parked') = Cardinality(actors \ parked) + Cardinality(R)
    <2>1. Cardinality((actors \ parked) \cap R) = 0
      BY <1>2, FS_EmptySet
    <2>2. Cardinality((actors \ parked) \cup R)
             = Cardinality(actors \ parked) + Cardinality(R)
               - Cardinality((actors \ parked) \cap R)
      BY <1>1, RunningFinite, FS_Union DEF Counted
    <2>3. Cardinality(actors' \ parked') = Cardinality((actors \ parked) \cup R)
      BY <1>2
    <2>4. QED
      BY <1>1, <2>1, <2>2, <2>3, RunningFinite DEF Counted
  <1>4. QED
    BY <1>1, <1>3 DEF Counted, RunningExact, TypeOK

(* park_until_virtual takes the actor that parks, and nobody else, off the  *)
(* count.                                                                   *)
LEMMA ParkCounts ==
  ASSUME Counted, NEW t \in Workers, NEW d, ParkUntilVirtual(t, d)
  PROVE  RunningExact' /\ running' \in Nat
  <1>1. CASE t \in actors \ parked
    <2>1. /\ actors' \ parked' = (actors \ parked) \ {t}
          /\ running' = running - 1
      BY <1>1 DEF ParkUntilVirtual
    <2>2. QED
      BY <1>1, <2>1, OneStops
  <1>2. CASE t \notin actors \ parked
    BY <1>2 DEF ParkUntilVirtual, Counted, RunningExact, TypeOK
  <1>3. QED
    BY <1>1, <1>2

LEMMA StepCounts ==
  ASSUME Counted, [Next]_vars
  PROVE  RunningExact' /\ running' \in Nat
  <1>0. ASSUME UNCHANGED <<actors, parked, running>>
        PROVE  RunningExact' /\ running' \in Nat
    BY <1>0 DEF Counted, RunningExact, TypeOK
  <1>1. ASSUME NEW t \in Workers, WaitUntil(t)
        PROVE  RunningExact' /\ running' \in Nat
    BY <1>0, <1>1, ParkCounts DEF WaitUntil, PastWait, sched
  <1>2. ASSUME NEW t \in Workers, Charge(t)
        PROVE  RunningExact' /\ running' \in Nat
    BY <1>0, <1>2, ParkCounts DEF Charge, SliceUsed, sched
  <1>3. ASSUME NEW t \in Workers, RegisterActor(t)
        PROVE  RunningExact' /\ running' \in Nat
    <2>1. /\ actors' \ parked' = (actors \ parked) \cup {t}
          /\ t \notin actors \ parked /\ running' = running + 1
      BY <1>3 DEF RegisterActor, Counted, TypeOK
    <2>2. Cardinality(actors' \ parked') = Cardinality(actors \ parked) + 1
      BY <2>1, RunningFinite, FS_AddElement DEF Counted
    <2>3. QED
      BY <2>1, <2>2, RunningFinite DEF Counted, RunningExact
  <1>4. ASSUME NEW t \in Workers, ActorDrop(t)
        PROVE  RunningExact' /\ running' \in Nat
    <2>1. CASE t \in parked
      <3>1. actors' \ parked' = actors \ parked /\ running' = running
        BY <1>4, <2>1 DEF ActorDrop, LeftRunning
      <3>2. QED
        BY <3>1 DEF Counted, RunningExact, TypeOK
    <2>2. CASE t \notin parked
      <3>1. /\ actors' \ parked' = (actors \ parked) \ {t}
            /\ running' = running - 1 /\ t \in actors \ parked
        BY <1>4, <2>2 DEF ActorDrop, LeftRunning
      <3>2. QED
        BY <3>1, OneStops
    <2>3. QED
      BY <2>1, <2>2
  <1>5. ASSUME NEW t \in Workers, ClockInit(t)
        PROVE  RunningExact' /\ running' \in Nat
    BY <1>5, SomeRunAgain DEF ClockInit
  <1>6. ASSUME NEW t \in Threads, AdvanceToNs(t)
        PROVE  RunningExact' /\ running' \in Nat
    <2>1. CASE move[t].to < now
      BY <1>0, <1>6, <2>1 DEF AdvanceToNs, sched
    <2>2. CASE ~(move[t].to < now)
      <3>1. Released(move[t].to) \in SUBSET parked
        BY DEF Released
      <3>2. QED
        BY <1>6, <2>2, <3>1, SomeRunAgain DEF AdvanceToNs
    <2>3. QED
      BY <2>1, <2>2
  <1>7. ASSUME UNCHANGED sched
        PROVE  RunningExact' /\ running' \in Nat
    BY <1>0, <1>7 DEF sched
  <1>8. CASE \E t \in Workers : NotifyDropped(t) \/ Recheck(t) \/ Exit(t)
    BY <1>7, <1>8 DEF NotifyDropped, Recheck, Exit
  <1>9. CASE \E t \in Threads : WakeParkedIfDrained(t) \/ NotifyAdvanced(t)
    BY <1>7, <1>9 DEF WakeParkedIfDrained, NotifyAdvanced
  <1>10. CASE \E s \in Schedulers : TakeTimeAuthority(s) \/ SchedulerStep(s)
                                    \/ QuiescenceStalled(s)
    BY <1>7, <1>10 DEF TakeTimeAuthority, SchedulerStep, QuiescenceStalled,
                       AwaitQuiescence, ChooseTarget, DropTimeAuthority
  <1>11. CASE Terminated \/ UNCHANGED vars
    BY <1>7, <1>11 DEF Terminated, vars, sched
  <1>12. QED
    BY <1>1, <1>2, <1>3, <1>4, <1>5, <1>6, <1>8, <1>9, <1>10, <1>11
       DEF Next, WorkerStep, ClockStep

LEMMA InitCounted == Init => Counted
  <1> SUFFICES ASSUME Init PROVE Counted
    OBVIOUS
  <1>1. IsFiniteSet(Bound) /\ Cardinality(Bound) \in Nat
    BY ClockAssumption, FS_Subset, FS_CardinalityType
  <1>2. RunningExact
    <2>1. actors \ parked = Bound
      BY DEF Init
    <2>2. QED
      BY <2>1 DEF Init, RunningExact
  <1>3. pc \in [Threads -> Places]
    BY DEF Init, Places, Returns
  <1>4. TypeOK
    BY <1>1, <1>3, ClockAssumption DEF Init, TypeOK, NoMove, NoPark, Places, Returns
  <1>5. QED
    BY <1>2, <1>4 DEF Counted

(* The places a wake-up moves threads to are places. *)
LEMMA WakesTyped ==
  ASSUME TypeOK
  PROVE  WakeBarrier(pc) \in [Threads -> Places] /\ WakeParked(pc) \in [Threads -> Places]
  BY DEF TypeOK, WakeBarrier, WakeParked, Places, Returns

LEMMA ParkTyped ==
  ASSUME Counted, NEW t \in Workers, NEW d \in 1..MaxTime,
         ParkUntilVirtual(t, d), running' \in Nat
  PROVE  TypeOK'
  <1> USE ClockAssumption
  <1>1. waits' \subseteq Wait
    BY DEF ParkUntilVirtual, Wait, Counted, TypeOK
  <1>2. parked' \subseteq actors' /\ actors' \subseteq Workers
    BY DEF ParkUntilVirtual, Counted, TypeOK
  <1>3. /\ park' \in [Workers -> [deadline : 0..MaxTime, epoch : 0..MaxEpoch]]
        /\ slice' \in [Workers -> 0..Quantum - 1]
    BY DEF ParkUntilVirtual, Counted, TypeOK
  <1>4. /\ pc' \in [Threads -> Places]
        /\ move' \in [Threads -> [to : 0..MaxTime, ret : Returns]]
    <2>1. PICK woke \in {pc, WakeBarrier(pc)} :
             \/ \E e \in 1..MaxTime :
                  /\ move' = [move EXCEPT ![t] = [to |-> e, ret |-> "woken"]]
                  /\ pc' = [woke EXCEPT ![t] = "move"]
             \/ pc' = [woke EXCEPT ![t] = "asleep"] /\ move' = move
      BY Zenon DEF ParkUntilVirtual
    <2>2. woke \in [Threads -> Places]
      BY WakesTyped DEF Counted, TypeOK
    <2>3. CASE \E e \in 1..MaxTime :
                  /\ move' = [move EXCEPT ![t] = [to |-> e, ret |-> "woken"]]
                  /\ pc' = [woke EXCEPT ![t] = "move"]
      BY <2>2, <2>3 DEF Counted, TypeOK, Places, Returns, Threads
    <2>4. CASE pc' = [woke EXCEPT ![t] = "asleep"] /\ move' = move
      BY <2>2, <2>4 DEF Counted, TypeOK, Places
    <2>5. QED
      BY <2>1, <2>3, <2>4
  <1>5. /\ now' \in 0..MaxTime /\ epoch' \in 0..MaxEpoch
        /\ holders' \subseteq Schedulers /\ stalled' \subseteq Schedulers
    BY DEF ParkUntilVirtual, Counted, TypeOK
  <1>6. QED
    BY <1>1, <1>2, <1>3, <1>4, <1>5 DEF TypeOK

LEMMA StepTyped ==
  ASSUME Counted, [Next]_vars, running' \in Nat
  PROVE  TypeOK'
  <1> USE ClockAssumption
  <1>1. ASSUME NEW t \in Workers, WaitUntil(t) PROVE TypeOK'
    <2>1. CASE PastWait(t)
      BY <2>1 DEF PastWait, sched, Counted, TypeOK
    <2>2. CASE \E d \in 1..MaxTime : ParkUntilVirtual(t, d)
      BY <2>2, ParkTyped
    <2>3. QED
      BY <1>1, <2>1, <2>2 DEF WaitUntil
  <1>2. ASSUME NEW t \in Workers, Charge(t) PROVE TypeOK'
    <2>1. PICK us \in 1..Quantum :
             \/ /\ ~SliceFull(slice[t] + us)
                /\ slice' = [slice EXCEPT ![t] = slice[t] + us]
                /\ UNCHANGED <<sched, holders, pc, move, park, stalled>>
             \/ /\ now + (slice[t] + us) <= MaxTime
                /\ ParkUntilVirtual(t, now + (slice[t] + us))
      BY <1>2 DEF Charge, SliceUsed
    <2>2. CASE /\ ~SliceFull(slice[t] + us)
               /\ slice' = [slice EXCEPT ![t] = slice[t] + us]
               /\ UNCHANGED <<sched, holders, pc, move, park, stalled>>
      BY <2>2 DEF SliceFull, sched, Counted, TypeOK
    <2>3. CASE /\ now + (slice[t] + us) <= MaxTime
               /\ ParkUntilVirtual(t, now + (slice[t] + us))
      <3>1. now + (slice[t] + us) \in 1..MaxTime
        BY <2>3 DEF Counted, TypeOK
      <3>2. QED
        BY <2>3, <3>1, ParkTyped
    <2>4. QED
      BY <2>1, <2>2, <2>3
  <1>3. ASSUME NEW t \in Workers, RegisterActor(t) PROVE TypeOK'
    BY <1>3 DEF RegisterActor, Counted, TypeOK
  <1>4. ASSUME NEW t \in Workers, ActorDrop(t) PROVE TypeOK'
    <2>1. waits' \subseteq Wait
      BY <1>4 DEF ActorDrop, Wait, Counted, TypeOK
    <2>2. slice' \in [Workers -> 0..Quantum - 1]
      BY <1>4 DEF ActorDrop, Counted, TypeOK
    <2>3. /\ pc' \in [Threads -> Places]
          /\ move' \in [Threads -> [to : 0..MaxTime, ret : Returns]]
      <3>1. CASE /\ pc' = [pc EXCEPT ![t] = "drain"]
                 /\ move' = [move EXCEPT ![t] = [to |-> 0, ret |-> "dropped"]]
        BY <3>1 DEF Counted, TypeOK, Places, Returns, Threads
      <3>2. CASE UNCHANGED <<pc, move>>
        BY <3>2 DEF Counted, TypeOK
      <3>3. QED
        BY <1>4, <3>1, <3>2 DEF ActorDrop
    <2>4. QED
      BY <1>4, <2>1, <2>2, <2>3 DEF ActorDrop, Counted, TypeOK
  <1>5. ASSUME NEW t \in Workers, ClockInit(t) PROVE TypeOK'
    BY <1>5 DEF ClockInit, Counted, TypeOK, Places, Returns, Threads
  <1>6. ASSUME NEW t \in Workers, NotifyDropped(t) PROVE TypeOK'
    BY <1>6, WakesTyped DEF NotifyDropped, sched, Counted, TypeOK, Places, Returns
  <1>7. ASSUME NEW t \in Workers, Recheck(t) PROVE TypeOK'
    <2>1. pc' \in [Threads -> Places]
      BY <1>7 DEF Recheck, Counted, TypeOK, Places, Returns, Threads
    <2>2. park' \in [Workers -> [deadline : 0..MaxTime, epoch : 0..MaxEpoch]]
      BY <1>7 DEF Recheck, Counted, TypeOK, NoPark
    <2>3. QED
      BY <1>7, <2>1, <2>2 DEF Recheck, sched, Counted, TypeOK
  <1>8. ASSUME NEW t \in Workers, Exit(t) PROVE TypeOK'
    BY <1>8 DEF Exit, sched, Counted, TypeOK, Places, Returns
  <1>9. ASSUME NEW t \in Threads, WakeParkedIfDrained(t) PROVE TypeOK'
    <2>1. CASE /\ pc' = [pc EXCEPT ![t] = "move"]
               /\ \E e \in 1..MaxTime : move' = [move EXCEPT ![t].to = e]
      BY <1>9, <2>1 DEF WakeParkedIfDrained, sched, Counted, TypeOK, Places, Returns
    <2>2. CASE /\ pc' = [pc EXCEPT ![t] = move[t].ret]
               /\ move' = [move EXCEPT ![t] = NoMove]
      BY <1>9, <2>2 DEF WakeParkedIfDrained, sched, Counted, TypeOK, Places, Returns, NoMove
    <2>3. QED
      BY <1>9, <2>1, <2>2 DEF WakeParkedIfDrained
  <1>10. ASSUME NEW t \in Threads, AdvanceToNs(t) PROVE TypeOK'
    <2>1. CASE move[t].to < now
      BY <1>10, <2>1 DEF AdvanceToNs, sched, Counted, TypeOK, Places, Returns, NoMove
    <2>2. CASE ~(move[t].to < now)
      <3>1. now' \in 0..MaxTime /\ waits' \subseteq Wait
        BY <1>10, <2>2 DEF AdvanceToNs, Counted, TypeOK
      <3>2. pc' \in [Threads -> Places]
        BY <1>10, <2>2 DEF AdvanceToNs, Counted, TypeOK, Places, Returns
      <3>3. QED
        BY <1>10, <2>2, <3>1, <3>2 DEF AdvanceToNs, Counted, TypeOK
    <2>3. QED
      BY <2>1, <2>2
  <1>11. ASSUME NEW t \in Threads, NotifyAdvanced(t) PROVE TypeOK'
    <2>1. pc' \in [Threads -> Places]
      BY <1>11, WakesTyped DEF NotifyAdvanced, Counted, TypeOK, Places, Returns
    <2>2. QED
      BY <1>11, <2>1 DEF NotifyAdvanced, sched, Counted, TypeOK, Places, Returns, NoMove
  <1>12. ASSUME NEW s \in Schedulers, TakeTimeAuthority(s) PROVE TypeOK'
    BY <1>12 DEF TakeTimeAuthority, sched, Counted, TypeOK, Places, Returns, Threads
  <1>13. ASSUME NEW s \in Schedulers, AwaitQuiescence(s) PROVE TypeOK'
    <2>1. CASE /\ pc' = [pc EXCEPT ![s] = "blocked"]
               /\ UNCHANGED move
      BY <1>13, <2>1 DEF AwaitQuiescence, sched, Counted, TypeOK, Places, Returns, Threads
    <2>2. CASE /\ pc' = [pc EXCEPT ![s] = "reached"]
               /\ \E e \in 0..MaxTime :
                    move' = [move EXCEPT ![s] = [to |-> e, ret |-> "hold"]]
      BY <1>13, <2>2 DEF AwaitQuiescence, sched, Counted, TypeOK, Places, Returns, Threads
    <2>3. QED
      BY <1>13, <2>1, <2>2 DEF AwaitQuiescence
  <1>14. ASSUME NEW s \in Schedulers, ChooseTarget(s) PROVE TypeOK'
    <2>1. PICK v \in now + 1 .. move[s].to : move' = [move EXCEPT ![s].to = v]
      BY <1>14 DEF ChooseTarget
    <2>2. v \in 0..MaxTime
      BY <2>1 DEF Counted, TypeOK, Threads
    <2>3. QED
      BY <1>14, <2>1, <2>2 DEF ChooseTarget, sched, Counted, TypeOK, Places, Returns, Threads
  <1>15. ASSUME NEW s \in Schedulers, DropTimeAuthority(s) PROVE TypeOK'
    BY <1>15 DEF DropTimeAuthority, sched, Counted, TypeOK, Places, Returns, Threads
  <1>16. ASSUME NEW s \in Schedulers, QuiescenceStalled(s) PROVE TypeOK'
    BY <1>16 DEF QuiescenceStalled, sched, Counted, TypeOK, Places, Returns, Threads
  <1>17. CASE Terminated \/ UNCHANGED vars
    BY <1>17 DEF Terminated, vars, Counted, TypeOK
  <1>18. QED
    BY <1>1, <1>2, <1>3, <1>4, <1>5, <1>6, <1>7, <1>8, <1>9, <1>10, <1>11,
       <1>12, <1>13, <1>14, <1>15, <1>16, <1>17
       DEF Next, WorkerStep, ClockStep, SchedulerStep

(* In every reachable state the state is well typed and the count the       *)
(* barrier reads is the number of registered actors that are not parked:    *)
(* with late registration, leaving actors, unregistered waiters, stale      *)
(* jumps and restarts of the clock.                                         *)
THEOREM CountedAlways == Spec => [](TypeOK /\ RunningExact)
  <1>1. Counted /\ [Next]_vars => Counted'
    BY StepCounts, StepTyped DEF Counted
  <1>2. QED
    BY <1>1, InitCounted, PTL DEF Spec, Counted

-----------------------------------------------------------------------------
(* Every pending wait belongs to a thread that is inside its park.         *)

InPark(t) == \/ pc[t] \in {"asleep", "woken"}
             \/ pc[t] \in {"move", "notify"} /\ move[t].ret = "woken"

WaitsMatch ==
  \A w \in waits : /\ now < w.deadline
                   /\ w.owner \in {w.by, NoOwner}
                   /\ InPark(w.by)
                   /\ park[w.by] = [deadline |-> w.deadline, epoch |-> epoch]

Pending == Counted /\ WaitsMatch /\ ParkedIffPending

(* Steps that only move threads about, and take none out of its park before *)
(* its wait is gone.                                                        *)
LEMMA PlacesOnly ==
  ASSUME Pending, UNCHANGED sched,
         \A t \in Workers : InPark(t) /\ (\E w \in waits : w.by = t)
                              => InPark(t)' /\ park'[t] = park[t]
  PROVE  WaitsMatch' /\ ParkedIffPending'
  <1>1. ParkedIffPending'
    BY DEF Pending, ParkedIffPending, sched
  <1>2. \A w \in waits : w.by \in Workers
    BY DEF Pending, Counted, TypeOK, Wait
  <1>3. WaitsMatch'
    BY <1>2 DEF Pending, WaitsMatch, sched
  <1>4. QED
    BY <1>1, <1>3

(* A thread outside its park has no wait, so it is not parked. *)
LEMMA OutsidePark ==
  ASSUME Pending, NEW t \in Workers, ~InPark(t)
  PROVE  /\ t \notin parked
         /\ \A w \in waits : w.by # t /\ w.owner # t
  <1>1. \A w \in waits : w.by # t /\ w.owner # t
    BY ClockAssumption DEF Pending, WaitsMatch
  <1>2. t \notin parked
    BY <1>1 DEF Pending, ParkedIffPending, Counted, TypeOK
  <1>3. QED
    BY <1>1, <1>2

LEMMA ParkPends ==
  ASSUME Pending, NEW t \in Workers, NEW d \in 1..MaxTime,
         pc[t] = "run", ParkUntilVirtual(t, d)
  PROVE  WaitsMatch' /\ ParkedIffPending'
  <1> USE ClockAssumption
  <1> DEFINE owner == IF t \in actors THEN t ELSE NoOwner
             new   == [deadline |-> d, by |-> t, owner |-> owner]
  <1>1. /\ waits' = waits \cup {new} /\ now < d
        /\ UNCHANGED <<now, epoch, actors>>
        /\ park' = [park EXCEPT ![t] = [deadline |-> d, epoch |-> epoch]]
        /\ parked' = IF t \in actors \ parked THEN parked \cup {t} ELSE parked
    BY DEF ParkUntilVirtual
  <1>2. t \notin parked /\ \A w \in waits : w.by # t /\ w.owner # t
    BY OutsidePark DEF InPark
  <1>3. \A u \in Workers : (u = t \/ InPark(u)) => InPark(u)'
    <2>1. PICK woke \in {pc, WakeBarrier(pc)} :
             \/ \E e \in 1..MaxTime :
                  /\ move' = [move EXCEPT ![t] = [to |-> e, ret |-> "woken"]]
                  /\ pc' = [woke EXCEPT ![t] = "move"]
             \/ pc' = [woke EXCEPT ![t] = "asleep"] /\ move' = move
      BY Zenon DEF ParkUntilVirtual
    <2>2. /\ woke \in [Threads -> Places]
          /\ \A u \in Threads : pc[u] # "blocked" => woke[u] = pc[u]
      BY <2>1, WakesTyped DEF WakeBarrier, Pending, Counted, TypeOK
    <2>3. move \in [Threads -> [to : 0..MaxTime, ret : Returns]] /\ Workers \subseteq Threads
      BY DEF Pending, Counted, TypeOK, Threads
    <2>4. CASE \E e \in 1..MaxTime :
                  /\ move' = [move EXCEPT ![t] = [to |-> e, ret |-> "woken"]]
                  /\ pc' = [woke EXCEPT ![t] = "move"]
      BY <2>2, <2>3, <2>4 DEF InPark
    <2>5. CASE pc' = [woke EXCEPT ![t] = "asleep"] /\ move' = move
      BY <2>2, <2>3, <2>5 DEF InPark
    <2>6. QED
      BY <2>1, <2>4, <2>5
  <1>4. WaitsMatch'
    <2>1. \A w \in waits : w.by \in Workers
      BY DEF Pending, Counted, TypeOK, Wait
    <2>2. park \in [Workers -> [deadline : 0..MaxTime, epoch : 0..MaxEpoch]]
      BY DEF Pending, Counted, TypeOK
    <2>3. ASSUME NEW w \in waits
          PROVE  /\ now' < w.deadline /\ w.owner \in {w.by, NoOwner}
                 /\ InPark(w.by)'
                 /\ park'[w.by] = [deadline |-> w.deadline, epoch |-> epoch']
      BY <1>1, <1>2, <1>3, <2>1, <2>2 DEF Pending, WaitsMatch
    <2>4. /\ now' < new.deadline /\ new.owner \in {new.by, NoOwner}
          /\ InPark(new.by)'
          /\ park'[new.by] = [deadline |-> new.deadline, epoch |-> epoch']
      BY <1>1, <1>3, <2>2
    <2>5. QED
      BY <1>1, <2>3, <2>4 DEF WaitsMatch
  <1>5. ParkedIffPending'
    <2>1. \A w \in waits' : now' < w.deadline
      BY <1>4 DEF WaitsMatch
    <2>2. ASSUME NEW a \in actors
          PROVE  a \in parked' <=> \E w \in waits' : w.owner = a
      <3>1. CASE a = t
        <4>1. new \in waits' /\ new.owner = t
          BY <1>1, <2>2, <3>1
        <4>2. t \in parked'
          BY <1>1, <1>2, <2>2, <3>1
        <4>3. QED
          BY <3>1, <4>1, <4>2
      <3>2. CASE a # t
        <4>1. new.owner # a
          BY <3>2, <2>2 DEF Pending, Counted, TypeOK
        <4>2. a \in parked' <=> a \in parked
          BY <1>1, <3>2
        <4>3. QED
          BY <1>1, <2>2, <4>1, <4>2 DEF Pending, ParkedIffPending
      <3>3. QED
        BY <3>1, <3>2
    <2>3. QED
      BY <1>1, <2>1, <2>2 DEF ParkedIffPending
  <1>6. QED
    BY <1>4, <1>5

(* The clock releases exactly the parks that are due. *)
LEMMA AdvancePends ==
  ASSUME Pending, NEW t \in Threads, AdvanceToNs(t)
  PROVE  WaitsMatch' /\ ParkedIffPending'
  <1> USE ClockAssumption
  <1> DEFINE v == move[t].to
  <1>0. /\ pc \in [Threads -> Places] /\ Workers \subseteq Threads
        /\ move \in [Threads -> [to : 0..MaxTime, ret : Returns]]
        /\ now \in Nat /\ v \in Nat
        /\ \A w \in waits : w.deadline \in Nat /\ w.by \in Workers
    BY DEF Pending, Counted, TypeOK, Threads, Wait
  <1>1. CASE v < now
    <2>1. /\ UNCHANGED sched /\ UNCHANGED park
          /\ move' = [move EXCEPT ![t] = NoMove]
          /\ pc' = [pc EXCEPT ![t] = move[t].ret] /\ pc[t] = "move"
      BY <1>1 DEF AdvanceToNs
    <2>2. \A u \in Workers : InPark(u) => InPark(u)' /\ park'[u] = park[u]
      BY <1>0, <2>1 DEF InPark
    <2>3. QED
      BY <2>1, <2>2, PlacesOnly
  <1>2. CASE ~(v < now)
    <2>1. /\ now' = v /\ waits' = waits \ Due(v)
          /\ parked' = parked \ Released(v)
          /\ UNCHANGED <<epoch, actors, move, park>>
          /\ pc' = [pc EXCEPT ![t] = "notify"] /\ pc[t] = "move"
      BY <1>2 DEF AdvanceToNs
    <2>2. \A u \in Workers : InPark(u) => InPark(u)'
      BY <1>0, <2>1 DEF InPark
    <2>3. \A w \in waits' : now' < w.deadline
      BY <1>0, <2>1 DEF Due
    <2>4. WaitsMatch'
      BY <1>0, <2>1, <2>2, <2>3 DEF Pending, WaitsMatch
    <2>5. ASSUME NEW a \in actors
          PROVE  a \in parked' <=> \E w \in waits' : w.owner = a
      <3>1. ASSUME NEW w1 \in waits, NEW w2 \in waits, w1.owner = a, w2.owner = a
            PROVE  w1.deadline = w2.deadline
        <4>1. a # NoOwner
          BY DEF Pending, Counted, TypeOK
        <4>2. w1.by = a /\ w2.by = a
          BY <3>1, <4>1 DEF Pending, WaitsMatch
        <4>3. /\ park[w1.by] = [deadline |-> w1.deadline, epoch |-> epoch]
              /\ park[w2.by] = [deadline |-> w2.deadline, epoch |-> epoch]
          BY DEF Pending, WaitsMatch
        <4>4. QED
          BY <4>2, <4>3
      <3>2. a \in parked <=> \E w \in waits : w.owner = a
        BY DEF Pending, ParkedIffPending
      <3>3. CASE a \in parked /\ \E w \in Due(v) : w.owner = a
        BY <2>1, <3>1, <3>3 DEF Released, Due
      <3>4. CASE a \in parked /\ ~\E w \in Due(v) : w.owner = a
        BY <2>1, <3>2, <3>4 DEF Released
      <3>5. CASE a \notin parked
        BY <2>1, <3>2, <3>5
      <3>6. QED
        BY <3>3, <3>4, <3>5
    <2>6. QED
      BY <2>1, <2>3, <2>4, <2>5 DEF ParkedIffPending
  <1>3. QED
    BY <1>1, <1>2

LEMMA StepPends ==
  ASSUME Pending, [Next]_vars
  PROVE  WaitsMatch' /\ ParkedIffPending'
  <1> USE ClockAssumption
  <1>0. /\ pc \in [Threads -> Places] /\ Workers \subseteq Threads
        /\ move \in [Threads -> [to : 0..MaxTime, ret : Returns]]
        /\ park \in [Workers -> [deadline : 0..MaxTime, epoch : 0..MaxEpoch]]
        /\ \A s \in Schedulers : s \in Threads /\ s \notin Workers
        /\ \A w \in waits : w.by \in Workers
    BY DEF Pending, Counted, TypeOK, Threads, Wait
  <1>1. ASSUME NEW t \in Workers, WaitUntil(t)
        PROVE  WaitsMatch' /\ ParkedIffPending'
    <2>1. CASE PastWait(t)
      BY <2>1, PlacesOnly DEF PastWait, InPark
    <2>2. CASE pc[t] = "run" /\ \E d \in 1..MaxTime : ParkUntilVirtual(t, d)
      BY <2>2, ParkPends
    <2>3. QED
      BY <1>1, <2>1, <2>2 DEF WaitUntil
  <1>2. ASSUME NEW t \in Workers, Charge(t)
        PROVE  WaitsMatch' /\ ParkedIffPending'
    <2>1. PICK us \in 1..Quantum :
             \/ UNCHANGED <<sched, holders, pc, move, park, stalled>>
             \/ /\ now + (slice[t] + us) <= MaxTime
                /\ ParkUntilVirtual(t, now + (slice[t] + us))
      BY <1>2 DEF Charge, SliceUsed
    <2>2. CASE UNCHANGED <<sched, holders, pc, move, park, stalled>>
      BY <2>2, PlacesOnly DEF InPark
    <2>3. CASE /\ now + (slice[t] + us) <= MaxTime
               /\ ParkUntilVirtual(t, now + (slice[t] + us))
      <3>1. now + (slice[t] + us) \in 1..MaxTime /\ pc[t] = "run"
        BY <1>2, <2>3 DEF Pending, Counted, TypeOK, Charge, SliceUsed
      <3>2. QED
        BY <2>3, <3>1, ParkPends
    <2>4. QED
      BY <2>1, <2>2, <2>3
  <1>3. ASSUME NEW t \in Workers, RegisterActor(t)
        PROVE  WaitsMatch' /\ ParkedIffPending'
    <2>1. t \notin parked /\ \A w \in waits : w.owner # t
      BY <1>3, OutsidePark DEF RegisterActor, InPark
    <2>2. /\ UNCHANGED <<now, epoch, parked, waits, pc, move, park>>
          /\ actors' = actors \cup {t}
      BY <1>3 DEF RegisterActor
    <2>3. WaitsMatch'
      BY <2>2 DEF Pending, WaitsMatch, InPark
    <2>4. ParkedIffPending'
      BY <2>1, <2>2 DEF Pending, ParkedIffPending
    <2>5. QED
      BY <2>3, <2>4
  <1>4. ASSUME NEW t \in Workers, ActorDrop(t)
        PROVE  WaitsMatch' /\ ParkedIffPending'
    <2>1. t \notin parked /\ \A w \in waits : w.by # t /\ w.owner # t
      BY <1>4, OutsidePark DEF ActorDrop, InPark
    <2>2. waits' = waits
      <3>1. \A w \in waits : [w EXCEPT !.owner = IF @ = t THEN NoOwner ELSE @] = w
        BY <2>1 DEF Pending, Counted, TypeOK, Wait
      <3>2. QED
        BY <1>4, <3>1 DEF ActorDrop
    <2>3. /\ UNCHANGED <<now, epoch, park>>
          /\ actors' = actors \ {t} /\ parked' = parked \ {t}
      BY <1>4 DEF ActorDrop
    <2>4. \A u \in Workers \ {t} : InPark(u) => InPark(u)'
      <3>1. CASE /\ pc' = [pc EXCEPT ![t] = "drain"]
                 /\ move' = [move EXCEPT ![t] = [to |-> 0, ret |-> "dropped"]]
        BY <1>0, <3>1 DEF InPark
      <3>2. CASE UNCHANGED <<pc, move>>
        BY <3>2 DEF InPark
      <3>3. QED
        BY <1>4, <3>1, <3>2 DEF ActorDrop
    <2>5. WaitsMatch'
      BY <1>0, <2>1, <2>2, <2>3, <2>4 DEF Pending, WaitsMatch
    <2>6. ParkedIffPending'
      BY <2>1, <2>2, <2>3 DEF Pending, ParkedIffPending
    <2>7. QED
      BY <2>5, <2>6
  <1>5. ASSUME NEW t \in Workers, ClockInit(t)
        PROVE  WaitsMatch' /\ ParkedIffPending'
    BY <1>5 DEF ClockInit, WaitsMatch, ParkedIffPending
  <1>6. ASSUME NEW t \in Workers, NotifyDropped(t)
        PROVE  WaitsMatch' /\ ParkedIffPending'
    <2>1. \A u \in Workers : InPark(u) => InPark(u)'
      BY <1>0, <1>6 DEF NotifyDropped, WakeBarrier, InPark
    <2>2. QED
      BY <1>6, <2>1, PlacesOnly DEF NotifyDropped
  <1>7. ASSUME NEW t \in Workers, Recheck(t)
        PROVE  WaitsMatch' /\ ParkedIffPending'
    <2>1. \A u \in Workers : u # t /\ InPark(u) => InPark(u)' /\ park'[u] = park[u]
      BY <1>0, <1>7 DEF Recheck, InPark
    <2>2. CASE now < park[t].deadline /\ epoch = park[t].epoch
      <3>1. InPark(t)' /\ park'[t] = park[t]
        BY <1>0, <1>7, <2>2 DEF Recheck, InPark
      <3>2. QED
        BY <1>7, <2>1, <3>1, PlacesOnly DEF Recheck
    <2>3. CASE ~(now < park[t].deadline /\ epoch = park[t].epoch)
      <3>1. ASSUME NEW w \in waits, w.by = t PROVE FALSE
        <4>1. /\ now < w.deadline
              /\ park[t] = [deadline |-> w.deadline, epoch |-> epoch]
          BY <3>1 DEF Pending, WaitsMatch
        <4>2. QED
          BY <2>3, <4>1
      <3>2. QED
        BY <1>7, <2>1, <3>1, PlacesOnly DEF Recheck
    <2>4. QED
      BY <2>2, <2>3
  <1>8. ASSUME NEW t \in Workers, Exit(t)
        PROVE  WaitsMatch' /\ ParkedIffPending'
    <2>1. \A u \in Workers : InPark(u) => InPark(u)'
      BY <1>0, <1>8 DEF Exit, InPark
    <2>2. QED
      BY <1>8, <2>1, PlacesOnly DEF Exit
  <1>9. ASSUME NEW t \in Threads, WakeParkedIfDrained(t)
        PROVE  WaitsMatch' /\ ParkedIffPending'
    <2>1. \A u \in Workers : InPark(u) => InPark(u)'
      BY <1>0, <1>9 DEF WakeParkedIfDrained, InPark
    <2>2. QED
      BY <1>9, <2>1, PlacesOnly DEF WakeParkedIfDrained
  <1>10. ASSUME NEW t \in Threads, AdvanceToNs(t)
         PROVE  WaitsMatch' /\ ParkedIffPending'
    BY <1>10, AdvancePends
  <1>11. ASSUME NEW t \in Threads, NotifyAdvanced(t)
         PROVE  WaitsMatch' /\ ParkedIffPending'
    <2>1. WakeParked(pc) \in [Threads -> Places]
      BY WakesTyped DEF Pending, Counted
    <2>2. \A u \in Workers : InPark(u) => InPark(u)'
      BY <1>0, <1>11, <2>1 DEF NotifyAdvanced, WakeParked, InPark
    <2>3. QED
      BY <1>11, <2>2, PlacesOnly DEF NotifyAdvanced
  <1>12. ASSUME NEW s \in Schedulers,
                TakeTimeAuthority(s) \/ SchedulerStep(s) \/ QuiescenceStalled(s)
         PROVE  WaitsMatch' /\ ParkedIffPending'
    <2>1. /\ \A u \in Workers : pc'[u] = pc[u] /\ move'[u] = move[u]
          /\ UNCHANGED sched /\ UNCHANGED park
      BY <1>0, <1>12
         DEF TakeTimeAuthority, SchedulerStep, QuiescenceStalled,
             AwaitQuiescence, ChooseTarget, DropTimeAuthority
    <2>2. QED
      BY <2>1, PlacesOnly DEF InPark
  <1>13. CASE Terminated \/ UNCHANGED vars
    <2>1. UNCHANGED sched /\ UNCHANGED <<pc, move, park>>
      BY <1>13 DEF Terminated, vars, sched
    <2>2. QED
      BY <2>1, PlacesOnly DEF InPark
  <1>14. QED
    BY <1>1, <1>2, <1>3, <1>4, <1>5, <1>6, <1>7, <1>8, <1>9, <1>10, <1>11,
       <1>12, <1>13
       DEF Next, WorkerStep, ClockStep

LEMMA PendingAlways == Spec => []Pending
  <1>1. Init => Pending
    <2>1. Init => WaitsMatch /\ ParkedIffPending
      BY DEF Init, WaitsMatch, ParkedIffPending
    <2>2. QED
      BY <2>1, InitCounted DEF Pending
  <1>2. Pending /\ [Next]_vars => Pending'
    BY StepPends, StepCounts, StepTyped DEF Pending, Counted
  <1>3. QED
    BY <1>1, <1>2, PTL DEF Spec

(* No wait is ever overdue and an actor counts as parked exactly while a    *)
(* deadline of its own is pending, for every discipline of the threads.     *)
THEOREM ParkedIffPendingAlways == Spec => []ParkedIffPending
  BY PendingAlways, PTL DEF Pending
-----------------------------------------------------------------------------
(* Who still owes the barrier a notification: an actor that left, between   *)
(* its deregistration and its notify.                                       *)
Owes(t) == \/ pc[t] = "dropped"
           \/ pc[t] \in {"drain", "move", "notify"} /\ move[t].ret = "dropped"

(* A step that lets nobody stop running, puts nobody to sleep at the        *)
(* barrier and forgets no notification.                                     *)
LEMMA OwingKept ==
  ASSUME BarrierNotifyNotLost, running' = 0 => running = 0,
         \A s \in Schedulers : pc'[s] = "blocked" => pc[s] = "blocked",
         \A t \in Workers : Owes(t) => Owes(t)'
  PROVE  BarrierNotifyNotLost'
  BY DEF BarrierNotifyNotLost, Owes

(* A step after which nobody sleeps at the barrier. *)
LEMMA BarrierOpened ==
  ASSUME TypeOK, NEW t \in Workers, NEW p, p # "blocked", pc' = [WakeBarrier(pc) EXCEPT ![t] = p]
  PROVE  BarrierNotifyNotLost'
  BY ClockAssumption DEF BarrierNotifyNotLost, WakeBarrier, TypeOK, Threads

LEMMA StepNotifies ==
  ASSUME Counted, BarrierNotifyNotLost, [Next]_vars
  PROVE  BarrierNotifyNotLost'
  <1>0. /\ pc \in [Threads -> Places] /\ move \in [Threads -> [to : 0..MaxTime, ret : Returns]]
        /\ running \in Nat /\ Workers \subseteq Threads /\ Schedulers \subseteq Threads
        /\ Workers \cap Schedulers = {}
    BY ClockAssumption DEF Counted, TypeOK, Threads
  <1>1. ASSUME NEW t \in Workers, NEW d, pc[t] = "run", ParkUntilVirtual(t, d)
        PROVE  BarrierNotifyNotLost'
    <2> DEFINE last == t \in actors \ parked /\ running - 1 = 0
    <2>1. /\ \E p \in {"move", "asleep"} :
               pc' = [(IF last THEN WakeBarrier(pc) ELSE pc) EXCEPT ![t] = p]
          /\ running' = IF t \in actors \ parked THEN running - 1 ELSE running
          /\ \A u \in Threads : u # t => move'[u] = move[u]
      BY <1>0, <1>1 DEF ParkUntilVirtual
    <2>2. CASE last
      BY <2>1, <2>2, BarrierOpened DEF Counted
    <2>3. CASE ~last
      <3>1. PICK p \in {"move", "asleep"} : pc' = [pc EXCEPT ![t] = p]
        BY <2>1, <2>3
      <3>2. running' = 0 => running = 0
        BY <1>0, <2>1, <2>3
      <3>3. \A u \in Workers : Owes(u) => Owes(u)'
        BY <1>0, <1>1, <2>1, <3>1 DEF Owes
      <3>4. QED
        BY <1>0, <3>1, <3>2, <3>3, OwingKept
    <2>4. QED
      BY <2>2, <2>3
  <1>2. ASSUME NEW t \in Workers, WaitUntil(t) \/ Charge(t) PROVE BarrierNotifyNotLost'
    <2>1. CASE \E d : pc[t] = "run" /\ ParkUntilVirtual(t, d)
      BY <2>1, <1>1
    <2>2. CASE UNCHANGED <<sched, holders, pc, move, park, stalled>>
      BY <2>2, OwingKept DEF sched, Owes
    <2>3. QED
      BY <1>2, <2>1, <2>2 DEF WaitUntil, PastWait, Charge
  <1>3. ASSUME NEW t \in Workers, ActorDrop(t) PROVE BarrierNotifyNotLost'
    <2>1. CASE LeftRunning(t) = 0
      <3>1. pc'[t] = "drain" /\ move'[t].ret = "dropped"
        BY <1>0, <1>3, <2>1 DEF ActorDrop
      <3>2. QED
        BY <3>1 DEF BarrierNotifyNotLost
    <2>2. CASE LeftRunning(t) # 0
      BY <1>3, <2>2 DEF ActorDrop, BarrierNotifyNotLost
    <2>3. QED
      BY <2>1, <2>2
  <1>4. ASSUME NEW t \in Workers, RegisterActor(t) \/ ClockInit(t) \/ Recheck(t) \/ Exit(t)
        PROVE  BarrierNotifyNotLost'
    <2>1. /\ \/ pc' = pc
             \/ \E p : pc' = [pc EXCEPT ![t] = p] /\ p # "blocked"
          /\ pc[t] \in {"run", "woken"} /\ UNCHANGED move
          /\ running' \in {running, running + 1, running + Cardinality(parked)}
      BY <1>4 DEF RegisterActor, ClockInit, Recheck, Exit, sched
    <2>2. running' = 0 => running = 0
      BY <1>0, <2>1, RunningFinite, FS_CardinalityType DEF Counted
    <2>3. \A u \in Workers : Owes(u) => Owes(u)'
      BY <1>0, <2>1 DEF Owes
    <2>4. QED
      BY <1>0, <2>1, <2>2, <2>3, OwingKept
  <1>5. ASSUME NEW t \in Workers, NotifyDropped(t) PROVE BarrierNotifyNotLost'
    <2>1. CASE running = 0
      BY <1>5, <2>1, BarrierOpened DEF NotifyDropped, Counted
    <2>2. CASE running # 0
      BY <1>5, <2>2 DEF NotifyDropped, sched, BarrierNotifyNotLost
    <2>3. QED
      BY <2>1, <2>2
  <1>6. ASSUME NEW t \in Threads, WakeParkedIfDrained(t) PROVE BarrierNotifyNotLost'
    <2>1. /\ pc[t] = "drain" /\ UNCHANGED running
          /\ \/ pc' = [pc EXCEPT ![t] = "move"] /\ \E e : move' = [move EXCEPT ![t].to = e]
             \/ pc' = [pc EXCEPT ![t] = move[t].ret] /\ move' = [move EXCEPT ![t] = NoMove]
      BY <1>6 DEF WakeParkedIfDrained, sched
    <2>2. move[t].ret # "blocked"
      BY <1>0 DEF Returns
    <2>3. \A u \in Workers : Owes(u) => Owes(u)'
      BY <1>0, <2>1 DEF Owes
    <2>4. QED
      BY <1>0, <2>1, <2>2, <2>3, OwingKept
  <1>7. ASSUME NEW t \in Threads, AdvanceToNs(t) PROVE BarrierNotifyNotLost'
    <2>1. CASE move[t].to < now
      <3>1. /\ pc[t] = "move" /\ UNCHANGED running
            /\ pc' = [pc EXCEPT ![t] = move[t].ret] /\ move' = [move EXCEPT ![t] = NoMove]
        BY <1>7, <2>1 DEF AdvanceToNs, sched
      <3>2. move[t].ret # "blocked"
        BY <1>0 DEF Returns
      <3>3. \A u \in Workers : Owes(u) => Owes(u)'
        BY <1>0, <3>1 DEF Owes
      <3>4. QED
        BY <1>0, <3>1, <3>2, <3>3, OwingKept
    <2>2. CASE ~(move[t].to < now)
      <3>1. /\ pc[t] = "move" /\ pc' = [pc EXCEPT ![t] = "notify"] /\ UNCHANGED move
            /\ running' = running + Cardinality(Released(move[t].to))
        BY <1>7, <2>2 DEF AdvanceToNs
      <3>2. Released(move[t].to) \subseteq parked
        BY DEF Released
      <3>3. running' = 0 => running = 0
        BY <1>0, <3>1, <3>2, RunningFinite, FS_Subset, FS_CardinalityType DEF Counted
      <3>4. \A u \in Workers : Owes(u) => Owes(u)'
        BY <1>0, <3>1 DEF Owes
      <3>5. QED
        BY <1>0, <3>1, <3>3, <3>4, OwingKept
    <2>3. QED
      BY <2>1, <2>2
  <1>8. ASSUME NEW t \in Threads, NotifyAdvanced(t) PROVE BarrierNotifyNotLost'
    <2>1. /\ pc[t] = "notify" /\ UNCHANGED running
          /\ pc' = [WakeParked(pc) EXCEPT ![t] = move[t].ret]
          /\ move' = [move EXCEPT ![t] = NoMove]
      BY <1>8 DEF NotifyAdvanced, sched
    <2>2. move[t].ret # "blocked"
      BY <1>0 DEF Returns
    <2>3. /\ pc'[t] = move[t].ret
          /\ \A u \in Threads : u # t => /\ move'[u] = move[u]
                                       /\ pc'[u] = IF pc[u] = "asleep" THEN "woken" ELSE pc[u]
      BY <1>0, <2>1 DEF WakeParked
    <2>4. \A u \in Workers : Owes(u) => Owes(u)'
      BY <1>0, <2>1, <2>3 DEF Owes
    <2>5. \A s \in Schedulers : pc'[s] = "blocked" => pc[s] = "blocked"
      BY <1>0, <2>2, <2>3
    <2>6. QED
      BY <2>1, <2>4, <2>5, OwingKept
  <1>9. ASSUME NEW s \in Schedulers,
               TakeTimeAuthority(s) \/ SchedulerStep(s) \/ QuiescenceStalled(s)
        PROVE  BarrierNotifyNotLost'
    <2>1. CASE pc'[s] = "blocked" /\ pc[s] # "blocked"
      <3>1. running' > 0
        BY <1>0, <1>9, <2>1
           DEF TakeTimeAuthority, SchedulerStep, QuiescenceStalled, AwaitQuiescence,
               ChooseTarget, DropTimeAuthority, sched
      <3>2. QED
        BY <1>0, <3>1 DEF BarrierNotifyNotLost
    <2>2. CASE ~(pc'[s] = "blocked" /\ pc[s] # "blocked")
      <3>1. /\ UNCHANGED running
            /\ \A u \in Threads : u # s => pc'[u] = pc[u] /\ move'[u] = move[u]
        BY <1>0, <1>9
           DEF TakeTimeAuthority, SchedulerStep, QuiescenceStalled, AwaitQuiescence,
               ChooseTarget, DropTimeAuthority, sched
      <3>2. \A u \in Workers : Owes(u) => Owes(u)'
        BY <1>0, <3>1 DEF Owes
      <3>3. QED
        BY <1>0, <2>2, <3>1, <3>2, OwingKept
    <2>3. QED
      BY <2>1, <2>2
  <1>10. CASE Terminated \/ UNCHANGED vars
    <2>1. UNCHANGED <<running, pc, move>>
      BY <1>10 DEF Terminated, vars
    <2>2. QED
      BY <2>1, OwingKept DEF Owes
  <1>11. QED
    BY <1>2, <1>3, <1>4, <1>5, <1>6, <1>7, <1>8, <1>9, <1>10
       DEF Next, WorkerStep, ClockStep

(* No scheduler sleeps through quiescence, whatever registers, leaves,      *)
(* parks or restarts the clock: the notification of Actor::drop, made after *)
(* the lock is dropped, is never one that nobody is left to make.           *)
THEOREM BarrierNotifyAlways == Spec => []BarrierNotifyNotLost
  <1>1. Init => BarrierNotifyNotLost
    BY ClockAssumption DEF Init, BarrierNotifyNotLost, Threads
  <1>2. Counted /\ BarrierNotifyNotLost /\ [Next]_vars => BarrierNotifyNotLost'
    BY StepNotifies
  <1>3. Spec => []Counted
    BY CountedAlways DEF Counted
  <1>4. QED
    BY <1>1, <1>2, <1>3, PTL DEF Spec

-----------------------------------------------------------------------------
(***************************************************************************)
(* The barrier of the virtual clock under the discipline it asks for: every*)
(* worker that waits registered before the run and the clock is not        *)
(* initialised again.  Then no decision about the clock is ever stale in a *)
(* way that matters, and the clock implements SimTime.                     *)
(***************************************************************************)
Closed == Bound = Workers /\ Late = {} /\ Guests = {} /\ MaxEpoch = 0

(* An advance somebody has decided on, and which would still move the clock,*)
(* was decided while nobody ran; nobody has run since, and no deadline      *)
(* before it has appeared.                                                  *)
MovesSafe ==
  \A t \in Threads :
    pc[t] \in {"move", "reached"} /\ now < move[t].to
      => running = 0 /\ \A w \in waits : move[t].to <= w.deadline

(* A thread inside its park is registered, and its instant is not over. *)
ParksOnTime ==
  \A t \in Workers :
    InPark(t) => t \in actors /\ now <= park[t].deadline /\ park[t].epoch = epoch

(* A drained thread leaves its drop; it is not inside a park. *)
DrainsOutside ==
  \A t \in Threads : pc[t] = "drain" => move[t].ret \in {"dropped", "done"}

Barrier == Pending /\ MovesSafe /\ ParksOnTime /\ DrainsOutside

LEMMA InitBarrier == Init => MovesSafe /\ ParksOnTime /\ DrainsOutside
  <1> SUFFICES ASSUME Init PROVE MovesSafe /\ ParksOnTime /\ DrainsOutside
    OBVIOUS
  <1>1. \A t \in Threads : pc[t] \notin {"move", "reached", "asleep", "woken", "notify", "drain"}
    BY DEF Init
  <1>2. QED
    BY <1>1 DEF MovesSafe, ParksOnTime, DrainsOutside, InPark, Threads

(* While an actor runs, no advance that was decided on can move the clock. *)
LEMMA RunnerHoldsTime ==
  ASSUME Barrier, NEW a \in actors \ parked
  PROVE  \A t \in Threads : pc[t] \in {"move", "reached"} => ~(now < move[t].to)
  BY RunningZero DEF Barrier, Pending, MovesSafe

(* A step that decides on no advance and leaves the registry alone. *)
LEMMA PlacesBarrier ==
  ASSUME Barrier, UNCHANGED sched,
         \A t \in Threads : /\ pc'[t] \in {"move", "reached"} /\ now < move'[t].to
                            => /\ pc[t] \in {"move", "reached"}
                               /\ now < move[t].to /\ move'[t].to <= move[t].to,
         \A t \in Workers : InPark(t)' => InPark(t) /\ park'[t] = park[t],
         \A t \in Threads : move[t].to \in Nat /\ move'[t].to \in Nat
  PROVE  MovesSafe' /\ ParksOnTime'
  <1>1. ParksOnTime'
    BY DEF Barrier, ParksOnTime, sched
  <1>2. \A w \in waits : w.deadline \in Nat
    BY DEF Barrier, Pending, Counted, TypeOK, Wait
  <1>3. MovesSafe'
    <2>1. ASSUME NEW t \in Threads,
                 (pc[t] \in {"move", "reached"} /\ now < move[t].to)'
          PROVE  (running = 0 /\ \A w \in waits : move[t].to <= w.deadline)'
      <3>1. /\ pc[t] \in {"move", "reached"}
            /\ now < move[t].to /\ move'[t].to <= move[t].to
        BY <2>1 DEF sched
      <3>2. running = 0 /\ \A w \in waits : move[t].to <= w.deadline
        BY <3>1 DEF Barrier, MovesSafe
      <3>3. QED
        BY <1>2, <3>1, <3>2 DEF sched
    <2>2. QED
      BY <2>1 DEF MovesSafe
  <1>4. QED
    BY <1>1, <1>3

LEMMA ParkBarrier ==
  ASSUME Barrier, NEW t \in actors, NEW d \in 1..MaxTime,
         pc[t] = "run", ParkUntilVirtual(t, d)
  PROVE  MovesSafe' /\ ParksOnTime'
  <1> USE ClockAssumption
  <1>0. /\ t \in Workers /\ t \in Threads /\ Workers \subseteq Threads
        /\ pc \in [Threads -> Places]
        /\ move \in [Threads -> [to : 0..MaxTime, ret : Returns]]
        /\ park \in [Workers -> [deadline : 0..MaxTime, epoch : 0..MaxEpoch]]
        /\ WakeBarrier(pc) \in [Threads -> Places]
        /\ now \in Nat /\ d \in Nat
    BY WakesTyped DEF Barrier, Pending, Counted, TypeOK, Threads
  <1>1. t \in actors \ parked
    BY <1>0, OutsidePark DEF Barrier, InPark
  <1>2. \A u \in Threads : pc[u] \in {"move", "reached"} => ~(now < move[u].to)
    BY <1>1, RunnerHoldsTime
  <1>3. /\ UNCHANGED <<now, epoch, actors>> /\ now < d
        /\ park' = [park EXCEPT ![t] = [deadline |-> d, epoch |-> epoch]]
    BY DEF ParkUntilVirtual
  <1>4. PICK woke \in {pc, WakeBarrier(pc)} :
          \/ \E e \in 1..MaxTime :
               /\ running' = 0 /\ Earliest(e, waits')
               /\ move' = [move EXCEPT ![t] = [to |-> e, ret |-> "woken"]]
               /\ pc' = [woke EXCEPT ![t] = "move"]
          \/ pc' = [woke EXCEPT ![t] = "asleep"] /\ move' = move
    BY Zenon DEF ParkUntilVirtual, MayIdleJump
  <1>5. \A u \in Threads : woke[u] # pc[u] => woke[u] = "hold"
    BY <1>4, <1>0 DEF WakeBarrier
  <1>6. \A u \in Threads \ {t} :
          /\ (pc'[u] = pc[u] \/ pc'[u] = "hold") /\ move'[u] = move[u]
    BY <1>0, <1>4, <1>5
  <1>7. MovesSafe'
    <2>1. ASSUME NEW u \in Threads \ {t}
          PROVE  ~(pc'[u] \in {"move", "reached"} /\ now' < move'[u].to)
      BY <1>2, <1>3, <1>6
    <2>2. ASSUME pc'[t] \in {"move", "reached"}
          PROVE  running' = 0 /\ \A w \in waits' : move'[t].to <= w.deadline
      <3>1. PICK e \in 1..MaxTime :
               /\ running' = 0 /\ Earliest(e, waits')
               /\ move' = [move EXCEPT ![t] = [to |-> e, ret |-> "woken"]]
        BY <1>0, <1>4, <2>2
      <3>2. QED
        BY <1>0, <3>1 DEF Earliest
    <2>3. QED
      BY <2>1, <2>2 DEF MovesSafe
  <1>8. ParksOnTime'
    <2>1. ASSUME NEW u \in Workers \ {t}, InPark(u)'
          PROVE  (u \in actors /\ now <= park[u].deadline /\ park[u].epoch = epoch)'
      BY <1>0, <1>3, <1>6, <2>1 DEF Barrier, ParksOnTime, InPark
    <2>2. (t \in actors /\ now <= park[t].deadline /\ park[t].epoch = epoch)'
      BY <1>0, <1>3
    <2>3. QED
      BY <2>1, <2>2 DEF ParksOnTime
  <1>9. QED
    BY <1>7, <1>8

LEMMA AdvanceBarrier ==
  ASSUME Barrier, NEW t \in Threads, AdvanceToNs(t)
  PROVE  MovesSafe' /\ ParksOnTime'
  <1> USE ClockAssumption
  <1> DEFINE v == move[t].to
  <1>0. /\ pc \in [Threads -> Places] /\ Workers \subseteq Threads
        /\ move \in [Threads -> [to : 0..MaxTime, ret : Returns]]
        /\ park \in [Workers -> [deadline : 0..MaxTime, epoch : 0..MaxEpoch]]
        /\ now \in Nat /\ v \in Nat
        /\ \A w \in waits : w.deadline \in Nat
        /\ \A u \in Threads : move[u].to \in Nat
    BY DEF Barrier, Pending, Counted, TypeOK, Threads, Wait
  <1>1. CASE v < now
    <2>1. /\ UNCHANGED sched /\ UNCHANGED park
          /\ move' = [move EXCEPT ![t] = NoMove]
          /\ pc' = [pc EXCEPT ![t] = move[t].ret] /\ pc[t] = "move"
      BY <1>1 DEF AdvanceToNs
    <2>2. \A u \in Threads : move'[u].to \in Nat /\ (u # t => pc'[u] = pc[u] /\ move'[u] = move[u])
      BY <1>0, <2>1 DEF NoMove
    <2>3. move'[t].to = 0
      BY <1>0, <2>1 DEF NoMove
    <2>4. \A u \in Workers : InPark(u)' => InPark(u)
      BY <1>0, <2>1 DEF InPark, NoMove, Returns
    <2>5. QED
      BY <1>0, <2>1, <2>2, <2>3, <2>4, PlacesBarrier
  <1>2. CASE v = now
    <2>1. Due(v) = {}
      <3>1. \A w \in waits : now < w.deadline
        BY DEF Barrier, Pending, WaitsMatch
      <3>2. QED
        BY <1>0, <1>2, <3>1 DEF Due
    <2>2. Released(v) = {} /\ Cardinality(Released(v)) = 0
      BY <2>1, FS_EmptySet DEF Released
    <2>3. UNCHANGED sched
      BY <1>2, <1>0, <2>1, <2>2 DEF AdvanceToNs, sched, Barrier, Pending, Counted, TypeOK
    <2>4. /\ UNCHANGED <<move, park>>
          /\ pc' = [pc EXCEPT ![t] = "notify"] /\ pc[t] = "move"
      BY <1>0, <1>2 DEF AdvanceToNs
    <2>5. QED
      BY <1>0, <2>3, <2>4, PlacesBarrier DEF InPark
  <1>3. CASE now < v
    <2>1. /\ now' = v /\ waits' = waits \ Due(v)
          /\ parked' = parked \ Released(v)
          /\ running' = running + Cardinality(Released(v))
          /\ UNCHANGED <<epoch, actors, move, park>>
          /\ pc' = [pc EXCEPT ![t] = "notify"] /\ pc[t] = "move"
      BY <1>0, <1>3 DEF AdvanceToNs
    <2>2. running = 0 /\ \A w \in waits : v <= w.deadline
      BY <1>3, <2>1 DEF Barrier, MovesSafe
    <2>3. MovesSafe'
      <3>1. ASSUME NEW u \in Threads, pc'[u] \in {"move", "reached"}, v < move[u].to
            PROVE  running' = 0 /\ \A w \in waits' : move[u].to <= w.deadline
        <4>1. pc[u] \in {"move", "reached"} /\ now < move[u].to
          BY <1>0, <1>3, <2>1, <3>1
        <4>2. \A w \in waits : move[u].to <= w.deadline
          BY <4>1 DEF Barrier, MovesSafe
        <4>3. Due(v) = {}
          BY <1>0, <3>1, <4>2 DEF Due
        <4>4. Cardinality(Released(v)) = 0
          BY <4>3, FS_EmptySet DEF Released
        <4>5. QED
          BY <2>1, <2>2, <4>2, <4>4
      <3>2. QED
        BY <2>1, <3>1 DEF MovesSafe
    <2>4. ParksOnTime'
      <3>1. ASSUME NEW u \in Workers, InPark(u)'
            PROVE  u \in actors /\ v <= park[u].deadline /\ park[u].epoch = epoch
        <4>1. InPark(u)
          BY <1>0, <2>1, <3>1 DEF InPark
        <4>2. u \in actors /\ park[u].epoch = epoch
          BY <4>1 DEF Barrier, ParksOnTime
        <4>3. u \in parked
          BY <2>2, <4>2, RunningZero DEF Barrier, Pending
        <4>4. PICK w \in waits : w.owner = u
          BY <4>2, <4>3 DEF Barrier, Pending, ParkedIffPending
        <4>5. w.by = u
          BY <4>4 DEF Barrier, Pending, WaitsMatch
        <4>6. park[u] = [deadline |-> w.deadline, epoch |-> epoch]
          BY <4>5 DEF Barrier, Pending, WaitsMatch
        <4>7. QED
          BY <2>2, <4>2, <4>6
      <3>2. QED
        BY <2>1, <3>1 DEF ParksOnTime
    <2>5. QED
      BY <2>3, <2>4
  <1>4. v < now \/ v = now \/ now < v
    <2>1. now \in Nat /\ v \in Nat
      BY <1>0
    <2> HIDE DEF v
    <2>2. QED
      BY <2>1
  <1>5. QED
    BY <1>1, <1>2, <1>3, <1>4

LEMMA StepDrains ==
  ASSUME Pending, DrainsOutside, [Next]_vars
  PROVE  DrainsOutside'
  <1>0. /\ pc \in [Threads -> Places] /\ Workers \subseteq Threads
        /\ move \in [Threads -> [to : 0..MaxTime, ret : Returns]]
        /\ \A s \in Schedulers : s \in Threads
        /\ WakeBarrier(pc) \in [Threads -> Places]
        /\ WakeParked(pc) \in [Threads -> Places]
    BY WakesTyped DEF Pending, Counted, TypeOK, Threads
  <1>1. \A u \in Threads : /\ WakeBarrier(pc)[u] = "drain" => pc[u] = "drain"
                           /\ WakeParked(pc)[u] = "drain" => pc[u] = "drain"
    BY <1>0 DEF WakeBarrier, WakeParked
  <1> DEFINE Keeps == \A u \in Threads :
               pc'[u] = "drain" => \/ move'[u].ret \in {"dropped", "done"}
                                   \/ pc[u] = "drain" /\ move'[u] = move[u]
  <1>2. ASSUME NEW t \in Workers, NEW d, pc[t] = "run", ParkUntilVirtual(t, d)
        PROVE  Keeps
    <2>1. PICK woke \in {pc, WakeBarrier(pc)} :
            \/ \E e \in 1..MaxTime :
                 /\ move' = [move EXCEPT ![t] = [to |-> e, ret |-> "woken"]]
                 /\ pc' = [woke EXCEPT ![t] = "move"]
            \/ pc' = [woke EXCEPT ![t] = "asleep"] /\ move' = move
      BY <1>2, Zenon DEF ParkUntilVirtual
    <2>2. \A u \in Threads : woke[u] = "drain" => pc[u] = "drain"
      BY <1>1, <2>1
    <2>3. woke \in [Threads -> Places]
      BY <1>0, <2>1
    <2>4. QED
      BY <1>0, <2>1, <2>2, <2>3
  <1>3. ASSUME NEW t \in Workers, WaitUntil(t) \/ Charge(t) PROVE Keeps
    <2>1. CASE \E d : ParkUntilVirtual(t, d)
      BY <1>2, <1>3, <2>1 DEF WaitUntil, PastWait, Charge
    <2>2. CASE UNCHANGED <<pc, move>>
      BY <2>2
    <2>3. QED
      BY <1>3, <2>1, <2>2 DEF WaitUntil, PastWait, Charge
  <1>4. ASSUME NEW t \in Workers,
               RegisterActor(t) \/ ClockInit(t) \/ Recheck(t) \/ Exit(t)
        PROVE  Keeps
    BY <1>0, <1>4 DEF RegisterActor, ClockInit, Recheck, Exit
  <1>5. ASSUME NEW t \in Workers, ActorDrop(t) PROVE Keeps
    <2>1. CASE /\ pc' = [pc EXCEPT ![t] = "drain"]
               /\ move' = [move EXCEPT ![t] = [to |-> 0, ret |-> "dropped"]]
      BY <1>0, <2>1
    <2>2. CASE UNCHANGED <<pc, move>>
      BY <2>2
    <2>3. QED
      BY <1>5, <2>1, <2>2 DEF ActorDrop
  <1>6. ASSUME NEW t \in Workers, NotifyDropped(t) PROVE Keeps
    BY <1>0, <1>1, <1>6 DEF NotifyDropped
  <1>7. ASSUME NEW t \in Threads, WakeParkedIfDrained(t) PROVE Keeps
    <2>1. /\ pc'[t] # "drain"
          /\ \A u \in Threads \ {t} : pc'[u] = pc[u] /\ move'[u] = move[u]
      BY <1>0, <1>7 DEF WakeParkedIfDrained, DrainsOutside
    <2>2. QED
      BY <2>1
  <1>8. ASSUME NEW t \in Threads, AdvanceToNs(t) PROVE Keeps
    <2>1. /\ pc'[t] # "drain"
          /\ \A u \in Threads \ {t} : pc'[u] = pc[u] /\ move'[u] = move[u]
      BY <1>0, <1>8 DEF AdvanceToNs, Returns
    <2>2. QED
      BY <2>1
  <1>9. ASSUME NEW t \in Threads, NotifyAdvanced(t) PROVE Keeps
    <2>1. /\ pc'[t] # "drain"
          /\ \A u \in Threads \ {t} : /\ pc'[u] = WakeParked(pc)[u]
                                      /\ move'[u] = move[u]
      BY <1>0, <1>9 DEF NotifyAdvanced, Returns
    <2>2. QED
      BY <1>1, <2>1
  <1>10. ASSUME NEW s \in Schedulers,
                TakeTimeAuthority(s) \/ AwaitQuiescence(s) \/ ChooseTarget(s)
                \/ QuiescenceStalled(s)
         PROVE  Keeps
    <2>1. /\ pc'[s] # "drain"
          /\ \A u \in Threads \ {s} : pc'[u] = pc[u] /\ move'[u] = move[u]
      BY <1>0, <1>10 DEF TakeTimeAuthority, AwaitQuiescence, ChooseTarget, QuiescenceStalled
    <2>2. QED
      BY <2>1
  <1>11. ASSUME NEW s \in Schedulers, DropTimeAuthority(s) PROVE Keeps
    BY <1>0, <1>11 DEF DropTimeAuthority
  <1>12. ASSUME Terminated \/ UNCHANGED vars PROVE Keeps
    BY <1>12 DEF Terminated, vars
  <1>13. Keeps
    BY <1>3, <1>4, <1>5, <1>6, <1>7, <1>8, <1>9, <1>10, <1>11, <1>12
       DEF Next, WorkerStep, ClockStep, SchedulerStep
  <1>14. QED
    BY <1>13 DEF DrainsOutside

LEMMA StepBarrier ==
  ASSUME Closed, Barrier, [Next]_vars, stalled = {}
  PROVE  MovesSafe' /\ ParksOnTime'
  <1> USE ClockAssumption
  <1>0. /\ pc \in [Threads -> Places] /\ Workers \subseteq Threads
        /\ move \in [Threads -> [to : 0..MaxTime, ret : Returns]]
        /\ park \in [Workers -> [deadline : 0..MaxTime, epoch : 0..MaxEpoch]]
        /\ \A s \in Schedulers : s \in Threads /\ s \notin Workers
        /\ \A w \in waits : w.deadline \in Nat
        /\ WakeBarrier(pc) \in [Threads -> Places]
        /\ WakeParked(pc) \in [Threads -> Places]
        /\ now \in Nat /\ NoMove.to = 0 /\ NoMove.ret = "run"
        /\ \A u \in Threads : move[u].to \in Nat
    BY WakesTyped DEF Barrier, Pending, Counted, TypeOK, Threads, Wait, NoMove
  <1>1. ASSUME NEW t \in Workers, WaitUntil(t)
        PROVE  MovesSafe' /\ ParksOnTime'
    <2>1. CASE PastWait(t)
      BY <1>0, <2>1, PlacesBarrier DEF PastWait, InPark
    <2>2. CASE /\ pc[t] = "run" /\ t \in actors
               /\ \E d \in 1..MaxTime : ParkUntilVirtual(t, d)
      BY <2>2, ParkBarrier
    <2>3. QED
      BY <1>1, <2>1, <2>2 DEF WaitUntil, Closed
  <1>2. ASSUME NEW t \in Workers, Charge(t)
        PROVE  MovesSafe' /\ ParksOnTime'
    <2>1. PICK us \in 1..Quantum :
             \/ UNCHANGED <<sched, holders, pc, move, park, stalled>>
             \/ /\ now + (slice[t] + us) <= MaxTime
                /\ ParkUntilVirtual(t, now + (slice[t] + us))
      BY <1>2 DEF Charge, SliceUsed
    <2>2. CASE UNCHANGED <<sched, holders, pc, move, park, stalled>>
      BY <1>0, <2>2, PlacesBarrier DEF InPark
    <2>3. CASE /\ now + (slice[t] + us) <= MaxTime
               /\ ParkUntilVirtual(t, now + (slice[t] + us))
      <3>1. now + (slice[t] + us) \in 1..MaxTime /\ pc[t] = "run" /\ t \in actors
        BY <1>2, <2>3 DEF Barrier, Pending, Counted, TypeOK, Charge, SliceUsed
      <3>2. QED
        BY <2>3, <3>1, ParkBarrier
    <2>4. QED
      BY <2>1, <2>2, <2>3
  <1>3. ASSUME NEW t \in Workers, RegisterActor(t) PROVE FALSE
    BY <1>3 DEF RegisterActor, Closed
  <1>4. ASSUME NEW t \in Workers, ClockInit(t) PROVE FALSE
    BY <1>4 DEF ClockInit, Closed, Barrier, Pending, Counted, TypeOK
  <1>5. ASSUME NEW t \in Workers, ActorDrop(t)
        PROVE  MovesSafe' /\ ParksOnTime'
    <2>1. t \in actors \ parked
      BY <1>5, OutsidePark DEF ActorDrop, InPark, Barrier
    <2>2. \A u \in Threads : pc[u] \in {"move", "reached"} => ~(now < move[u].to)
      BY <2>1, RunnerHoldsTime
    <2>3. /\ UNCHANGED <<now, epoch, park>> /\ actors' = actors \ {t}
          /\ pc'[t] \in {"drain", "run"}
          /\ \A u \in Threads \ {t} : pc'[u] = pc[u] /\ move'[u] = move[u]
      <3>1. CASE /\ pc' = [pc EXCEPT ![t] = "drain"]
                 /\ move' = [move EXCEPT ![t] = [to |-> 0, ret |-> "dropped"]]
        BY <1>0, <1>5, <3>1 DEF ActorDrop
      <3>2. CASE UNCHANGED <<pc, move>>
        BY <1>5, <3>2 DEF ActorDrop
      <3>3. QED
        BY <1>5, <3>1, <3>2 DEF ActorDrop
    <2>4. MovesSafe'
      BY <2>2, <2>3 DEF MovesSafe
    <2>5. ParksOnTime'
      BY <1>0, <2>3 DEF Barrier, ParksOnTime, InPark
    <2>6. QED
      BY <2>4, <2>5
  <1>6. ASSUME NEW t \in Workers, NotifyDropped(t)
        PROVE  MovesSafe' /\ ParksOnTime'
    <2>1. \A u \in Threads : pc'[u] = pc[u] \/ pc'[u] \in {"hold", "run"}
      BY <1>0, <1>6 DEF NotifyDropped, WakeBarrier
    <2>2. UNCHANGED <<move, park>> /\ UNCHANGED sched
      BY <1>6 DEF NotifyDropped
    <2>3. \A u \in Workers : InPark(u)' => InPark(u)
      BY <1>0, <2>1, <2>2 DEF InPark
    <2>4. \A u \in Threads : pc'[u] \in {"move", "reached"} => pc[u] \in {"move", "reached"}
      BY <2>1
    <2>5. QED
      BY <1>0, <2>2, <2>3, <2>4, PlacesBarrier
  <1>7. ASSUME NEW t \in Workers, Recheck(t)
        PROVE  MovesSafe' /\ ParksOnTime'
    <2>1. /\ \A u \in Threads : u # t => pc'[u] = pc[u]
          /\ pc[t] = "woken" /\ pc'[t] \in {"asleep", "run"}
          /\ pc'[t] = "asleep" => park' = park
          /\ \A u \in Workers : u # t => park'[u] = park[u]
          /\ UNCHANGED move /\ UNCHANGED sched
      BY <1>0, <1>7 DEF Recheck
    <2>2. \A u \in Workers : InPark(u)' => InPark(u) /\ park'[u] = park[u]
      BY <1>0, <2>1 DEF InPark
    <2>3. QED
      BY <1>0, <2>1, <2>2, PlacesBarrier
  <1>8. ASSUME NEW t \in Workers, Exit(t)
        PROVE  MovesSafe' /\ ParksOnTime'
    <2>1. /\ \A u \in Threads : pc'[u] = pc[u] \/ pc'[u] = "done"
          /\ UNCHANGED <<move, park>> /\ UNCHANGED sched
      BY <1>0, <1>8 DEF Exit
    <2>2. QED
      BY <1>0, <2>1, PlacesBarrier DEF InPark
  <1>9. ASSUME NEW t \in Threads, WakeParkedIfDrained(t)
        PROVE  MovesSafe' /\ ParksOnTime'
    <2>1. move[t].ret \in {"dropped", "done"} /\ UNCHANGED sched /\ UNCHANGED park
      BY <1>9 DEF WakeParkedIfDrained, Barrier, DrainsOutside
    <2>2. CASE /\ pc' = [pc EXCEPT ![t] = move[t].ret]
               /\ move' = [move EXCEPT ![t] = NoMove]
      <3>1. /\ \A u \in Threads : u # t => pc'[u] = pc[u] /\ move'[u] = move[u]
            /\ pc'[t] \in {"dropped", "done"} /\ move'[t].to = 0
        BY <1>0, <2>1, <2>2
      <3>2. \A u \in Workers : InPark(u)' => InPark(u)
        BY <1>0, <3>1 DEF InPark
      <3>3. \A u \in Threads : move'[u].to \in Nat
        BY <1>0, <3>1
      <3>4. \A u \in Threads : /\ pc'[u] \in {"move", "reached"} /\ now < move'[u].to
                                => /\ pc[u] \in {"move", "reached"}
                                   /\ now < move[u].to /\ move'[u].to <= move[u].to
        BY <1>0, <3>1
      <3>5. QED
        BY <1>0, <2>1, <3>2, <3>3, <3>4, PlacesBarrier
    <2>3. CASE /\ pc' = [pc EXCEPT ![t] = "move"] /\ running = 0
               /\ \E e \in 1..MaxTime : /\ Earliest(e, waits)
                                        /\ move' = [move EXCEPT ![t].to = e]
      <3>1. PICK e \in 1..MaxTime : /\ Earliest(e, waits)
                                    /\ move' = [move EXCEPT ![t].to = e]
        BY <2>3
      <3>2. /\ \A u \in Threads : u # t => pc'[u] = pc[u] /\ move'[u] = move[u]
            /\ pc'[t] = "move" /\ move'[t].to = e /\ move'[t].ret = move[t].ret
        BY <1>0, <2>3, <3>1
      <3>3. MovesSafe'
        BY <2>1, <2>3, <3>1, <3>2 DEF MovesSafe, Earliest, Barrier, sched
      <3>4. ParksOnTime'
        BY <1>0, <2>1, <3>2 DEF ParksOnTime, InPark, Barrier, sched
      <3>5. QED
        BY <3>3, <3>4
    <2>4. QED
      BY <1>9, <2>2, <2>3 DEF WakeParkedIfDrained, MayIdleJump
  <1>10. ASSUME NEW t \in Threads, AdvanceToNs(t)
         PROVE  MovesSafe' /\ ParksOnTime'
    BY <1>10, AdvanceBarrier
  <1>11. ASSUME NEW t \in Threads, NotifyAdvanced(t)
         PROVE  MovesSafe' /\ ParksOnTime'
    <2>1. /\ \A u \in Threads : u # t =>
               /\ pc'[u] = pc[u] \/ (pc[u] = "asleep" /\ pc'[u] = "woken")
               /\ move'[u] = move[u]
          /\ pc[t] = "notify" /\ pc'[t] = move[t].ret /\ move'[t].to = 0
          /\ UNCHANGED sched /\ UNCHANGED park
      BY <1>0, <1>11 DEF NotifyAdvanced, WakeParked
    <2>2. move[t].ret \in Returns
      BY <1>0
    <2>3. \A u \in Workers : InPark(u)' => InPark(u)
      BY <1>0, <2>1, <2>2 DEF InPark, Returns
    <2>4. \A u \in Threads : move'[u].to \in Nat
      BY <1>0, <2>1
    <2>5. \A u \in Threads : /\ pc'[u] \in {"move", "reached"} /\ now < move'[u].to
                              => /\ pc[u] \in {"move", "reached"}
                                 /\ now < move[u].to /\ move'[u].to <= move[u].to
      BY <1>0, <2>1, <2>2 DEF Returns
    <2>6. QED
      BY <1>0, <2>1, <2>3, <2>4, <2>5, PlacesBarrier
  <1>12. ASSUME NEW s \in Schedulers, AwaitQuiescence(s)
         PROVE  MovesSafe' /\ ParksOnTime'
    <2>1. /\ \A u \in Threads : u # s => pc'[u] = pc[u] /\ move'[u] = move[u]
          /\ UNCHANGED sched /\ UNCHANGED park
      BY <1>0, <1>12 DEF AwaitQuiescence
    <2>2. pc'[s] = "reached" =>
            running = 0 /\ \A w \in waits : move'[s].to <= w.deadline
      BY <1>0, <1>12 DEF AwaitQuiescence, Earliest
    <2>3. pc'[s] \in {"blocked", "reached"}
      BY <1>0, <1>12 DEF AwaitQuiescence
    <2>4. MovesSafe'
      BY <2>1, <2>2, <2>3 DEF MovesSafe, Barrier, sched
    <2>5. ParksOnTime'
      BY <1>0, <2>1 DEF ParksOnTime, InPark, Barrier, sched
    <2>6. QED
      BY <2>4, <2>5
  <1>13. ASSUME NEW s \in Schedulers, ChooseTarget(s)
         PROVE  MovesSafe' /\ ParksOnTime'
    <2>1. PICK v \in now + 1 .. move[s].to : move' = [move EXCEPT ![s].to = v]
      BY <1>13 DEF ChooseTarget
    <2>2. /\ \A u \in Threads : u # s => pc'[u] = pc[u] /\ move'[u] = move[u]
          /\ pc[s] = "reached" /\ pc'[s] = "move" /\ move'[s].to = v
          /\ v \in Nat /\ v <= move[s].to /\ now < move[s].to
          /\ UNCHANGED sched /\ UNCHANGED park
      BY <1>0, <1>13, <2>1 DEF ChooseTarget
    <2>3. \A u \in Workers : InPark(u)' => InPark(u)
      BY <1>0, <2>2 DEF InPark
    <2>4. \A u \in Threads : move'[u].to \in Nat
      BY <1>0, <2>2
    <2>5. \A u \in Threads : /\ pc'[u] \in {"move", "reached"} /\ now < move'[u].to
                              => /\ pc[u] \in {"move", "reached"}
                                 /\ now < move[u].to /\ move'[u].to <= move[u].to
      BY <1>0, <2>2
    <2>6. QED
      BY <1>0, <2>2, <2>3, <2>4, <2>5, PlacesBarrier
  <1>14. ASSUME NEW s \in Schedulers,
                TakeTimeAuthority(s) \/ DropTimeAuthority(s) \/ QuiescenceStalled(s)
         PROVE  MovesSafe' /\ ParksOnTime'
    <2>1. /\ \A u \in Threads : u # s => pc'[u] = pc[u] /\ move'[u] = move[u]
          /\ pc'[s] \in {"hold", "drain", "done"} /\ move'[s].to \in Nat
          /\ UNCHANGED sched /\ UNCHANGED park
      BY <1>0, <1>14 DEF TakeTimeAuthority, DropTimeAuthority, QuiescenceStalled
    <2>2. \A u \in Workers : InPark(u)' => InPark(u)
      BY <1>0, <2>1 DEF InPark
    <2>3. \A u \in Threads : move'[u].to \in Nat
      BY <1>0, <2>1
    <2>4. \A u \in Threads : /\ pc'[u] \in {"move", "reached"} /\ now < move'[u].to
                              => /\ pc[u] \in {"move", "reached"}
                                 /\ now < move[u].to /\ move'[u].to <= move[u].to
      BY <1>0, <2>1
    <2>5. QED
      BY <1>0, <2>1, <2>2, <2>3, <2>4, PlacesBarrier
  <1>15. CASE Terminated \/ UNCHANGED vars
    <2>1. UNCHANGED sched /\ UNCHANGED <<pc, move, park>>
      BY <1>15 DEF Terminated, vars, sched
    <2>2. QED
      BY <1>0, <2>1, PlacesBarrier DEF InPark
  <1>16. QED
    BY <1>1, <1>2, <1>3, <1>4, <1>5, <1>6, <1>7, <1>8, <1>9, <1>10, <1>11,
       <1>12, <1>13, <1>14, <1>15
       DEF Next, WorkerStep, ClockStep, SchedulerStep

(* Every wait is its own actor's. *)
Owned == \A w \in waits : w.owner = w.by

(* What holds before and after a holder has given the barrier up. *)
Kept == Pending /\ DrainsOutside /\ Owned /\ (stalled = {} => MovesSafe /\ ParksOnTime)

LEMMA KeptBarrier == Kept /\ stalled = {} => Barrier
  BY DEF Kept, Barrier

(* Who touches the waits and the registry. *)
LEMMA WhoWaits ==
  ASSUME Closed, Pending, [Next]_vars, ~UNCHANGED <<actors, waits>>
  PROVE  \/ \E t \in Workers : WaitUntil(t) \/ Charge(t) \/ ActorDrop(t)
         \/ waits' \subseteq waits
  <1>1. \A t \in Workers : ~RegisterActor(t)
    BY DEF RegisterActor, Closed
  <1>2. QED
    BY <1>1
       DEF Next, WorkerStep, ClockStep, SchedulerStep, NotifyDropped, Recheck, Exit,
           WakeParkedIfDrained, AdvanceToNs, NotifyAdvanced, TakeTimeAuthority,
           QuiescenceStalled, AwaitQuiescence, ChooseTarget, DropTimeAuthority,
           ClockInit, Terminated, vars, sched

LEMMA ParkOwned ==
  ASSUME Owned, NEW t \in actors, NEW d, ParkUntilVirtual(t, d)
  PROVE  Owned'
  BY DEF Owned, ParkUntilVirtual

(* A registered thread that runs leaves no wait behind. *)
LEMMA DropWaits ==
  ASSUME Pending, NEW t \in Workers, ActorDrop(t)
  PROVE  waits' = waits /\ \A w \in waits : w.by # t /\ w.owner # t
  <1>1. \A w \in waits : w.by # t /\ w.owner # t
    BY OutsidePark DEF ActorDrop, InPark
  <1>2. \A w \in waits : [w EXCEPT !.owner = IF @ = t THEN NoOwner ELSE @] = w
    BY <1>1 DEF Pending, Counted, TypeOK, Wait
  <1>3. QED
    BY <1>1, <1>2 DEF ActorDrop

LEMMA StepOwned ==
  ASSUME Closed, Pending, Owned, [Next]_vars
  PROVE  Owned'
  <1>1. CASE waits' \subseteq waits
    BY <1>1 DEF Owned
  <1>2. ASSUME NEW t \in Workers, WaitUntil(t) \/ Charge(t), ~(waits' \subseteq waits)
        PROVE  Owned'
    <2>1. t \in actors /\ \E d : ParkUntilVirtual(t, d)
      BY <1>2 DEF WaitUntil, PastWait, Charge, Closed, sched
    <2>2. QED
      BY <2>1, ParkOwned
  <1>3. ASSUME NEW t \in Workers, ActorDrop(t) PROVE Owned'
    BY <1>1, <1>3, DropWaits
  <1>4. QED
    BY <1>1, <1>2, <1>3, WhoWaits

(* A barrier that was given up stays given up. *)
LEMMA StalledStays ==
  ASSUME [Next]_vars
  PROVE  stalled \subseteq stalled'
  BY DEF Next, WorkerStep, ClockStep, SchedulerStep, WaitUntil, PastWait, Charge,
         ParkUntilVirtual, ActorDrop, RegisterActor, ClockInit, NotifyDropped, Recheck,
         Exit, WakeParkedIfDrained, AdvanceToNs, NotifyAdvanced, TakeTimeAuthority,
         QuiescenceStalled, AwaitQuiescence, ChooseTarget, DropTimeAuthority,
         Terminated, vars

LEMMA KeptAlways ==
  ASSUME Closed
  PROVE  Spec => []Kept
  <1>1. Init => Kept
    <2>1. Init => WaitsMatch /\ ParkedIffPending /\ Owned
      BY DEF Init, WaitsMatch, ParkedIffPending, Owned
    <2>2. QED
      BY <2>1, InitCounted, InitBarrier DEF Kept, Pending
  <1>2. Kept /\ [Next]_vars => Kept'
    <2>1. SUFFICES ASSUME Kept, [Next]_vars PROVE Kept'
      OBVIOUS
    <2>2. Pending'
      BY <2>1, StepPends, StepCounts, StepTyped DEF Kept, Pending, Counted
    <2>3. DrainsOutside' /\ Owned'
      BY <2>1, StepDrains, StepOwned DEF Kept
    <2>4. ASSUME stalled' = {} PROVE MovesSafe' /\ ParksOnTime'
      <3>1. stalled = {}
        BY <2>1, <2>4, StalledStays
      <3>2. QED
        BY <2>1, <3>1, KeptBarrier, StepBarrier
    <2>5. QED
      BY <2>2, <2>3, <2>4 DEF Kept
  <1>3. QED
    BY <1>1, <1>2, PTL DEF Spec

(* Only advance_to_ns and init touch the clock. *)
LEMMA WhoMovesTime ==
  ASSUME Closed, Pending, [Next]_vars, now' # now
  PROVE  \E t \in Threads : AdvanceToNs(t)
  <1>1. MaxEpoch = 0 /\ epoch \in 0..MaxEpoch
    BY DEF Closed, Pending, Counted, TypeOK
  <1>2. \A t \in Workers : ~ClockInit(t)
    BY <1>1 DEF ClockInit
  <1>3. ASSUME NEW t \in Workers, WaitUntil(t) \/ Charge(t) PROVE FALSE
    BY <1>3 DEF WaitUntil, PastWait, Charge, ParkUntilVirtual, sched
  <1>4. ASSUME NEW t \in Workers,
               ActorDrop(t) \/ RegisterActor(t) \/ NotifyDropped(t)
               \/ Recheck(t) \/ Exit(t)
        PROVE  FALSE
    BY <1>4 DEF ActorDrop, RegisterActor, NotifyDropped, Recheck, Exit, sched
  <1>5. ASSUME NEW t \in Threads, WakeParkedIfDrained(t) \/ NotifyAdvanced(t)
        PROVE  FALSE
    BY <1>5 DEF WakeParkedIfDrained, NotifyAdvanced, sched
  <1>6. ASSUME NEW s \in Schedulers,
               TakeTimeAuthority(s) \/ SchedulerStep(s) \/ QuiescenceStalled(s)
        PROVE  FALSE
    BY <1>6 DEF TakeTimeAuthority, SchedulerStep, QuiescenceStalled,
                AwaitQuiescence, ChooseTarget, DropTimeAuthority, sched
  <1>7. ~Terminated /\ ~UNCHANGED vars
    BY DEF Terminated, vars
  <1>8. QED
    BY <1>2, <1>3, <1>4, <1>5, <1>6, <1>7 DEF Next, WorkerStep, ClockStep

(* What an advance that moves the clock does. *)
LEMMA AdvanceStep ==
  ASSUME Barrier, NEW t \in Threads, AdvanceToNs(t), now' # now
  PROVE  /\ now < now' /\ now' \in 0..MaxTime /\ running = 0
         /\ \A w \in waits : now' <= w.deadline
         /\ waits' = waits \ Due(now') /\ UNCHANGED actors
  <1>1. /\ now \in Nat /\ move[t].to \in 0..MaxTime
    BY DEF Barrier, Pending, Counted, TypeOK
  <1>2. ~(move[t].to < now)
    BY DEF AdvanceToNs, sched
  <1>3. /\ now' = move[t].to /\ pc[t] = "move" /\ waits' = waits \ Due(move[t].to)
        /\ UNCHANGED actors
    BY <1>2 DEF AdvanceToNs
  <1>4. now < move[t].to
    BY <1>1, <1>2, <1>3
  <1>5. running = 0 /\ \A w \in waits : move[t].to <= w.deadline
    BY <1>3, <1>4 DEF Barrier, MovesSafe
  <1>6. QED
    BY <1>1, <1>3, <1>4, <1>5

(* The barrier is sound: with every waiting thread registered before the    *)
(* run, no interleaving of parks, jumps, notifications and authorities      *)
(* moves the clock while an actor runs or past an instant somebody is       *)
(* parked for, until a holder gives the barrier up.                         *)
THEOREM ClosedBarrier ==
  ASSUME Closed
  PROVE  Spec => MovesOnlyQuiescent /\ SkipsNoDeadline
  <1>1. Kept /\ [Next]_vars =>
          /\ [stalled = {} /\ now < now' => running = 0]_vars
          /\ [stalled = {} => \A w \in waits : now' <= w.deadline \/ now' = now]_vars
    <2>1. SUFFICES ASSUME Kept, [Next]_vars, stalled = {}
                   PROVE  /\ now < now' => running = 0
                          /\ \A w \in waits : now' <= w.deadline \/ now' = now
      OBVIOUS
    <2>2. Barrier
      BY <2>1, KeptBarrier
    <2>3. CASE now' = now
      BY <2>2, <2>3, ClockAssumption DEF Barrier, Pending, Counted, TypeOK
    <2>4. CASE now' # now
      BY <2>1, <2>2, <2>4, WhoMovesTime, AdvanceStep DEF Barrier
    <2>5. QED
      BY <2>3, <2>4
  <1>2. QED
    BY <1>1, KeptAlways, PTL DEF Spec, MovesOnlyQuiescent, SkipsNoDeadline

(* Nothing but its own look at the clock takes a thread out of its park. *)
LEMMA OnlyRecheckReturns ==
  ASSUME Barrier, [Next]_vars, NEW t \in Workers, pc[t] = "woken", pc'[t] = "run"
  PROVE  Recheck(t)
  <1>0. /\ pc \in [Threads -> Places] /\ t \in Threads /\ Workers \subseteq Threads
        /\ \A s \in Schedulers : s \in Threads
        /\ WakeBarrier(pc) \in [Threads -> Places] /\ WakeBarrier(pc)[t] = "woken"
        /\ WakeParked(pc) \in [Threads -> Places] /\ WakeParked(pc)[t] = "woken"
    BY WakesTyped
       DEF Barrier, Pending, Counted, TypeOK, Threads, WakeBarrier, WakeParked
  <1>1. ASSUME NEW u \in Workers, WaitUntil(u) \/ Charge(u) PROVE FALSE
    <2>1. CASE pc' = pc
      BY <2>1
    <2>2. CASE \E d : ParkUntilVirtual(u, d)
      <3>1. PICK woke \in {pc, WakeBarrier(pc)}, p \in {"move", "asleep"} :
               pc' = [woke EXCEPT ![u] = p]
        BY <2>2, Zenon DEF ParkUntilVirtual
      <3>2. u # t /\ woke \in [Threads -> Places] /\ woke[t] = "woken"
        BY <1>0, <1>1, <3>1 DEF WaitUntil, PastWait, Charge
      <3>3. QED
        BY <1>0, <3>1, <3>2
    <2>3. QED
      BY <1>1, <2>1, <2>2 DEF WaitUntil, PastWait, Charge
  <1>2. ASSUME NEW u \in Workers,
               \/ ActorDrop(u) \/ RegisterActor(u) \/ ClockInit(u) \/ Exit(u)
               \/ NotifyDropped(u) \/ (u # t /\ Recheck(u))
        PROVE  FALSE
    BY <1>0, <1>2 DEF ActorDrop, RegisterActor, ClockInit, Exit, NotifyDropped, Recheck
  <1>3. ASSUME NEW u \in Threads,
               WakeParkedIfDrained(u) \/ AdvanceToNs(u) \/ NotifyAdvanced(u)
        PROVE  FALSE
    BY <1>0, <1>3 DEF WakeParkedIfDrained, AdvanceToNs, NotifyAdvanced
  <1>4. ASSUME NEW s \in Schedulers,
               TakeTimeAuthority(s) \/ SchedulerStep(s) \/ QuiescenceStalled(s)
        PROVE  FALSE
    BY <1>0, <1>4 DEF TakeTimeAuthority, SchedulerStep, QuiescenceStalled,
                      AwaitQuiescence, ChooseTarget, DropTimeAuthority
  <1>5. ~Terminated /\ ~UNCHANGED vars
    BY DEF Terminated, vars
  <1>6. QED
    BY <1>1, <1>2, <1>3, <1>4, <1>5 DEF Next, WorkerStep, ClockStep

(* A parked thread returns at the very instant it asked for, however late   *)
(* the operating system lets it look at the clock, until the barrier has    *)
(* been given up.                                                           *)
THEOREM ClosedWakesOnTime ==
  ASSUME Closed
  PROVE  Spec => WakesOnTime
  <1>1. Kept /\ [Next]_vars =>
          [\A t \in Workers : stalled = {} /\ pc[t] = "woken" /\ pc'[t] = "run"
                                => now = park[t].deadline]_vars
    <2>1. SUFFICES ASSUME Barrier, [Next]_vars,
                          NEW t \in Workers, pc[t] = "woken", pc'[t] = "run"
                   PROVE  now = park[t].deadline
      BY KeptBarrier
    <2>2. now <= park[t].deadline /\ park[t].epoch = epoch
      BY <2>1 DEF Barrier, ParksOnTime, InPark
    <2>3. now \in Nat /\ park[t].deadline \in Nat
      BY <2>1, ClockAssumption DEF Barrier, Pending, Counted, TypeOK
    <2>4. Recheck(t)
      BY <2>1, OnlyRecheckReturns
    <2>5. pc \in [Threads -> Places] /\ t \in Threads
      BY <2>1 DEF Barrier, Pending, Counted, TypeOK, Threads
    <2>6. ~(now < park[t].deadline)
      BY <2>1, <2>2, <2>4, <2>5 DEF Recheck
    <2>7. QED
      BY <2>2, <2>3, <2>6
  <1>2. QED
    BY <1>1, KeptAlways, PTL DEF Spec, WakesOnTime

-----------------------------------------------------------------------------
(* Refinement.                                                             *)

SleepsExactly == \A w \in waits : SleepingUntil(w.by) = w.deadline

LEMMA SleepsUntil == Pending => SleepsExactly
  <1> SUFFICES ASSUME Pending, NEW w \in waits
               PROVE  SleepingUntil(w.by) = w.deadline
    BY DEF SleepsExactly
  <1>1. ASSUME NEW v \in waits, v.by = w.by PROVE v.deadline = w.deadline
    <2>1. /\ park[v.by] = [deadline |-> v.deadline, epoch |-> epoch]
          /\ park[w.by] = [deadline |-> w.deadline, epoch |-> epoch]
      BY DEF Pending, WaitsMatch
    <2>2. QED
      BY <1>1, <2>1
  <1>2. QED
    BY <1>1 DEF SleepingUntil

LEMMA SleepsUntilNext == Pending' => SleepsExactly'
  BY SleepsUntil, PTL

LEMMA AwakeUntil ==
  ASSUME NEW t, \A w \in waits : w.by # t
  PROVE  SleepingUntil(t) = 0
  BY DEF SleepingUntil

LEMMA InitSimulated ==
  ASSUME Closed
  PROVE  Init => Simulated!Init
  <1> SUFFICES ASSUME Init PROVE Simulated!Init
    OBVIOUS
  <1>1. \A t \in Workers : SleepingUntil(t) = 0
    BY DEF Init, SleepingUntil
  <1>2. QED
    BY <1>1 DEF Closed, Init, Simulated!Init

(* The registry and the clock untouched: nothing happens in SimTime. *)
LEMMA StutterSimulated ==
  ASSUME UNCHANGED <<now, actors, waits>>
  PROVE  UNCHANGED <<now, actors, [t \in Workers |-> SleepingUntil(t)]>>
  BY DEF SleepingUntil

LEMMA ParkSimulated ==
  ASSUME Pending, Pending', NEW t \in actors, NEW d \in 1..MaxTime,
         pc[t] = "run", ParkUntilVirtual(t, d)
  PROVE  Simulated!Sleep(t)
  <1> DEFINE new == [deadline |-> d, by |-> t, owner |-> t]
  <1>1. /\ waits' = waits \cup {new} /\ now < d /\ UNCHANGED <<now, actors, stalled>>
        /\ t \in Workers /\ now \in Nat
    BY ClockAssumption DEF ParkUntilVirtual, Pending, Counted, TypeOK
  <1>2. \A w \in waits : w.by # t
    BY <1>1, OutsidePark DEF InPark
  <1>3. SleepingUntil(t) = 0
    BY <1>2, AwakeUntil
  <1>4. SleepingUntil(t)' = d
    <2>1. new \in waits'
      BY <1>1
    <2>2. SleepingUntil(new.by)' = new.deadline
      BY <2>1, SleepsUntilNext DEF SleepsExactly
    <2>3. QED
      BY <2>2
  <1>5. ASSUME NEW u \in Workers, u # t PROVE SleepingUntil(u)' = SleepingUntil(u)
    <2>1. CASE \E w \in waits : w.by = u
      <3>1. PICK w \in waits : w.by = u
        BY <2>1
      <3>2. w \in waits'
        BY <1>1
      <3>3. SleepingUntil(w.by) = w.deadline /\ SleepingUntil(w.by)' = w.deadline
        BY <3>2, SleepsUntil, SleepsUntilNext DEF SleepsExactly
      <3>4. QED
        BY <3>1, <3>3
    <2>2. CASE \A w \in waits : w.by # u
      <3>1. \A w \in waits' : w.by # u
        BY <1>1, <1>5, <2>2
      <3>2. SleepingUntil(u) = 0 /\ SleepingUntil(u)' = 0
        BY <2>2, <3>1, AwakeUntil DEF SleepingUntil
      <3>3. QED
        BY <3>2
    <2>3. QED
      BY <2>1, <2>2
  <1>6. [u \in Workers |-> SleepingUntil(u)]'
          = [[u \in Workers |-> SleepingUntil(u)] EXCEPT ![t] = d]
    BY <1>1, <1>4, <1>5
  <1>7. d \in now + 1 .. MaxTime
    BY <1>1
  <1>8. QED
    BY <1>1, <1>3, <1>6, <1>7 DEF Simulated!Sleep, Simulated!Awake

LEMMA AdvanceSimulated ==
  ASSUME Kept, Pending', NEW t \in Threads, AdvanceToNs(t), now' # now
  PROVE  Simulated!Advance
  <1> USE DEF Kept
  <1>0. /\ now < now' /\ now' \in 0..MaxTime
        /\ waits' = waits \ Due(now') /\ UNCHANGED <<actors, stalled>>
    BY DEF AdvanceToNs, sched, Pending, Counted, TypeOK
  <1>1. /\ now < now' /\ now' \in 0..MaxTime
        /\ waits' = waits \ Due(now') /\ UNCHANGED <<actors, stalled>>
        /\ now \in Nat /\ MaxTime \in Nat
        /\ \A w \in waits : w.deadline \in Nat
        /\ actors \subseteq Workers /\ NoOwner \notin actors
    BY <1>0, ClockAssumption DEF Pending, Counted, TypeOK, Wait
  <1>2. ASSUME NEW u \in actors, stalled = {}
        PROVE  SleepingUntil(u) # 0 /\ now' <= SleepingUntil(u)
    <2>0. Barrier /\ running = 0 /\ \A w \in waits : now' <= w.deadline
      BY <1>2, AdvanceStep, KeptBarrier
    <2>1. u \in parked
      BY <1>1, <2>0, RunningZero DEF Pending
    <2>2. PICK w \in waits : w.owner = u
      BY <2>1 DEF Pending, ParkedIffPending
    <2>3. w.by = u
      BY <1>1, <2>2 DEF Pending, WaitsMatch
    <2>4. SleepingUntil(u) = w.deadline
      BY <2>3, SleepsUntil DEF SleepsExactly
    <2>5. QED
      BY <1>1, <2>0, <2>4
  <1>3. ASSUME NEW u \in Workers
        PROVE  SleepingUntil(u)' = IF SleepingUntil(u) <= now' THEN 0 ELSE SleepingUntil(u)
    <2>1. CASE \E w \in waits : w.by = u
      <3>1. PICK w \in waits : w.by = u
        BY <2>1
      <3>2. SleepingUntil(u) = w.deadline
        BY <3>1, SleepsUntil DEF SleepsExactly
      <3>3. CASE w.deadline <= now'
        <4>1. \A v \in waits : v.by = u => v.deadline = w.deadline
          BY <3>1, <3>2, SleepsUntil DEF SleepsExactly
        <4>2. \A v \in waits' : v.by # u
          BY <1>1, <3>3, <4>1 DEF Due
        <4>3. SleepingUntil(u)' = 0
          BY <4>2 DEF SleepingUntil
        <4>4. QED
          BY <3>2, <3>3, <4>3
      <3>4. CASE ~(w.deadline <= now')
        <4>1. w \in waits'
          BY <1>1, <3>4 DEF Due
        <4>2. SleepingUntil(w.by)' = w.deadline
          BY <4>1, SleepsUntilNext DEF SleepsExactly
        <4>3. QED
          BY <3>1, <3>2, <3>4, <4>2
      <3>5. QED
        BY <3>3, <3>4
    <2>2. CASE \A w \in waits : w.by # u
      <3>1. \A w \in waits' : w.by # u
        BY <1>1, <2>2
      <3>2. SleepingUntil(u) = 0 /\ SleepingUntil(u)' = 0
        BY <2>2, <3>1 DEF SleepingUntil
      <3>3. QED
        BY <1>1, <3>2
    <2>3. QED
      BY <2>1, <2>2
  <1>4. now' \in now + 1 .. MaxTime
    BY <1>1
  <1>5. QED
    BY <1>1, <1>2, <1>3, <1>4 DEF Simulated!Advance, Simulated!WaitsFor, Simulated!Awake

(* The barrier is given up only while somebody runs. *)
LEMMA WhoStalls ==
  ASSUME [Next]_vars, stalled' # stalled
  PROVE  running > 0
  BY DEF Next, WorkerStep, ClockStep, SchedulerStep, WaitUntil, PastWait, Charge,
         ParkUntilVirtual, ActorDrop, RegisterActor, ClockInit, NotifyDropped, Recheck,
         Exit, WakeParkedIfDrained, AdvanceToNs, NotifyAdvanced, TakeTimeAuthority,
         QuiescenceStalled, AwaitQuiescence, ChooseTarget, DropTimeAuthority,
         Terminated, vars

LEMMA StepSimulated ==
  ASSUME Closed, Kept, Pending', [Next]_vars
  PROVE  [Simulated!Next]_(<<now, actors, [t \in Workers |-> SleepingUntil(t)], stalled # {}>>)
  <1> USE DEF Kept
  <1>1. CASE now' # now
    <2>1. Simulated!Advance
      BY <1>1, WhoMovesTime, AdvanceSimulated
    <2>2. QED
      BY <2>1 DEF Simulated!Next
  <1>2. CASE UNCHANGED <<now, actors, waits>>
    <2>1. CASE UNCHANGED (stalled # {})
      BY <1>2, <2>1, StutterSimulated
    <2>2. CASE ~UNCHANGED (stalled # {})
      <3>1. stalled = {} /\ stalled' # {}
        BY <2>2, StalledStays
      <3>2. running > 0
        BY <3>1, WhoStalls
      <3>3. PICK t \in actors : t \notin parked
        BY <3>2, RunningZero DEF Pending
      <3>4. \A w \in waits : w.by # t
        BY <3>3 DEF Pending, ParkedIffPending, Owned
      <3>5. Simulated!Awake(t)
        BY <3>3, <3>4, AwakeUntil DEF Simulated!Awake, Pending, Counted, TypeOK
      <3>6. Simulated!Degrade
        BY <1>2, <3>1, <3>3, <3>5, StutterSimulated DEF Simulated!Degrade
      <3>7. QED
        BY <3>6 DEF Simulated!Next
    <2>3. QED
      BY <2>1, <2>2
  <1>3. ASSUME NEW t \in Workers, WaitUntil(t), ~UNCHANGED <<now, actors, waits>>
        PROVE  Simulated!Sleep(t)
    BY <1>3, ParkSimulated DEF WaitUntil, PastWait, Closed, sched
  <1>4. ASSUME NEW t \in Workers, Charge(t), ~UNCHANGED <<now, actors, waits>>
        PROVE  Simulated!Sleep(t)
    <2>1. PICK us \in 1..Quantum :
             /\ now + (slice[t] + us) <= MaxTime
             /\ ParkUntilVirtual(t, now + (slice[t] + us))
      BY <1>4 DEF Charge, SliceUsed, sched
    <2>2. now + (slice[t] + us) \in 1..MaxTime /\ pc[t] = "run" /\ t \in actors
      BY <1>4, <2>1, ClockAssumption DEF Pending, Counted, TypeOK, Charge, SliceUsed
    <2>3. QED
      BY <2>1, <2>2, ParkSimulated
  <1>5. ASSUME NEW t \in Workers, ActorDrop(t)
        PROVE  Simulated!Leave(t)
    <2>1. \A w \in waits : w.by # t /\ w.owner # t
      BY <1>5, OutsidePark DEF ActorDrop, InPark
    <2>2. waits' = waits
      <3>1. \A w \in waits : [w EXCEPT !.owner = IF @ = t THEN NoOwner ELSE @] = w
        BY <2>1 DEF Pending, Counted, TypeOK, Wait
      <3>2. QED
        BY <1>5, <3>1 DEF ActorDrop
    <2>3. SleepingUntil(t) = 0
      BY <2>1 DEF SleepingUntil
    <2>4. UNCHANGED [u \in Workers |-> SleepingUntil(u)]
      BY <2>2 DEF SleepingUntil
    <2>5. QED
      BY <1>5, <2>3, <2>4 DEF ActorDrop, Simulated!Leave, Simulated!Awake
  <1>6. ASSUME now' = now, ~UNCHANGED <<now, actors, waits>>
        PROVE  \E t \in Workers : WaitUntil(t) \/ Charge(t) \/ ActorDrop(t)
    <2>1. \A t \in Workers : ~RegisterActor(t) /\ ~ClockInit(t)
      BY DEF RegisterActor, ClockInit, Closed, Pending, Counted, TypeOK
    <2>2. \A t \in Threads : ~AdvanceToNs(t)
      <3>1. SUFFICES ASSUME NEW t \in Threads, AdvanceToNs(t) PROVE FALSE
        OBVIOUS
      <3>2. CASE move[t].to < now
        BY <1>6, <3>1, <3>2 DEF AdvanceToNs, sched
      <3>3. CASE ~(move[t].to < now)
        <4>1. now' = move[t].to /\ waits' = waits \ Due(move[t].to) /\ UNCHANGED actors
          BY <3>1, <3>3 DEF AdvanceToNs
        <4>2. now \in Nat /\ \A w \in waits : w.deadline \in Nat /\ now < w.deadline
          <5>1. now \in Nat /\ \A w \in waits : w.deadline \in Nat
            BY ClockAssumption DEF Pending, Counted, TypeOK, Wait
          <5>2. QED
            BY <5>1 DEF Pending, WaitsMatch
        <4>3. waits' = waits
          BY <1>6, <4>1, <4>2 DEF Due
        <4>4. QED
          BY <1>6, <4>1, <4>3
      <3>4. QED
        BY <3>2, <3>3
    <2>3. QED
      BY <1>6, <2>1, <2>2
         DEF Next, WorkerStep, ClockStep, SchedulerStep, NotifyDropped, Recheck, Exit,
             WakeParkedIfDrained, NotifyAdvanced, TakeTimeAuthority, QuiescenceStalled,
             AwaitQuiescence, ChooseTarget, DropTimeAuthority, Terminated, vars, sched
  <1>7. QED
    BY <1>1, <1>2, <1>3, <1>4, <1>5, <1>6 DEF Simulated!Next

(* The clock implements the abstract one: whatever the locks, the condition *)
(* variables, stale decisions and authorities do, the registered threads    *)
(* see time step from instant to instant with all of them asleep, until a   *)
(* holder gives the barrier up, and exactly the threads it reached awake.   *)
THEOREM ClosedImplementsSimTime ==
  ASSUME Closed
  PROVE  Spec => ImplementsSimTime
  <1>1. Kept /\ Kept' /\ [Next]_vars
          => [Simulated!Next]_(<<now, actors, [t \in Workers |-> SleepingUntil(t)], stalled # {}>>)
    BY StepSimulated DEF Kept
  <1>2. QED
    BY <1>1, InitSimulated, KeptAlways, PTL DEF Spec, ImplementsSimTime, Simulated!Spec
=============================================================================
