---------------------------- MODULE PowerUpProofs ----------------------------
(***************************************************************************)
(* Proofs about the EC32MB's power-up, for any banks, any delays, any      *)
(* answers of the core and any moves of the bench, in three parts: the     *)
(* START gate, alone and next to anything that steps it as StartGate does; *)
(* the rail and its detector, whose records each handler is shown to take  *)
(* from one good state to another; and the system they make up, where a    *)
(* step of one leaves the others alone.                                    *)
(***************************************************************************)
EXTENDS PowerUp, TLAPS

(* What the history of the inputs and the clock says of each other.         *)
InputsTell ==
  /\ upSince # None <=> Released
  /\ upSince <= now
  /\ starter = "request" => releasedAt = None /\ startedAt = None
  /\ starter # "done" => now = 0

(* A held core: its release is counted, or the thread that will count it    *)
(* is on its way at this very instant.                                      *)
Following == pc \in {"watch", "reset", "follow"}
CountedOnce ==
  Held =>
    /\ releasedAt # None /\ Released => releasedAt = upSince
    /\ releasedAt # None /\ ~Released => Following
    /\ releasedAt = None /\ Released =>
         upSince = now /\ (Following \/ starter = "follow")

(* Its wake is armed, or the thread that arms it is.                        *)
Armed(t) == [at |-> t + Delay, period |-> 0] \in agenda
ArmedOnce ==
  Held /\ Released =>
    /\ releasedAt # None => Armed(upSince) \/ pc = "arm" \/ starter = "arm"
    /\ now <= upSince + Delay

(* What each point of the engine's thread knows.                            *)
AtPoints ==
  /\ pc = "arm" => Held /\ Released /\ releasedAt = now
  /\ pc = "reset" => ~Held /\ brownout = None /\ resn = "low"
  /\ pc = "begin" => ~Held /\ brownout = None /\ core \in {"held", "running"}

(* What the core was told is what the gate says of it.                      *)
CoreTold ==
  /\ Held => core = "held" /\ brownout = None
  /\ brownout # None => core = "stopped"
  /\ ~Held /\ brownout = None /\ pc # "begin" => core = "running"

IInv == TypeOK /\ InputsTell /\ CountedOnce /\ ArmedOnce /\ AtPoints /\ CoreTold

-----------------------------------------------------------------------------
(* The numbers are integers, and None is none of the instants.              *)
LEMMA Numbers ==
  ASSUME TypeOK
  PROVE  /\ now \in Nat /\ Delay \in Nat /\ Delay > 0
         /\ upSince \in Int /\ releasedAt \in Int
         /\ now # None /\ None \in Int /\ None <= now
  BY GateAssumption DEF TypeOK, Times, None

(* An entry put at another instant is an entry still.                       *)
Entries == [at : Nat, period : Periods \cup {0}]

LEMMA EntryFields ==
  ASSUME NEW e \in Entries
  PROVE  /\ e = [at |-> e.at, period |-> e.period]
         /\ e.at \in Nat /\ e.period \in Periods \cup {0} /\ e.period \in Nat
  <1>1. /\ e = [at |-> e.at, period |-> e.period]
        /\ e.at \in Nat /\ e.period \in Periods \cup {0}
    BY DEF Entries
  <1>2. Periods \cup {0} \subseteq Nat
    BY GateAssumption
  <1>3. e.period \in Nat
    BY <1>1, <1>2, Zenon
  <1>4. QED
    BY <1>1, <1>3

LEMMA Retimed ==
  ASSUME NEW e \in Entries, NEW t \in Nat
  PROVE  [e EXCEPT !.at = t] \in Entries
  <1>1. [e EXCEPT !.at = t] = [at |-> t, period |-> e.period]
    BY EntryFields
  <1>2. [at |-> t, period |-> e.period] \in Entries
    BY EntryFields DEF Entries
  <1>3. QED
    BY <1>1, <1>2

(* What is put on the wheel, at once or at the START, is one of its entries. *)
LEMMA EntryType ==
  ASSUME TypeOK, NEW r \in Requests
  PROVE  Entry(r, now) \in Entries
  <1>1. r \in Entries
    <2>1. CASE r \in OneShots
      BY <2>1, GateAssumption DEF OneShots, Entries
    <2>2. CASE r \in [at : {0}, period : Periods]
      BY <2>2 DEF Entries
    <2>3. QED
      BY <2>1, <2>2 DEF Requests
  <1>2. now \in Nat /\ now + r.period \in Nat
    BY <1>1, EntryFields, Numbers
  <1>3. QED
    BY <1>1, <1>2, Retimed DEF Entry

LEMMA InitInv == Init => IInv
  BY GateAssumption
  DEF Init, IInv, TypeOK, InputsTell, CountedOnce, ArmedOnce, AtPoints, CoreTold,
      Held, Released, None, Times

(* A delivery changes what the inputs say, and the thread goes to follow it. *)
LEMMA SenseInv ==
  ASSUME IInv, Sense
  PROVE  IInv'
  <1> USE DEF IInv
  <1>1. /\ pc = "idle" /\ pc' \in {"follow", "watch"}
        /\ told' \subseteq Banks \cup {"RESN", "VDD"}
        /\ UNCHANGED <<gate, now, agenda, starter, core>>
        /\ resn' \in {"low", "high", "none"} /\ vdd' \in {"in", "out"}
        /\ pin' \in {"bank", "reset"}
        /\ upSince' = UpSince
    BY DEF Sense, SenseBank, SenseResn, SenseVdd, Delivered, TypeOK
  <1>2. TypeOK'
    BY <1>1 DEF TypeOK, UpSince, gate, Times, None
  <1>3. InputsTell'
    BY <1>1, Numbers DEF InputsTell, UpSince, gate
  <1>4. CountedOnce'
    BY <1>1 DEF InputsTell, CountedOnce, Following, UpSince, gate, Held
  <1>5. ArmedOnce'
    BY <1>1, Numbers DEF InputsTell, CountedOnce, ArmedOnce, Following, Armed, UpSince, gate, Held
  <1>6. AtPoints' /\ CoreTold'
    BY <1>1 DEF AtPoints, CoreTold, gate, Held
  <1>7. QED
    BY <1>2, <1>3, <1>4, <1>5, <1>6

(* Reading RESN low while the core runs; nothing else changes.              *)
LEMMA WatchResetInv ==
  ASSUME IInv, WatchReset
  PROVE  IInv'
  <1> USE DEF IInv, WatchReset, reset, gate, past, Held, Released
  <1>1. TypeOK'
    BY DEF TypeOK
  <1>2. InputsTell'
    BY DEF InputsTell
  <1>3. CountedOnce'
    BY DEF CountedOnce, Following
  <1>4. ArmedOnce'
    BY DEF ArmedOnce, Armed
  <1>5. AtPoints' /\ CoreTold'
    BY DEF AtPoints, CoreTold, ResetRead
  <1>6. QED
    BY <1>1, <1>2, <1>3, <1>4, <1>5

(* The core enters its reset: RESN holds it, so nothing is counted.         *)
LEMMA EnterResetInv ==
  ASSUME IInv, EnterReset
  PROVE  IInv'
  <1> USE DEF IInv, EnterReset, reset, Held, Released
  <1>1. TypeOK'
    BY DEF TypeOK
  <1>2. resn = "low" /\ ~Released'
    BY DEF AtPoints
  <1>3. InputsTell'
    BY <1>2 DEF InputsTell
  <1>4. CountedOnce' /\ ArmedOnce'
    BY <1>2 DEF CountedOnce, ArmedOnce, AtPoints
  <1>5. AtPoints' /\ CoreTold'
    BY DEF AtPoints, CoreTold
  <1>6. QED
    BY <1>1, <1>3, <1>4, <1>5

(* Following the reset, by either thread: the release that is counted is    *)
(* the inputs' last.                                                        *)
LEMMA FollowInv ==
  ASSUME IInv, FollowReset, UNCHANGED <<reset, now, agenda, pin, core, past>>,
         \/ /\ pc = "follow" /\ UNCHANGED starter
            /\ pc' = IF Counted THEN "arm" ELSE AfterFollow
         \/ /\ starter = "follow" /\ UNCHANGED pc
            /\ starter' = IF Counted THEN "arm" ELSE "done"
  PROVE  IInv'
  <1> USE DEF IInv, FollowReset, reset, past
  <1>1. Held' = Held /\ Released' = Released
    BY DEF Held, Released
  <1>2. pc' \in {"idle", "watch", "reset", "follow", "arm", "brownout", "begin"}
    BY DEF TypeOK, AfterFollow
  <1>3. TypeOK'
    BY <1>2 DEF TypeOK
  <1>4. InputsTell'
    BY <1>1, Numbers DEF InputsTell, Counted, Forgotten, Released
  <1>5. CountedOnce'
    BY <1>1, Numbers DEF CountedOnce, Counted, Forgotten, Following, AfterFollow
  <1>6. ArmedOnce'
    BY <1>1 DEF ArmedOnce, CountedOnce, Counted, Forgotten, Armed, InputsTell
  <1>7. AtPoints'
    BY <1>1 DEF AtPoints, CountedOnce, Counted, Forgotten, AfterFollow
  <1>8. CoreTold'
    BY <1>1 DEF CoreTold, AtPoints, AfterFollow
  <1>9. QED
    BY <1>3, <1>4, <1>5, <1>6, <1>7, <1>8

(* The delay's wake, armed by either thread.                                *)
LEMMA ArmInv ==
  ASSUME IInv, Arm, UNCHANGED <<reset, gate, now, pin, core, past>>,
         \/ /\ pc = "arm" /\ pc' = AfterFollow /\ UNCHANGED starter
         \/ /\ starter = "arm" /\ starter' = "done" /\ UNCHANGED pc
  PROVE  IInv'
  <1> USE DEF IInv, reset, gate, past
  <1>1. Held' = Held /\ Released' = Released
    BY DEF Held, Released
  <1>2. pc' \in {"idle", "watch", "reset", "follow", "arm", "brownout", "begin"}
    BY DEF TypeOK, AfterFollow
  <1>3. [at |-> now + Delay, period |-> 0] \in [at : Nat, period : Periods \cup {0}]
    BY Numbers
  <1>4. TypeOK'
    BY <1>2, <1>3 DEF TypeOK, Arm
  <1>5. InputsTell'
    BY <1>1 DEF InputsTell
  <1>6. CountedOnce'
    BY <1>1 DEF CountedOnce, Following, AfterFollow, AtPoints
  <1>7. ArmedOnce'
    <2> SUFFICES ASSUME Held, Released
                 PROVE  /\ releasedAt # None => Armed(upSince)' \/ pc' = "arm" \/ starter' = "arm"
                        /\ now <= upSince + Delay
      BY <1>1 DEF ArmedOnce
    <2>1. upSince = now
      <3>1. CASE pc = "arm"
        BY <3>1, Numbers DEF AtPoints, CountedOnce
      <3>2. CASE starter = "arm"
        <4>1. now = 0 /\ upSince # None /\ upSince <= 0
          BY <3>2 DEF InputsTell
        <4>2. QED
          BY <4>1 DEF TypeOK, Times
      <3>3. QED
        BY <3>1, <3>2
    <2>2. Armed(now)' /\ now <= now + Delay
      BY Numbers DEF Arm, Armed
    <2>3. QED
      BY <2>1, <2>2 DEF Armed
  <1>8. AtPoints' /\ CoreTold'
    BY <1>1 DEF AtPoints, CoreTold, AfterFollow
  <1>9. QED
    BY <1>4, <1>5, <1>6, <1>7, <1>8

(* A brownout stops a core that runs; it is not held after it.              *)
LEMMA BrownoutInv ==
  ASSUME IInv, WatchBrownout
  PROVE  IInv'
  <1> USE DEF IInv, WatchBrownout, BrownedOut, reset
  <1>1. Held' = Held /\ Released' = Released
    BY DEF Held, Released
  <1>2. TypeOK'
    BY DEF TypeOK
  <1>3. InputsTell'
    BY <1>1 DEF InputsTell
  <1>4. CountedOnce'
    BY <1>1 DEF CountedOnce, Following
  <1>5. ArmedOnce'
    BY <1>1 DEF ArmedOnce, Armed
  <1>6. AtPoints' /\ CoreTold'
    BY <1>1, Numbers DEF AtPoints, CoreTold
  <1>7. QED
    BY <1>2, <1>3, <1>4, <1>5, <1>6

(* A wake that fires leaves the wheel, but for its next period; no other    *)
(* one does.                                                                *)
LEMMA FiresType ==
  ASSUME TypeOK, NEW e \in agenda, Fires(e)
  PROVE  /\ agenda' \subseteq Entries
         /\ \A a \in agenda : a # e => a \in agenda'
         /\ e.at <= now /\ pc = "idle"
  <1>1. agenda \subseteq Entries /\ e \in Entries
    BY DEF TypeOK, Entries
  <1>2. e.at + e.period \in Nat
    BY <1>1, EntryFields
  <1>3. [e EXCEPT !.at = e.at + e.period] \in Entries
    BY <1>1, <1>2, Retimed
  <1>4. agenda' \subseteq agenda \cup {[e EXCEPT !.at = e.at + e.period]}
    BY DEF Fires
  <1>5. QED
    BY <1>1, <1>3, <1>4 DEF Fires

(* A wake that starts the core, or tells a core that runs, or is ignored.   *)
LEMMA NotHeldWakeInv ==
  ASSUME IInv, NEW e \in agenda, IgnoreWake(e) \/ WakeCore(e)
  PROVE  IInv'
  <1> USE DEF IInv
  <1>1. Fires(e) /\ ~Held /\ UNCHANGED <<gate, pc, core, reset, now, pin, starter, upSince>>
    BY DEF IgnoreWake, WakeCore, Awake, CoreTold, Fires
  <1>2. Held' = Held /\ Released' = Released
    BY <1>1 DEF Held, Released, gate, reset
  <1>4. TypeOK'
    BY <1>1, FiresType DEF TypeOK, Entries, gate, reset
  <1>5. InputsTell'
    BY <1>1, <1>2 DEF InputsTell, gate
  <1>6. CountedOnce' /\ ArmedOnce'
    BY <1>1, <1>2 DEF CountedOnce, ArmedOnce
  <1>7. AtPoints' /\ CoreTold'
    BY <1>1, <1>2 DEF AtPoints, CoreTold, gate, reset
  <1>8. QED
    BY <1>4, <1>5, <1>6, <1>7

(* The START, with the delay out; any other wake leaves the delay's one.    *)
LEMMA TryBeginInv ==
  ASSUME IInv, NEW e \in agenda, TryBegin(e)
  PROVE  IInv'
  <1> USE DEF IInv
  <1>1. /\ Fires(e) /\ Held /\ brownout = None /\ pc = "idle"
        /\ UNCHANGED <<releasedAt, brownout, cannotRestart, held, core,
                       reset, now, pin, starter, upSince>>
        /\ pc' \in {"idle", "begin"} /\ startedAt' \in {startedAt, now}
    BY DEF TryBegin, Fires
  <1>2. Released' = Released
    BY <1>1 DEF Released, reset
  <1>3. TypeOK'
    BY <1>1, FiresType DEF TypeOK, Entries, reset
  <1>4. InputsTell'
    <2>1. Released => starter # "request"
      BY DEF Released
    <2>2. starter = "request" => startedAt' = None
      BY <2>1 DEF InputsTell, TryBegin, DelayOut
    <2>3. QED
      BY <1>1, <1>2, <2>2 DEF InputsTell
  <1>5. CASE DelayOut
    <2>1. startedAt' = now /\ pc' = "begin" /\ ~Held'
      BY <1>5, Numbers DEF TryBegin, Held
    <2>2. CountedOnce' /\ ArmedOnce'
      BY <2>1 DEF CountedOnce, ArmedOnce
    <2>3. AtPoints' /\ CoreTold'
      BY <1>1, <2>1 DEF AtPoints, CoreTold
    <2>4. QED
      BY <1>3, <1>4, <2>2, <2>3
  <1>6. CASE ~DelayOut
    <2>1. UNCHANGED <<startedAt, pc>> /\ Held' = Held
      BY <1>6 DEF TryBegin, Held
    <2>2. CountedOnce'
      BY <1>1, <1>2, <2>1 DEF CountedOnce, Following
    <2>3. ArmedOnce'
      <3> SUFFICES ASSUME Released, releasedAt # None, Armed(upSince)
                   PROVE  Armed(upSince)'
        BY <1>1, <1>2, <2>1 DEF ArmedOnce
      <3>1. releasedAt = upSince /\ upSince \in Int
        BY <1>1, Numbers DEF CountedOnce
      <3>2. now < upSince + Delay
        BY <1>6, <3>1, Numbers DEF DelayOut
      <3>3. e # [at |-> upSince + Delay, period |-> 0]
        BY <3>1, <3>2, FiresType, <1>1, Numbers
      <3>4. QED
        BY <1>1, <3>3, FiresType DEF Armed
    <2>4. AtPoints' /\ CoreTold'
      BY <1>1, <1>2, <2>1 DEF AtPoints, CoreTold, reset
    <2>5. QED
      BY <1>3, <1>4, <2>2, <2>3, <2>4
  <1>7. QED
    BY <1>5, <1>6

(* Telling the core of its START, and then forwarding what it asked for.    *)
LEMMA BeginInv ==
  ASSUME IInv, StartCore \/ ForwardHeld
  PROVE  IInv'
  <1> USE DEF IInv
  <1>1. /\ pc = "begin" /\ pc' \in {"begin", "idle"} /\ ~Held
        /\ UNCHANGED <<reset, releasedAt, startedAt, brownout, cannotRestart,
                       now, pin, starter, past>>
        /\ core' = "running" /\ brownout = None
    BY DEF StartCore, ForwardHeld, gate, engine, AtPoints
  <1>2. agenda' \subseteq Entries /\ held' \subseteq held
    <2>1. Forwarded \subseteq Entries
      BY EntryType DEF TypeOK, Forwarded
    <2>2. agenda \subseteq Entries
      BY DEF TypeOK, Entries
    <2>3. QED
      BY <2>1, <2>2 DEF StartCore, ForwardHeld, gate, engine
  <1>3. Held' = Held /\ Released' = Released
    BY <1>1 DEF Held, Released, reset
  <1>4. TypeOK'
    BY <1>1, <1>2 DEF TypeOK, Entries, reset, past
  <1>5. InputsTell'
    BY <1>1, <1>3 DEF InputsTell, past
  <1>6. CountedOnce' /\ ArmedOnce'
    BY <1>1, <1>3 DEF CountedOnce, ArmedOnce
  <1>7. AtPoints' /\ CoreTold'
    BY <1>1, <1>3 DEF AtPoints, CoreTold
  <1>8. QED
    BY <1>4, <1>5, <1>6, <1>7

(* What the core asks for only adds to the wheel, or waits for the START.   *)
LEMMA AskInv ==
  ASSUME IInv, NEW r \in Requests, Ask(r)
  PROVE  IInv'
  <1> USE DEF IInv
  <1>1. UNCHANGED <<reset, releasedAt, startedAt, brownout, cannotRestart,
                    now, pc, pin, starter, core, upSince>>
    BY DEF Ask
  <1>2. /\ agenda \subseteq agenda' /\ agenda' \subseteq agenda \cup {Entry(r, now)}
        /\ held' \subseteq held \cup {r}
    BY DEF Ask
  <1>3. Held' = Held /\ Released' = Released
    BY <1>1 DEF Held, Released, reset
  <1>4. TypeOK'
    <2>1. agenda' \subseteq Entries
      BY <1>2, EntryType DEF TypeOK, Entries
    <2>2. held' \subseteq Requests
      BY <1>2 DEF TypeOK
    <2>3. QED
      BY <1>1, <2>1, <2>2 DEF TypeOK, Entries, reset
  <1>5. InputsTell'
    BY <1>1, <1>3 DEF InputsTell
  <1>6. CountedOnce'
    BY <1>1, <1>3 DEF CountedOnce, Following
  <1>7. ArmedOnce'
    BY <1>1, <1>2, <1>3 DEF ArmedOnce, Armed
  <1>8. AtPoints' /\ CoreTold'
    BY <1>1, <1>3 DEF AtPoints, CoreTold, reset
  <1>9. QED
    BY <1>4, <1>5, <1>6, <1>7, <1>8

(* The system goes live: a release the inputs hold already begins here.     *)
LEMMA RequestStartInv ==
  ASSUME IInv, RequestStart
  PROVE  IInv'
  <1> USE DEF IInv, RequestStart, reset, gate, engine
  <1>1. Held /\ releasedAt = None /\ now = 0 /\ ~Released /\ upSince = None
    BY DEF InputsTell, Held, Released
  <1>2. TypeOK'
    BY DEF TypeOK, UpSince
  <1>3. InputsTell'
    BY <1>1, Numbers DEF InputsTell, UpSince
  <1>4. CountedOnce'
    BY <1>1 DEF CountedOnce, UpSince
  <1>5. ArmedOnce'
    BY <1>1, Numbers DEF ArmedOnce, UpSince
  <1>6. AtPoints' /\ CoreTold'
    BY <1>1, Numbers DEF AtPoints, CoreTold, Held
  <1>7. QED
    BY <1>2, <1>3, <1>4, <1>5, <1>6

(* Time moves with nothing due, so never past the delay of a held core.     *)
LEMMA TickInv ==
  ASSUME IInv, Tick
  PROVE  /\ IInv'
         /\ Held /\ upSince # None => now < upSince + Delay
  <1> USE DEF IInv
  <1>1. /\ pc = "idle" /\ starter = "done" /\ now' = now + 1 /\ now < MaxTime
        /\ \A e \in agenda : now < e.at
        /\ UNCHANGED <<reset, gate, agenda, pc, pin, starter, core, past>>
    BY DEF Tick
  <1>2. Held' = Held /\ Released' = Released
    BY <1>1 DEF Held, Released, reset, gate
  <1>3. ASSUME Held, Released
        PROVE  /\ releasedAt # None /\ Armed(upSince)
               /\ upSince \in Int /\ now < upSince + Delay
    <2>1. releasedAt # None
      BY <1>1, <1>3 DEF CountedOnce, Following
    <2>2. Armed(upSince)
      BY <1>1, <1>3, <2>1 DEF ArmedOnce
    <2>3. QED
      BY <1>1, <2>1, <2>2, Numbers DEF Armed
  <1>4. TypeOK'
    <2>1. now' \in Times
      BY <1>1, GateAssumption DEF TypeOK, Times
    <2>2. QED
      BY <1>1, <2>1 DEF TypeOK, reset, gate, past
  <1>5. InputsTell'
    BY <1>1, <1>2, Numbers DEF InputsTell, gate, past
  <1>6. CountedOnce'
    BY <1>1, <1>2, <1>3 DEF CountedOnce, Following, gate, past
  <1>7. ArmedOnce'
    BY <1>1, <1>2, <1>3, Numbers DEF ArmedOnce, Armed, gate, past
  <1>8. AtPoints' /\ CoreTold'
    BY <1>1, <1>2 DEF AtPoints, CoreTold, reset, gate
  <1>9. QED
    BY <1>3, <1>4, <1>5, <1>6, <1>7, <1>8 DEF InputsTell

LEMMA NextInv ==
  ASSUME IInv, [Next]_vars
  PROVE  IInv'
  <1>1. CASE Sense
    BY <1>1, SenseInv
  <1>2. CASE WatchReset
    BY <1>2, WatchResetInv
  <1>3. CASE EnterReset
    BY <1>3, EnterResetInv
  <1>4. CASE Follow
    BY <1>4, FollowInv DEF Follow
  <1>5. CASE ArmDelay
    BY <1>5, ArmInv DEF ArmDelay
  <1>6. CASE WatchBrownout
    BY <1>6, BrownoutInv
  <1>7. CASE Wake
    BY <1>7, NotHeldWakeInv, TryBeginInv DEF Wake
  <1>8. CASE StartCore \/ ForwardHeld
    BY <1>8, BeginInv
  <1>9. CASE RequestStart
    BY <1>9, RequestStartInv
  <1>10. CASE StartFollow
    BY <1>10, FollowInv DEF StartFollow, engine
  <1>11. CASE StartArm
    BY <1>11, ArmInv DEF StartArm
  <1>12. CASE \E r \in Requests : Ask(r)
    BY <1>12, AskInv
  <1>13. CASE Tick
    BY <1>13, TickInv
  <1>14. CASE UNCHANGED vars
    BY <1>14
    DEF vars, reset, gate, engine, past, IInv, TypeOK, InputsTell, CountedOnce,
        ArmedOnce, Armed, AtPoints, CoreTold, Following, Held, Released
  <1>15. QED
    BY <1>1, <1>2, <1>3, <1>4, <1>5, <1>6, <1>7, <1>8, <1>9, <1>10, <1>11,
       <1>12, <1>13, <1>14 DEF Next

LEMMA InvAlways == Spec => []IInv
  <1>1. Init => IInv
    BY InitInv
  <1>2. IInv /\ [Next]_vars => IInv'
    BY NextInv
  <1>3. QED
    BY <1>1, <1>2, PTL DEF Spec

-----------------------------------------------------------------------------
(* Every reachable state of the gate is well typed.                         *)
THEOREM TypeAlways == Spec => []TypeOK
  <1>1. IInv => TypeOK
    BY DEF IInv
  <1>2. QED
    BY <1>1, InvAlways, PTL

(* try_begin and the watches: a held core is started exactly the restart    *)
(* delay after its inputs last released the reset, and time does not pass   *)
(* that instant with the core held.                                         *)
THEOREM StartsOnTimeAlways == Spec => StartsOnTime
  <1>1. ASSUME IInv, [Next]_vars, Held, ~Held'
        PROVE  upSince # None /\ now = upSince + Delay
    <2>1. PICK e \in agenda : TryBegin(e)
      BY <1>1
      DEF Next, vars, gate, engine, Held, Sense, SenseBank, SenseResn, SenseVdd,
          Delivered, WatchReset, EnterReset, Follow, FollowReset, ArmDelay,
          WatchBrownout, BrownedOut, Wake, IgnoreWake, WakeCore, StartCore, ForwardHeld,
          RequestStart, StartFollow, StartArm, Ask, Tick
    <2>2. DelayOut
      BY <1>1, <2>1 DEF TryBegin, Held
    <2>3. Released /\ releasedAt = upSince /\ upSince # None
      BY <1>1, <2>2 DEF DelayOut, IInv, CountedOnce
    <2>4. upSince + Delay <= now
      BY <2>2, <2>3 DEF DelayOut
    <2>5. now <= upSince + Delay
      BY <1>1, <2>3 DEF IInv, ArmedOnce
    <2>6. QED
      BY <1>1, <2>3, <2>4, <2>5, Numbers DEF IInv
  <1>2. ASSUME IInv, [Next]_vars, now' # now, Held, upSince # None
        PROVE  now < upSince + Delay
    <2>1. Tick
      BY <1>2
      DEF Next, vars, gate, engine, Sense, SenseBank, SenseResn, SenseVdd,
          Delivered, WatchReset, EnterReset, Follow, ArmDelay, WatchBrownout,
          Wake, IgnoreWake, WakeCore, TryBegin, Fires, StartCore, ForwardHeld,
          RequestStart, StartFollow, StartArm, Ask
    <2>2. QED
      BY <1>2, <2>1, TickInv
  <1>3. IInv /\ [Next]_vars =>
          [/\ Held /\ ~Held' => upSince # None /\ now = upSince + Delay
           /\ now' # now /\ Held /\ upSince # None => now < upSince + Delay]_vars
    BY <1>1, <1>2
  <1>4. QED
    BY <1>3, InvAlways, PTL DEF Spec, StartsOnTime

(* watch_reset, watch_brownout and the wake handler: a core is woken only   *)
(* while it runs, and one that a brownout stopped stays stopped.            *)
THEOREM OnlyRunningWokenAlways == Spec => OnlyRunningWoken
  <1>1. ASSUME IInv, NEW e \in agenda, WakeCore(e)
        PROVE  core = "running"
    BY <1>1 DEF IInv, CoreTold, WakeCore, Awake, Fires
  <1>2. ASSUME IInv, [Next]_vars, core = "stopped"
        PROVE  core' = "stopped"
    <2>1. core \notin {"held", "running"} /\ pc # "reset"
      BY <1>2 DEF IInv, CoreTold, AtPoints
    <2>2. QED
      BY <1>2, <2>1
      DEF Next, vars, gate, engine, Sense, SenseBank, SenseResn, SenseVdd,
          Delivered, WatchReset, EnterReset, Follow, ArmDelay, WatchBrownout,
          Wake, IgnoreWake, WakeCore, TryBegin, StartCore, ForwardHeld,
          RequestStart, StartFollow, StartArm, Ask, Tick, IInv, CoreTold, AtPoints
  <1>3. IInv /\ [Next]_vars =>
          [/\ (\E e \in agenda : WakeCore(e)) => core = "running"
           /\ core = "stopped" => core' = "stopped"]_vars
    BY <1>1, <1>2
  <1>4. QED
    BY <1>3, InvAlways, PTL DEF Spec, OnlyRunningWoken

-----------------------------------------------------------------------------
(* The rail.                                                                *)
Drives == {"released", "up", "discharge"}

Rails == [input : Int, ground : Int, enable : Int, level : {"unread", "low", "high"},
          inputUp : BOOLEAN, enabled : BOOLEAN, armedAt : Nat \cup {Chain!None},
          published : [kind : Drives, volts : Int]]

RailType ==
  /\ rail \in Rails
  /\ bench \in [input : Int, enable : Int, ground : Int, strap : Int]
  /\ now \in Nat /\ since \in {Chain!None} \cup Nat

(* The history goes with the latched conditions.                            *)
SinceMet == /\ since # Chain!None <=> Chain!Met(rail)
            /\ since # Chain!None => since <= now

(* The rail's three states: rising, risen and down.                         *)
Rising ==
  rail.armedAt # Chain!None =>
    /\ since # Chain!None /\ rail.armedAt = since + StartUp /\ ~Chain!IsUp(rail)
    /\ rail.armedAt >= now /\ <<"rail", rail.armedAt>> \in wakes

Risen ==
  since # Chain!None /\ rail.armedAt = Chain!None =>
    /\ Chain!IsUp(rail) /\ rail.published.volts = rail.ground + Chain!VSet /\ since + StartUp <= now

Down == since = Chain!None => rail.armedAt = Chain!None /\ ~Chain!IsUp(rail)

RailInv == RailType /\ SinceMet /\ Rising /\ Risen /\ Down

-----------------------------------------------------------------------------
LEMMA InitRail == Chain!Init => RailInv
<1> SUFFICES ASSUME Chain!Init PROVE RailInv
  OBVIOUS
<1>1. Chain!Released \in [kind : Drives, volts : Int] /\ Chain!Released.kind # "up"
  BY DEF Chain!Released, Chain!Drive, Drives
<1>2. RailType
  BY <1>1 DEF Chain!Init, RailType, Rails, Chain!None, Chain!Open
<1>3. ~Chain!Met(rail) /\ ~Chain!IsUp(rail) /\ rail.armedAt = Chain!None /\ since = Chain!None
  BY <1>1 DEF Chain!Init, Chain!Met, Chain!IsUp
<1> QED BY <1>2, <1>3 DEF RailInv, SinceMet, Rising, Risen, Down

(* The latches leave the output and the armed instant alone.                *)
Kept(r, s) == /\ s \in Rails /\ s.armedAt = r.armedAt /\ s.published = r.published
              /\ s.ground = r.ground

LEMMA LatchInputIs == ASSUME NEW r \in Rails PROVE Kept(r, Chain!LatchInput(r))
BY DEF Kept, Chain!LatchInput, Rails

LEMMA LatchEnableIs == ASSUME NEW r \in Rails PROVE Kept(r, Chain!LatchEnable(r))
<1>1. Chain!EnableLevel(r) \in {"unread", "low", "high"}
  BY DEF Rails, Chain!EnableLevel
<1>2. CASE r.enable # Chain!Open
  BY <1>1, <1>2 DEF Kept, Rails, Chain!LatchEnable
<1>3. CASE r.enable = Chain!Open
  BY <1>3 DEF Kept, Rails, Chain!LatchEnable
<1> QED BY <1>2, <1>3

(* What evaluate makes of a record.                                         *)
EvaluatedTo(r, e) ==
  /\ e \in Rails /\ (Chain!Met(e) <=> Chain!Met(r)) /\ e.ground = r.ground
  /\ ~Chain!Met(r) => e.armedAt = Chain!None /\ ~Chain!IsUp(e)
  /\ Chain!Met(r) /\ (Chain!IsUp(r) \/ StartUp = 0) =>
       /\ Chain!IsUp(e) /\ e.published.volts = r.ground + Chain!VSet
       /\ e.armedAt = IF Chain!IsUp(r) THEN r.armedAt ELSE Chain!None
  /\ Chain!Met(r) /\ ~Chain!IsUp(r) /\ StartUp # 0 =>
       /\ ~Chain!IsUp(e) /\ e.published = r.published
       /\ e.armedAt = IF r.armedAt = Chain!None THEN now + StartUp ELSE r.armedAt

LEMMA EvaluateIs ==
  ASSUME NEW r \in Rails, now \in Nat
  PROVE  EvaluatedTo(r, Chain!Evaluate(r))
<1> USE PowerUpAssumption DEF Chain!PowerAssumption, Rails, Chain!Publish
<1> DEFINE up == Chain!Drive("up", r.ground + Chain!VSet)
           down == IF Discharge /\ r.ground # Chain!Open /\ r.inputUp THEN Chain!Drive("discharge", r.ground)
                   ELSE Chain!Released
<1>0. /\ up \in [kind : Drives, volts : Int] /\ up.kind = "up" /\ up.volts = r.ground + Chain!VSet
      /\ down \in [kind : Drives, volts : Int] /\ down.kind # "up"
  BY DEF Chain!Released, Chain!Drive, Drives, Chain!VSet
<1>1. CASE Chain!Met(r) /\ Chain!IsUp(r)
  <2>1. Chain!Evaluate(r) = [r EXCEPT !.published = up]
    BY <1>1 DEF Chain!Evaluate
  <2> HIDE DEF up
  <2> QED BY <1>0, <1>1, <2>1 DEF EvaluatedTo, Chain!Met, Chain!IsUp
<1>2. CASE Chain!Met(r) /\ ~Chain!IsUp(r) /\ StartUp = 0
  <2>1. Chain!Evaluate(r) = [r EXCEPT !.armedAt = Chain!None, !.published = up]
    BY <1>2 DEF Chain!Evaluate
  <2> HIDE DEF up
  <2> QED BY <1>0, <1>2, <2>1 DEF EvaluatedTo, Chain!Met, Chain!IsUp
<1>3. CASE Chain!Met(r) /\ ~Chain!IsUp(r) /\ StartUp # 0
  <2>1. Chain!Evaluate(r) = IF r.armedAt = Chain!None THEN [r EXCEPT !.armedAt = now + StartUp] ELSE r
    BY <1>3 DEF Chain!Evaluate
  <2> QED BY <1>3, <2>1 DEF EvaluatedTo, Chain!Met, Chain!IsUp
<1>4. CASE ~Chain!Met(r)
  <2>1. Chain!Evaluate(r) = [r EXCEPT !.armedAt = Chain!None, !.published = down]
    BY <1>4 DEF Chain!Evaluate
  <2> HIDE DEF down
  <2> QED BY <1>0, <1>4, <2>1 DEF EvaluatedTo, Chain!Met, Chain!IsUp
<1> QED BY <1>1, <1>2, <1>3, <1>4

(* A handler that ends in evaluate.                                         *)
LEMMA SenseKeeps ==
  ASSUME NEW r \in Rails, RailInv, Chain!RailIs(Chain!Evaluate(r)),
         r.armedAt = rail.armedAt, r.published = rail.published
  PROVE  RailInv'
<1> DEFINE e == Chain!Evaluate(r)
<1>1. EvaluatedTo(r, e)
  BY EvaluateIs DEF RailInv, RailType
<1>2. /\ rail' = e /\ UNCHANGED <<bench, now>>
      /\ wakes' = IF e.armedAt # Chain!None /\ rail.armedAt = Chain!None
                  THEN wakes \cup {<<"rail", e.armedAt>>} ELSE wakes
      /\ since' = IF ~Chain!Met(e) THEN Chain!None ELSE IF since = Chain!None THEN now ELSE since
  BY DEF Chain!RailIs
<1> HIDE DEF e
<1>3. Chain!IsUp(r) <=> Chain!IsUp(rail)
  BY DEF Chain!IsUp
<1>4. RailType'
  BY <1>1, <1>2 DEF RailInv, RailType, EvaluatedTo
<1>5. SinceMet'
  <2>1. Chain!Met(rail)' <=> Chain!Met(e)
    BY <1>2 DEF Chain!Met
  <2> QED BY <2>1, <1>2 DEF RailInv, RailType, SinceMet, Chain!None
<1>6. Rising' /\ Risen' /\ Down'
  <2>1. (Chain!IsUp(rail)' <=> Chain!IsUp(e)) /\ rail.published.volts' = e.published.volts
    BY <1>2 DEF Chain!IsUp
  <2>2. CASE ~Chain!Met(r)
    <3>1. e.armedAt = Chain!None /\ ~Chain!IsUp(e) /\ since' = Chain!None
      BY <1>1, <1>2, <2>2 DEF EvaluatedTo
    <3> QED BY <1>2, <2>1, <3>1 DEF Rising, Risen, Down
  <2>3. CASE Chain!Met(r) /\ (Chain!IsUp(r) \/ StartUp = 0)
    <3>1. /\ Chain!IsUp(e) /\ e.published.volts = e.ground + Chain!VSet
          /\ e.armedAt = IF Chain!IsUp(r) THEN r.armedAt ELSE Chain!None
          /\ since' = IF since = Chain!None THEN now ELSE since
      BY <1>1, <1>2, <2>3 DEF EvaluatedTo
    <3>2. e.armedAt = Chain!None /\ since' # Chain!None /\ since' + StartUp <= now
      BY <1>3, <2>3, <3>1, PowerUpAssumption
         DEF Chain!PowerAssumption, RailInv, RailType, Rails, SinceMet, Rising, Risen, Down, Chain!None
    <3> QED BY <1>2, <2>1, <3>1, <3>2 DEF Rising, Risen, Down
  <2>4. CASE Chain!Met(r) /\ ~Chain!IsUp(r) /\ StartUp # 0
    <3>1. /\ ~Chain!IsUp(e) /\ e.armedAt = IF r.armedAt = Chain!None THEN now + StartUp ELSE r.armedAt
          /\ since' = IF since = Chain!None THEN now ELSE since
      BY <1>1, <1>2, <2>4 DEF EvaluatedTo
    <3>2. CASE since = Chain!None
      <4>1. rail.armedAt = Chain!None /\ since' = now /\ e.armedAt = now + StartUp
        BY <3>1, <3>2 DEF RailInv, Down
      <4>2. e.armedAt # Chain!None /\ since' # Chain!None /\ e.armedAt >= now
        BY <4>1, PowerUpAssumption DEF Chain!PowerAssumption, RailInv, RailType, Chain!None
      <4> QED BY <1>2, <2>1, <3>1, <4>1, <4>2 DEF Rising, Risen, Down
    <3>3. CASE since # Chain!None
      <4>1. rail.armedAt # Chain!None /\ since' = since /\ e.armedAt = rail.armedAt
        BY <1>3, <2>4, <3>1, <3>3 DEF RailInv, Risen
      <4> QED BY <1>2, <2>1, <3>1, <3>3, <4>1 DEF RailInv, Rising, Risen, Down
    <3> QED BY <3>2, <3>3
  <2> QED BY <2>2, <2>3, <2>4
<1> QED BY <1>4, <1>5, <1>6 DEF RailInv

LEMMA WakeKeeps == RailInv /\ Chain!WakeRail => RailInv'
<1> SUFFICES ASSUME RailInv, Chain!WakeRail PROVE RailInv'
  OBVIOUS
<1>1. /\ <<"rail", now>> \in wakes /\ wakes' = wakes \ {<<"rail", now>>}
      /\ rail' = Chain!OnRailWake(rail) /\ UNCHANGED <<bench, now, since>>
  BY DEF Chain!WakeRail
<1> USE DEF RailInv, RailType
<1>2. CASE rail.armedAt = Chain!None \/ now < rail.armedAt
  <2>1. rail' = rail
    BY <1>1, <1>2 DEF Chain!OnRailWake
  <2> QED BY <1>1, <1>2, <2>1 DEF SinceMet, Rising, Risen, Down, Rails, Chain!Met, Chain!IsUp
<1>3. CASE rail.armedAt # Chain!None /\ ~(now < rail.armedAt)
  <2>1. since # Chain!None /\ rail.armedAt = since + StartUp /\ since + StartUp <= now /\ Chain!Met(rail)
    BY <1>3 DEF Rising, SinceMet, Rails
  <2> DEFINE up == Chain!Drive("up", rail.ground + Chain!VSet)
  <2>2. rail' = [rail EXCEPT !.armedAt = Chain!None, !.published = up]
    BY <1>1, <1>3, <2>1 DEF Chain!OnRailWake, Chain!Publish
  <2>4. up \in [kind : Drives, volts : Int] /\ up.kind = "up" /\ up.volts = rail.ground + Chain!VSet
    BY DEF Rails, Chain!Drive, Drives, Chain!VSet
  <2> HIDE DEF up
  <2>3. /\ rail' \in Rails /\ Chain!IsUp(rail)' /\ rail.armedAt' = Chain!None /\ (Chain!Met(rail)' <=> Chain!Met(rail))
        /\ rail.published.volts' = rail.ground' + Chain!VSet
    BY <2>2, <2>4 DEF Rails, Chain!IsUp, Chain!Met
  <2> QED BY <1>1, <2>1, <2>3 DEF SinceMet, Rising, Risen, Down
<1> QED BY <1>2, <1>3

(* A step of the rail's, of its ground's, its input's or its enable's sense. *)
LEMMA RailSenses ==
  ASSUME RailInv, Chain!SenseGround \/ Chain!SenseInput \/ Chain!SenseEnable
  PROVE  RailInv'
<1>0. /\ rail \in Rails /\ Chain!Sensed.ground \in Int
      /\ Chain!Sensed.input \in Int /\ Chain!Sensed.enable \in Int
  BY DEF RailInv, RailType, Chain!Sensed, Chain!Above, Chain!Open
<1>1. CASE Chain!SenseGround
  <2> DEFINE r == [rail EXCEPT !.ground = Chain!Sensed.ground]
  <2>1. r \in Rails /\ r.armedAt = rail.armedAt /\ r.published = rail.published
    BY <1>0 DEF Rails
  <2>2. Kept(r, Chain!LatchInput(r)) /\ Kept(Chain!LatchInput(r), Chain!LatchEnable(Chain!LatchInput(r)))
    BY <2>1, LatchInputIs, LatchEnableIs DEF Kept
  <2>3. Chain!RailIs(Chain!Evaluate(Chain!LatchEnable(Chain!LatchInput(r))))
    BY <1>1 DEF Chain!SenseGround
  <2> HIDE DEF r
  <2> QED BY <2>1, <2>2, <2>3, SenseKeeps DEF Kept
<1>2. CASE Chain!SenseInput
  <2> DEFINE r == [rail EXCEPT !.input = Chain!Sensed.input]
  <2>1. r \in Rails /\ r.armedAt = rail.armedAt /\ r.published = rail.published
    BY <1>0 DEF Rails
  <2>2. Kept(r, Chain!LatchInput(r))
    BY <2>1, LatchInputIs
  <2>3. Chain!RailIs(Chain!Evaluate(Chain!LatchInput(r)))
    BY <1>2 DEF Chain!SenseInput
  <2> HIDE DEF r
  <2> QED BY <2>1, <2>2, <2>3, SenseKeeps DEF Kept
<1>3. CASE Chain!SenseEnable
  <2> DEFINE r == [rail EXCEPT !.enable = Chain!Sensed.enable]
  <2>1. r \in Rails /\ r.armedAt = rail.armedAt /\ r.published = rail.published
    BY <1>0 DEF Rails
  <2>2. Kept(r, Chain!LatchEnable(r))
    BY <2>1, LatchEnableIs
  <2>3. Chain!RailIs(Chain!Evaluate(Chain!LatchEnable(r)))
    BY <1>3 DEF Chain!SenseEnable
  <2> HIDE DEF r
  <2> QED BY <2>1, <2>2, <2>3, SenseKeeps DEF Kept
<1> QED BY <1>1, <1>2, <1>3

-----------------------------------------------------------------------------
(* The detector.  A crossing it has still to answer is its last one, and    *)
(* its wake is armed; with none, the output has the last one's answer.      *)
Pendings == [at : Int, asserted : BOOLEAN]

Detectors ==
  [vcc : Int, vss : Int, verdict : {"undefined", "asserted", "released"},
   decidedAt : Int, pending : Pendings, published : [kind : {"released", "sink"}, volts : Int]]

Answer(d) == IF d.verdict = "asserted" THEN Chain!SinkDrive(d) ELSE Chain!Released

AnswersLast(d) ==
  IF d.pending = Chain!NotPending THEN d.published = Answer(d)
  ELSE /\ d.verdict # "undefined" /\ (d.pending.asserted <=> d.verdict = "asserted")
       /\ d.pending.at = d.decidedAt + (IF d.pending.asserted THEN TPd ELSE TPr)
       /\ d.pending.at >= now

DetectorInv ==
  /\ now \in Nat /\ bench.ground \in Int
  /\ det \in Detectors /\ AnswersLast(det)
  /\ det.pending # Chain!NotPending => <<"detector", det.pending.at>> \in wakes

LEMMA InitDetector == SystemInit => DetectorInv
BY DEF SystemInit, Chain!Init, DetectorInv, Detectors, Pendings, AnswersLast, Answer,
   Chain!NotPending, Chain!Released, Chain!Drive, Chain!Open, Chain!None

(* A drive of the detector's output.                                        *)
LEMMA AnswerType ==
  ASSUME NEW d, d.vss \in Int
  PROVE  /\ Chain!SinkDrive(d) \in [kind : {"released", "sink"}, volts : Int]
         /\ Chain!Released \in [kind : {"released", "sink"}, volts : Int]
BY DEF Chain!SinkDrive, Chain!Released, Chain!Drive

(* What on_supply makes of the detector, the last crossing's answer or a    *)
(* crossing to answer; a crossing that is kept has its wake already.        *)
LEMMA OnSupplyIs ==
  ASSUME now \in Nat, NEW d \in Detectors,
         d.pending # Chain!NotPending \/ d.verdict # "asserted" => AnswersLast(d)
  PROVE  /\ Chain!OnSupply(d) \in Detectors /\ AnswersLast(Chain!OnSupply(d))
<1> DEFINE next == Chain!Verdict(d)
           t == IF next # d.verdict THEN now ELSE d.decidedAt
           e == [d EXCEPT !.verdict = next, !.decidedAt = t]
           settled == [e EXCEPT !.pending = Chain!NotPending]
<1>1. next \in {"undefined", "asserted", "released"} /\ t \in Int
  BY DEF Chain!Verdict, Detectors
<1>2. /\ e \in Detectors /\ e.verdict = next /\ e.decidedAt = t
      /\ e.pending = d.pending /\ e.published = d.published /\ e.vss = d.vss
  BY <1>1 DEF Detectors
<1>3. Chain!SinkDrive(e) \in [kind : {"released", "sink"}, volts : Int]
      /\ Chain!Released \in [kind : {"released", "sink"}, volts : Int]
  BY <1>2, AnswerType DEF Detectors
<1>4. Chain!NotPending \in Pendings /\ TPd \in Nat /\ TPr \in Nat
  BY PowerUpAssumption DEF Chain!PowerAssumption, Pendings, Chain!NotPending, Chain!None
<1>5. Chain!OnSupply(d) =
        CASE next = "undefined" -> [settled EXCEPT !.published = Chain!Released]
          [] next = "asserted" /\ d.verdict = "undefined" -> [settled EXCEPT !.published = Chain!SinkDrive(e)]
          [] next = "asserted" /\ d.verdict = "released"  -> Chain!Schedule(e, now + TPd, TRUE)
          [] next = "asserted" /\ d.verdict = "asserted" ->
               IF e.pending = Chain!NotPending THEN [e EXCEPT !.published = Chain!SinkDrive(e)] ELSE e
          [] next = "released" /\ d.verdict = "asserted"  -> Chain!Schedule(e, now + TPr, FALSE)
          [] next = "released" /\ d.verdict = "undefined" -> [settled EXCEPT !.published = Chain!Released]
          [] next = "released" /\ d.verdict = "released"  -> e
  BY DEF Chain!OnSupply
<1>7. /\ settled \in Detectors /\ settled.pending = Chain!NotPending /\ settled.verdict = next
      /\ settled.vss = e.vss
  <2> DEFINE none == Chain!NotPending
  <2>1. none \in Pendings /\ settled = [e EXCEPT !.pending = none]
    BY <1>4
  <2> HIDE DEF next, t, e, none, settled
  <2>2. /\ settled \in Detectors /\ settled.pending = none /\ settled.verdict = e.verdict
        /\ settled.vss = e.vss
    BY <1>2, <2>1 DEF Detectors
  <2> QED BY <1>2, <2>2 DEF none
<1> HIDE DEF next, t, e, settled
<1>8. \A x \in Detectors : x.vss = e.vss => Chain!SinkDrive(x) = Chain!SinkDrive(e)
  BY DEF Chain!SinkDrive
<1>9. ASSUME NEW x \in Detectors, x.pending = Chain!NotPending, x.verdict = next, x.vss = e.vss,
             NEW o \in [kind : {"released", "sink"}, volts : Int],
             o = IF next = "asserted" THEN Chain!SinkDrive(e) ELSE Chain!Released
      PROVE  /\ [x EXCEPT !.published = o] \in Detectors
             /\ AnswersLast([x EXCEPT !.published = o])
  <2> DEFINE y == [x EXCEPT !.published = o]
  <2>1. /\ y \in Detectors /\ y.published = o /\ y.verdict = next
        /\ y.pending = Chain!NotPending /\ y.vss = e.vss
    BY <1>9 DEF Detectors
  <2> HIDE DEF y
  <2>2. AnswersLast(y)
    BY <1>8, <1>9, <2>1 DEF AnswersLast, Answer
  <2> QED BY <2>1, <2>2 DEF y
<1>10. ASSUME NEW b \in BOOLEAN, b <=> next = "asserted", next # "undefined", next # d.verdict
       PROVE  LET s == Chain!Schedule(e, now + (IF b THEN TPd ELSE TPr), b)
              IN  s \in Detectors /\ AnswersLast(s)
  <2> DEFINE p == [at |-> now + (IF b THEN TPd ELSE TPr), asserted |-> b]
             s == [e EXCEPT !.pending = p]
  <2>1. /\ p \in Pendings /\ p.at = now + (IF b THEN TPd ELSE TPr) /\ p.asserted = b
        /\ p # Chain!NotPending
    BY <1>4 DEF Pendings, Chain!NotPending, Chain!None
  <2> HIDE DEF p
  <2>2. /\ s \in Detectors /\ s.pending = p /\ s.verdict = next /\ s.decidedAt = now
    BY <1>2, <1>10, <2>1 DEF t, Detectors
  <2>3. Chain!Schedule(e, now + (IF b THEN TPd ELSE TPr), b) = s
    BY DEF Chain!Schedule, p
  <2> HIDE DEF s
  <2>4. AnswersLast(s)
    BY <1>4, <1>10, <2>1, <2>2 DEF AnswersLast
  <2> QED BY <2>2, <2>3, <2>4
<1>11. CASE next = d.verdict /\ d.pending # Chain!NotPending /\ next # "undefined"
  <2>1. Chain!OnSupply(d) = e
    BY <1>1, <1>2, <1>5, <1>11
  <2>2. t = d.decidedAt
    BY <1>11 DEF t
  <2>3. AnswersLast(e)
    BY <1>2, <1>11, <2>2 DEF AnswersLast
  <2> QED BY <1>2, <2>1, <2>3
<1>12. CASE next = "released" /\ d.verdict = "released" /\ d.pending = Chain!NotPending
  <2>1. Chain!OnSupply(d) = e
    BY <1>1, <1>2, <1>5, <1>12
  <2>2. AnswersLast(e)
    BY <1>2, <1>12 DEF AnswersLast, Answer
  <2> QED BY <1>2, <2>1, <2>2
<1>13. CASE next = "asserted" /\ d.verdict = "asserted" /\ d.pending = Chain!NotPending
  <2>1. Chain!OnSupply(d) = [e EXCEPT !.published = Chain!SinkDrive(e)]
    BY <1>2, <1>5, <1>13
  <2> QED BY <1>2, <1>3, <1>9, <1>13, <2>1
<1>14. CASE next = "undefined" \/ (next = "released" /\ d.verdict = "undefined")
  <2>1. Chain!OnSupply(d) = [settled EXCEPT !.published = Chain!Released]
    BY <1>5, <1>14
  <2> QED BY <1>3, <1>7, <1>9, <1>14, <2>1
<1>15. CASE next = "asserted" /\ d.verdict = "undefined"
  <2>1. Chain!OnSupply(d) = [settled EXCEPT !.published = Chain!SinkDrive(e)]
    BY <1>5, <1>15
  <2> QED BY <1>3, <1>7, <1>9, <1>15, <2>1
<1>16. CASE next = "asserted" /\ d.verdict = "released"
  <2>1. Chain!OnSupply(d) = Chain!Schedule(e, now + TPd, TRUE)
    BY <1>5, <1>16
  <2> QED BY <1>10, <1>16, <2>1
<1>17. CASE next = "released" /\ d.verdict = "asserted"
  <2>1. Chain!OnSupply(d) = Chain!Schedule(e, now + TPr, FALSE)
    BY <1>5, <1>17
  <2> QED BY <1>10, <1>17, <2>1
<1>18. d.verdict \in {"undefined", "asserted", "released"}
  BY DEF Detectors
<1> QED BY <1>1, <1>11, <1>12, <1>13, <1>14, <1>15, <1>16, <1>17, <1>18

(* A sense of the detector's supply or of its ground.                       *)
LEMMA DetectorSenses ==
  ASSUME RailInv, DetectorInv, Chain!SenseVss \/ Chain!SenseVcc
  PROVE  DetectorInv'
<1>1. PICK d \in Detectors :
        /\ d.pending = det.pending /\ d.verdict = det.verdict /\ d.published = det.published
        /\ d.decidedAt = det.decidedAt
        /\ Chain!DetectorIs(Chain!OnSupply(d))
        /\ d.verdict # "asserted" => Answer(d) = Answer(det)
  <2>1. CASE Chain!SenseVss
    <3> DEFINE d == [det EXCEPT !.vss = Chain!Sensed.vss]
    <3>1. Chain!Sensed.vss \in Int /\ Chain!DetectorIs(Chain!OnSupply(d))
      BY <2>1 DEF DetectorInv, Chain!Sensed, Chain!SenseVss
    <3>2. /\ d \in Detectors /\ d.pending = det.pending /\ d.verdict = det.verdict
          /\ d.published = det.published /\ d.decidedAt = det.decidedAt
      BY <3>1 DEF DetectorInv, Detectors
    <3> HIDE DEF d
    <3> QED BY <3>1, <3>2 DEF Answer
  <2>2. CASE Chain!SenseVcc
    <3> DEFINE d == [det EXCEPT !.vcc = Chain!Sensed.vcc]
    <3>1. Chain!Sensed.vcc \in Int /\ Chain!DetectorIs(Chain!OnSupply(d))
      BY <2>2 DEF Chain!SenseVcc, RailInv, RailType, Rails, Chain!Sensed, Chain!Supply, Chain!Open
    <3>2. /\ d \in Detectors /\ d.pending = det.pending /\ d.verdict = det.verdict
          /\ d.published = det.published /\ d.decidedAt = det.decidedAt
      BY <3>1 DEF DetectorInv, Detectors
    <3> HIDE DEF d
    <3> QED BY <3>1, <3>2 DEF Answer
  <2> QED BY <2>1, <2>2
<1>2. d.pending # Chain!NotPending \/ d.verdict # "asserted" => AnswersLast(d)
  BY <1>1 DEF DetectorInv, AnswersLast, Answer
<1> DEFINE e == Chain!OnSupply(d)
<1>3. e \in Detectors /\ AnswersLast(e)
  BY <1>2, OnSupplyIs DEF DetectorInv
<1>4. /\ det' = e /\ UNCHANGED <<bench, now>>
      /\ wakes' = IF e.pending # Chain!NotPending /\ e.pending # det.pending
                  THEN wakes \cup {<<"detector", e.pending.at>>} ELSE wakes
  BY <1>1 DEF Chain!DetectorIs
<1> HIDE DEF e
<1>5. e.pending # Chain!NotPending => <<"detector", e.pending.at>> \in wakes'
  BY <1>4 DEF DetectorInv
<1>6. AnswersLast(det)'
  BY <1>3, <1>4 DEF AnswersLast, Answer, Chain!SinkDrive
<1> QED BY <1>3, <1>4, <1>5, <1>6 DEF DetectorInv

(* The wake of the crossing to answer: others are ignored.                  *)
LEMMA DetectorWakes ==
  ASSUME DetectorInv, Chain!WakeDetector
  PROVE  DetectorInv'
<1>1. /\ det' = Chain!OnDetectorWake(det) /\ wakes' = wakes \ {<<"detector", now>>}
      /\ UNCHANGED <<bench, now>> /\ det \in Detectors
  BY DEF Chain!WakeDetector, DetectorInv
<1>2. CASE det.pending = Chain!NotPending \/ now < det.pending.at
  <2>1. det' = det
    BY <1>1, <1>2 DEF Chain!OnDetectorWake
  <2>2. det.pending # Chain!NotPending => det.pending.at # now
    BY <1>2 DEF DetectorInv, Detectors, Pendings
  <2> QED BY <1>1, <2>1, <2>2 DEF DetectorInv, AnswersLast, Answer, Chain!SinkDrive
<1>3. CASE det.pending # Chain!NotPending /\ ~(now < det.pending.at)
  <2> DEFINE settled == [det EXCEPT !.pending = Chain!NotPending]
             o == Answer(det)
             d == [settled EXCEPT !.published = o]
  <2>1. /\ det.verdict \in {"asserted", "released"}
        /\ det.pending.asserted <=> det.verdict = "asserted"
    BY <1>3 DEF DetectorInv, AnswersLast, Detectors
  <2>2. settled \in Detectors /\ settled.verdict = det.verdict /\ settled.vss = det.vss
        /\ settled.pending = Chain!NotPending
    <3> DEFINE none == Chain!NotPending
    <3>1. none \in Pendings
      BY DEF Pendings, Chain!NotPending, Chain!None
    <3> HIDE DEF none
    <3>2. LET s == [det EXCEPT !.pending = none]
          IN  s \in Detectors /\ s.verdict = det.verdict /\ s.vss = det.vss /\ s.pending = none
      BY <1>1, <3>1 DEF Detectors
    <3> QED BY <3>2 DEF none
  <2>3. o \in [kind : {"released", "sink"}, volts : Int]
    BY <1>1, AnswerType DEF Answer, Detectors
  <2>4. Chain!SinkDrive(settled) = Chain!SinkDrive(det)
    BY <2>2 DEF Chain!SinkDrive
  <2>5. det' = d
    BY <1>1, <1>3, <2>1 DEF Chain!OnDetectorWake, Answer
  <2> HIDE DEF settled, o
  <2>6. /\ d \in Detectors /\ d.published = o /\ d.pending = Chain!NotPending
        /\ d.verdict = det.verdict /\ d.vss = det.vss
    BY <2>2, <2>3 DEF Detectors
  <2> HIDE DEF d
  <2>7. Answer(d) = o
    BY <2>6 DEF Answer, Chain!SinkDrive, o
  <2>8. AnswersLast(det)'
    BY <2>5, <2>6, <2>7 DEF AnswersLast, Answer, Chain!SinkDrive
  <2> QED BY <1>1, <2>5, <2>6, <2>8 DEF DetectorInv
<1> QED BY <1>2, <1>3

-----------------------------------------------------------------------------
(* The module.                                                              *)

(* What the inputs a running core was last told of say of the thread that   *)
(* will tell it of them: a RESN that reads low is on its way to the watch   *)
(* of the reset, a VDD out of its window to the watch of the brownout.      *)
Running == ~Held /\ brownout = None /\ cannotRestart = "no"

Watched ==
  Running =>
    /\ pc \in {"watch", "reset"} => pin = "reset"
    /\ resn = "low" => pc \in {"watch", "reset"}
    /\ vdd = "out" => pc \in {"watch", "reset", "follow", "brownout"} /\ pin = "reset"

LEMMA WatchedInv ==
  ASSUME IInv, Watched, [Next]_vars
  PROVE  Watched'
<1> USE DEF Watched, Running, Held, reset, gate, engine, past
<1>1. CASE Sense
  <2>1. /\ pc = "idle" /\ UNCHANGED gate
    BY <1>1 DEF Sense, SenseBank, SenseResn, SenseVdd, Delivered
  <2>2. CASE \E b \in Banks : SenseBank(b)
    BY <2>1, <2>2 DEF SenseBank, Delivered
  <2>3. CASE pc' = "watch" /\ pin' = "reset"
    BY <2>1, <2>3
  <2> QED BY <1>1, <2>2, <2>3 DEF Sense, SenseResn, SenseVdd, Delivered
<1>2. CASE WatchReset
  BY <1>2 DEF WatchReset, ResetRead, IInv, TypeOK
<1>3. CASE EnterReset
  BY <1>3 DEF EnterReset
<1>4. CASE Follow
  BY <1>4 DEF Follow, FollowReset, AfterFollow, Counted
<1>5. CASE ArmDelay
  BY <1>5 DEF ArmDelay, IInv, AtPoints
<1>6. CASE WatchBrownout
  BY <1>6, Numbers DEF WatchBrownout, BrownedOut, IInv
<1>7. CASE Wake
  <2>1. PICK e \in agenda : IgnoreWake(e) \/ WakeCore(e) \/ TryBegin(e)
    BY <1>7 DEF Wake
  <2>2. CASE IgnoreWake(e) \/ WakeCore(e)
    BY <2>2 DEF IgnoreWake, WakeCore, Fires
  <2>3. CASE TryBegin(e)
    BY <2>3 DEF TryBegin, Fires, DelayOut, Released
  <2> QED BY <2>1, <2>2, <2>3
<1>8. CASE StartCore
  BY <1>8 DEF StartCore
<1>9. CASE ForwardHeld
  BY <1>9 DEF ForwardHeld
<1>10. CASE RequestStart
  BY <1>10 DEF RequestStart
<1>11. CASE StartFollow
  BY <1>11 DEF StartFollow, FollowReset
<1>12. CASE StartArm
  BY <1>12 DEF StartArm
<1>13. CASE \E r \in Requests : Ask(r)
  BY <1>13 DEF Ask
<1>14. CASE Tick
  BY <1>14 DEF Tick
<1>15. CASE UNCHANGED vars
  BY <1>15 DEF vars
<1> QED
  BY <1>1, <1>2, <1>3, <1>4, <1>5, <1>6, <1>7, <1>8, <1>9, <1>10, <1>11, <1>12,
     <1>13, <1>14, <1>15 DEF Next

LEMMA GateSteps == [SystemNext]_<<vars, chain, wiring>> => [Next]_vars
<1> SUFFICES ASSUME [SystemNext]_<<vars, chain, wiring>> PROVE [Next]_vars
  OBVIOUS
<1>1. CASE SensesBank \/ SensesResn \/ SensesVdd
  <2>1. Resn \in {"low", "high", "none"} /\ Vdd \in {"in", "out"}
    BY DEF Resn, Vdd
  <2>2. Sense
    BY <1>1, <2>1 DEF SensesBank, SensesResn, SensesVdd, Sense
  <2> QED BY <2>2 DEF Next
<1>2. CASE PackageStep
  BY <1>2 DEF PackageStep, Next
<1>3. CASE ChainStep \/ BenchStep \/ Push
  <2>1. UNCHANGED now /\ UNCHANGED package
    BY <1>3 DEF ChainStep, BenchStep, Push,
       Chain!SenseGround, Chain!SenseInput, Chain!SenseEnable, Chain!RailIs,
       Chain!SenseVss, Chain!SenseVcc, Chain!DetectorIs,
       Chain!WakeRail, Chain!WakeDetector, Chain!Move
  <2> QED BY <2>1 DEF package, vars, engine
<1>4. CASE Clock
  BY <1>4 DEF Clock, Next
<1>5. CASE UNCHANGED <<vars, chain, wiring>>
  BY <1>5
<1> QED BY <1>1, <1>2, <1>3, <1>4, <1>5 DEF SystemNext

(* The module's START gate is a START gate: P2Package::attach.              *)
THEOREM ImplementsStartGate == SystemSpec => Spec
<1>1. SystemInit => Init
  BY DEF SystemInit
<1> QED BY <1>1, GateSteps, PTL DEF SystemSpec, Spec

(* The core starts on time on the module, whatever its supply does:         *)
(* P2Package::try_begin.                                                    *)
THEOREM SystemStartsOnTime == SystemSpec => StartsOnTime
BY ImplementsStartGate, StartsOnTimeAlways, PTL

(* Nor does a neighbour wake a core that does not run: P2Package::attach.   *)
THEOREM SystemOnlyRunningWoken == SystemSpec => OnlyRunningWoken
BY ImplementsStartGate, OnlyRunningWokenAlways, PTL

(* A step of the package's, of the button's or of the thread that tells it  *)
(* of its nets leaves the rail and the detector as they are.                *)
LEMMA ChainAlone ==
  ASSUME SensesBank \/ SensesResn \/ SensesVdd \/ PackageStep \/ Push
  PROVE  UNCHANGED <<chain, now>>
BY DEF SensesBank, SensesResn, SensesVdd, SenseBank, SenseResn, SenseVdd, Delivered,
   PackageStep, WatchReset, EnterReset, Follow, ArmDelay, WatchBrownout, Wake,
   IgnoreWake, WakeCore, TryBegin, Fires, StartCore, ForwardHeld, RequestStart,
   StartFollow, StartArm, Ask, Push, engine

LEMMA ChainInv ==
  ASSUME RailInv, DetectorInv, [SystemNext]_<<vars, chain, wiring>>
  PROVE  RailInv' /\ DetectorInv'
<1>1. CASE UNCHANGED <<chain, now>>
  BY <1>1 DEF chain, RailInv, RailType, SinceMet, Rising, Risen, Down, Chain!Met, Chain!IsUp,
     DetectorInv, AnswersLast, Answer, Chain!SinkDrive
<1>2. CASE Chain!SenseGround \/ Chain!SenseInput \/ Chain!SenseEnable
  <2>1. UNCHANGED <<bench, det, now>> /\ wakes \subseteq wakes'
    BY <1>2 DEF Chain!SenseGround, Chain!SenseInput, Chain!SenseEnable, Chain!RailIs
  <2> QED BY <1>2, <2>1, RailSenses DEF DetectorInv, AnswersLast, Answer, Chain!SinkDrive
<1>3. CASE Chain!SenseVss \/ Chain!SenseVcc \/ Chain!WakeDetector
  <2>1. UNCHANGED <<bench, rail, now, since>>
    BY <1>3 DEF Chain!SenseVss, Chain!SenseVcc, Chain!WakeDetector, Chain!DetectorIs
  <2>2. \A t : <<"rail", t>> \in wakes => <<"rail", t>> \in wakes'
    BY <1>3 DEF Chain!SenseVss, Chain!SenseVcc, Chain!WakeDetector, Chain!DetectorIs
  <2>3. RailInv'
    BY <2>1, <2>2 DEF RailInv, RailType, SinceMet, Rising, Risen, Down, Chain!Met, Chain!IsUp
  <2> QED BY <1>3, <2>3, DetectorSenses, DetectorWakes
<1>4. CASE Chain!WakeRail
  <2>1. UNCHANGED <<bench, det, now>> /\ wakes' = wakes \ {<<"rail", now>>}
    BY <1>4 DEF Chain!WakeRail
  <2>2. DetectorInv'
    BY <2>1 DEF DetectorInv, AnswersLast, Answer, Chain!SinkDrive
  <2> QED BY <1>4, <2>2, WakeKeeps
<1>5. CASE BenchStep
  <2>1. UNCHANGED <<rail, det, wakes, now, since>>
    BY <1>5 DEF BenchStep, Chain!Move
  <2>2. bench' \in [input : Int, enable : Int, ground : Int, strap : Int]
    BY <1>5, PowerUpAssumption
    DEF BenchStep, Chain!PowerAssumption, Chain!Move, RailInv, RailType, Chain!Open
  <2> QED BY <2>1, <2>2 DEF RailInv, RailType, SinceMet, Rising, Risen, Down, Chain!Met, Chain!IsUp,
             DetectorInv, AnswersLast, Answer, Chain!SinkDrive
<1>6. CASE Clock
  <2>1. UNCHANGED <<rail, det, bench, since, wakes>> /\ now' = now + 1 /\ Chain!Quiet
    BY <1>6 DEF Clock, Chain!Advance
  <2>2. /\ rail.armedAt # Chain!None => rail.armedAt >= now + 1
        /\ det.pending # Chain!NotPending => det.pending.at >= now + 1
    BY <2>1 DEF RailInv, RailType, Rails, Rising, Chain!Quiet, Chain!None,
       DetectorInv, Detectors, Pendings
  <2>3. RailInv'
    BY <2>1, <2>2, PowerUpAssumption
    DEF Chain!PowerAssumption, RailInv, RailType, SinceMet, Rising, Risen, Down,
        Chain!Met, Chain!IsUp, Chain!None
  <2>4. DetectorInv'
    BY <2>1, <2>2 DEF DetectorInv, AnswersLast, Answer, Chain!SinkDrive
  <2> QED BY <2>3, <2>4
<1> QED
  BY <1>1, <1>2, <1>3, <1>4, <1>5, <1>6, ChainAlone
  DEF SystemNext, ChainStep, vars, engine

LEMMA ChainInvAlways == SystemSpec => [](RailInv /\ DetectorInv)
<1>1. SystemInit => RailInv /\ DetectorInv
  BY InitRail, InitDetector DEF SystemInit
<1> QED BY <1>1, ChainInv, PTL DEF SystemSpec

(* The rail is up exactly when its three conditions have held, without a    *)
(* break, for the soft start: Core::evaluate, Core::on_wake of rail.rs.     *)
THEOREM SystemUpOnTime == SystemSpec => []UpOnTime
<1>1. ASSUME RailInv, Chain!Quiet
      PROVE  /\ rail.published.kind = "up" <=> since # Chain!None /\ now >= since + StartUp
             /\ rail.published.kind = "up" => rail.published.volts = bench.ground + Chain!VSet
  <2>1. rail.ground = bench.ground
    BY <1>1 DEF Chain!Quiet, Chain!Told, Chain!Sensed
  <2>2. rail.armedAt # Chain!None => since # Chain!None /\ ~(now >= since + StartUp) /\ ~Chain!IsUp(rail)
    BY <1>1, PowerUpAssumption
    DEF Chain!PowerAssumption, RailInv, RailType, Rails, Rising, Chain!Quiet, Chain!None
  <2> QED BY <1>1, <2>1, <2>2, PowerUpAssumption
          DEF Chain!PowerAssumption, RailInv, RailType, Risen, Down, Chain!IsUp, Chain!None
<1>2. RailInv => UpOnTime
  BY <1>1 DEF UpOnTime, Chain!UpOnTime
<1> QED BY <1>2, ChainInvAlways, PTL

(* The detector's output has the answer to its last crossing, once that     *)
(* crossing's delay is over, and sinks to the ground of now:                *)
(* Core::on_supply, Core::on_wake of supervisor.rs.                         *)
THEOREM SystemDetectorSettles == SystemSpec => []DetectorSettles
<1>1. ASSUME DetectorInv, Chain!Quiet
      PROVE  /\ det.verdict = "asserted" /\ now >= det.decidedAt + TPd => det.published = Chain!SinkDrive(det)
             /\ det.verdict = "released" /\ now >= det.decidedAt + TPr => det.published = Chain!Released
             /\ det.verdict = "undefined" => det.published = Chain!Released
  <2>1. CASE det.pending = Chain!NotPending
    BY <1>1, <2>1 DEF DetectorInv, AnswersLast, Answer
  <2>2. CASE det.pending # Chain!NotPending
    <3>1. det.pending.at > now
      BY <1>1, <2>2 DEF DetectorInv, Chain!Quiet
    <3> QED BY <1>1, <2>2, <3>1, PowerUpAssumption
            DEF Chain!PowerAssumption, DetectorInv, AnswersLast, Detectors, Pendings
  <2> QED BY <2>1, <2>2
<1>2. DetectorInv => DetectorSettles
  BY <1>1 DEF DetectorSettles, Chain!DetectorSettles
<1> QED BY <1>2, ChainInvAlways, PTL

(* No core runs unpowered, or with RESN low, that could enter its reset:    *)
(* P2Package::watch_reset, P2Package::watch_brownout.                       *)
THEOREM SystemRunsPowered == SystemSpec => []RunsPowered
<1>1. Init => Watched
  BY DEF Init, Watched, Running, Held
<1>2. Spec => []Watched
  BY <1>1, WatchedInv, InvAlways, PTL DEF Spec
<1>3. IInv /\ Watched => RunsPowered
  <2> SUFFICES ASSUME IInv, Watched, Sensed, pc = "idle", core = "running", cannotRestart = "no"
               PROVE  Vdd = "in" /\ Resn # "low"
    BY DEF RunsPowered
  <2>1. Running
    BY DEF IInv, CoreTold, Running
  <2> QED BY <2>1 DEF Watched, Sensed, IInv, TypeOK
<1> QED BY <1>2, <1>3, ImplementsStartGate, InvAlways, PTL
=============================================================================
