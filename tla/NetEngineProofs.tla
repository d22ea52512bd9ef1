--------------------------- MODULE NetEngineProofs --------------------------
(***************************************************************************)
(* Proofs about the net engine: its timer wheel, the plane of nets and     *)
(* faults its drives go to, and the order the drives go there in.          *)
(*                                                                         *)
(* The wheel's are for any components, trains and bounds.  The key of a    *)
(* wake is trusted in place of an entry, so the proof carries the two      *)
(* directions together: a key has an entry, and a one-shot has its key     *)
(* except while the pass that fires it is under way.                       *)
(*                                                                         *)
(* The plane's are for any board: any nets, pins, resistors, capacitors,   *)
(* faults and drives.  What a cluster's nets hold is a function of the     *)
(* slots in it, the terminals it reads and the nets read in it; a pass     *)
(* leaves a cluster out only when none of them moved.                      *)
(*                                                                         *)
(* The drives' are for any senders, any deaths, any number of drives and   *)
(* any number of idle polls above two, as long as a live sender's send     *)
(* lands within one poll.                                                  *)
(***************************************************************************)
EXTENDS EngineWheel, NetPlane, DriveSequencer, SequenceTheorems, TLAPS

(* The timer wheel.                                                        *)

(* The part of the type the other parts rest on. *)
Typed ==
  /\ now \in Nat
  /\ \A e \in wheel : /\ e.deadline \in Nat /\ e.seq \in Nat /\ e.seq < timerSeq
                      /\ e.target \in Components \cup Endpoints
                      /\ e.period \in Nat
  /\ armedWakes \subseteq Components \X Nat
  /\ timerSeq \in Nat
  /\ train \in [Endpoints -> Nat]
  /\ pc \in {"drain", "fire", "advance"}

(* A one-shot has its key, or is about to fire in the pass under way. *)
OneShotKeyed ==
  \A e \in wheel : WakeEntry(e) /\ e.period = OneShot =>
    <<e.target, e.deadline>> \in armedWakes \/ (pc = "fire" /\ Due(e))

IInv == /\ Typed /\ KeyBacked /\ TrainBacked
        /\ OneShotKeyed /\ NoCompounding /\ NothingOverdue

-----------------------------------------------------------------------------
(* arm, wherever it is called from: what a wake's entry and key do to the   *)
(* wheel W and the keys K they are added to.                                *)
LEMMA Armed ==
  ASSUME NEW W, NEW K, NEW c \in Components, NEW d \in Nat, NEW p \in Nat,
         timerSeq \in Nat, ArmWake(W, K, c, d, p)
  PROVE  /\ armedWakes' = K \cup {<<c, d>>}
         /\ timerSeq' \in Nat /\ timerSeq <= timerSeq'
         /\ \/ wheel' = W /\ <<c, d>> \in K /\ p = OneShot
            \/ /\ wheel' = W \cup {[deadline |-> d, seq |-> timerSeq,
                                    target |-> c, period |-> p]}
               /\ timerSeq < timerSeq'
               /\ <<c, d>> \notin K \/ p # OneShot
BY DEF ArmWake, Redundant, Pushed

(* The invariant through an arm from the drain, where every key left in K   *)
(* has its entry in W and every one-shot of W has its key.                  *)
LEMMA ArmKeeps ==
  ASSUME IInv, WheelAssumption, NEW c \in Components, NEW d \in Nat, NEW p \in Nat,
         NEW W, NEW K, W \subseteq wheel, K \subseteq armedWakes,
         ArmWake(W, K, c, d, p), UNCHANGED <<now, train, pc>>,
         \A k \in K : \E e \in W : e.target = k[1] /\ e.deadline = k[2],
         \A e \in wheel \ W : e.target \in Components,
         \A e \in W : WakeEntry(e) /\ e.period = OneShot =>
            <<e.target, e.deadline>> \in K \/ (pc = "fire" /\ Due(e)),
         p # OneShot \/ pc = "drain",
         p # OneShot => now <= d,
         pc # "advance"
  PROVE  IInv'
<1> DEFINE new == [deadline |-> d, seq |-> timerSeq, target |-> c, period |-> p]
<1>1. /\ armedWakes' = K \cup {<<c, d>>}
      /\ timerSeq' \in Nat /\ timerSeq <= timerSeq'
      /\ \/ wheel' = W /\ <<c, d>> \in K /\ p = OneShot
         \/ /\ wheel' = W \cup {new} /\ timerSeq < timerSeq'
            /\ <<c, d>> \notin K \/ p # OneShot
  <2>1. timerSeq \in Nat BY DEF IInv, Typed
  <2> QED BY <2>1, Armed
<1>2. W \subseteq wheel' /\ wheel' \subseteq W \cup {new} BY <1>1
<1>3. /\ new.deadline = d /\ new.seq = timerSeq /\ new.target = c /\ new.period = p
  OBVIOUS
<1>4. Typed'
  <2>1. \A e \in wheel' : /\ e.deadline \in Nat /\ e.seq \in Nat /\ e.seq < timerSeq'
                          /\ e.target \in Components \cup Endpoints /\ e.period \in Nat
    <3> SUFFICES ASSUME NEW e \in wheel'
                 PROVE  /\ e.deadline \in Nat /\ e.seq \in Nat /\ e.seq < timerSeq'
                        /\ e.target \in Components \cup Endpoints /\ e.period \in Nat
      OBVIOUS
    <3>1. CASE e \in W
      <4>1. e \in wheel BY <3>1
      <4>2. /\ e.deadline \in Nat /\ e.seq \in Nat /\ e.seq < timerSeq
            /\ e.target \in Components \cup Endpoints /\ e.period \in Nat
        BY <4>1 DEF IInv, Typed
      <4> QED BY <4>2, <1>1 DEF IInv, Typed
    <3>2. CASE e = new /\ e \notin W
      <4>1. timerSeq < timerSeq' BY <3>2, <1>1
      <4> QED BY <3>2, <4>1, <1>3 DEF IInv, Typed
    <3> QED BY <3>1, <3>2, <1>2
  <2>2. armedWakes' \subseteq Components \X Nat BY <1>1 DEF IInv, Typed
  <2> QED BY <2>1, <2>2, <1>1 DEF IInv, Typed
<1>5. KeyBacked'
  <2> SUFFICES ASSUME NEW k \in armedWakes'
               PROVE  \E e \in wheel' : e.target = k[1] /\ e.deadline = k[2]
    BY DEF KeyBacked
  <2>1. CASE k \in K BY <2>1, <1>2
  <2>2. CASE k \notin K
    <3>1. k = <<c, d>> BY <2>2, <1>1
    <3>2. wheel' = W \cup {new} BY <2>2, <3>1, <1>1
    <3>3. new \in wheel' /\ new.target = k[1] /\ new.deadline = k[2] BY <3>1, <3>2, <1>3
    <3> QED BY <3>3
  <2> QED BY <2>1, <2>2
<1>6. TrainBacked'
  <2> SUFFICES ASSUME NEW e \in Endpoints, train[e] # 0
               PROVE  \E x \in wheel' : x.target = e /\ x.deadline = train[e]
    BY DEF TrainBacked
  <2>1. PICK x \in wheel : x.target = e /\ x.deadline = train[e] BY DEF IInv, TrainBacked
  <2>2. x \in W BY <2>1 DEF WheelAssumption
  <2> QED BY <2>1, <2>2, <1>2
<1>7. OneShotKeyed'
  <2> SUFFICES ASSUME NEW e \in wheel', WakeEntry(e), e.period = OneShot
               PROVE  <<e.target, e.deadline>> \in armedWakes' \/ (pc = "fire" /\ Due(e))
    BY DEF OneShotKeyed, WakeEntry, Due
  <2>1. CASE e \in W BY <2>1, <1>1
  <2>2. CASE e = new BY <2>2, <1>1, <1>3
  <2> QED BY <2>1, <2>2, <1>2
<1>8. NoCompounding'
  <2> SUFFICES ASSUME NEW e \in wheel', NEW f \in wheel', WakeEntry(e),
                      e.target = f.target, e.deadline = f.deadline,
                      e.period = OneShot, f.period = OneShot
               PROVE  e = f
    BY DEF NoCompounding, WakeEntry
  <2>1. CASE e \in W /\ f \in W
    <3>1. e \in wheel /\ f \in wheel BY <2>1
    <3> QED BY <3>1 DEF IInv, NoCompounding
  <2>2. CASE ~(e \in W /\ f \in W)
    <3> SUFFICES ASSUME NEW g \in W, g.target = c, g.deadline = d,
                        g.period = OneShot, p = OneShot, wheel' # W
                 PROVE  FALSE
      BY <2>2, <1>2, <1>3
    <3>1. pc = "drain" OBVIOUS
    <3>2. <<c, d>> \in K BY <3>1 DEF WakeEntry
    <3> QED BY <3>2, <1>1
  <2> QED BY <2>1, <2>2
<1>9. NothingOverdue'
  <2>1. \A e \in wheel' : e.period # OneShot => now <= e.deadline
    <3> SUFFICES ASSUME NEW e \in wheel', e.period # OneShot PROVE now <= e.deadline
      OBVIOUS
    <3>1. CASE e \in W
      <4>1. e \in wheel BY <3>1
      <4> QED BY <4>1 DEF IInv, NothingOverdue
    <3>2. CASE e = new BY <3>2, <1>3
    <3> QED BY <3>1, <3>2, <1>2
  <2> QED BY <2>1 DEF NothingOverdue
<1> QED BY <1>4, <1>5, <1>6, <1>7, <1>8, <1>9 DEF IInv

(* The invariant through the other pushes and removals: a train's entry is  *)
(* never a wake's, so keys and one-shots are left alone.                    *)
LEMMA TrainKeeps ==
  ASSUME IInv, WheelAssumption, UNCHANGED <<now, armedWakes, pc>>, pc # "advance",
         train' \in [Endpoints -> Nat], timerSeq' \in Nat, timerSeq <= timerSeq',
         \A e \in wheel' \ wheel :
            /\ e.target \in Endpoints /\ e.deadline \in Nat /\ e.period = OneShot
            /\ e.seq \in Nat /\ e.seq < timerSeq',
         \A e \in wheel \ wheel' : e.target \in Endpoints,
         \A e \in Endpoints : train'[e] # 0 =>
            \E x \in wheel' : x.target = e /\ x.deadline = train'[e]
  PROVE  IInv'
<1>1. Typed'
  <2>1. \A e \in wheel' : /\ e.deadline \in Nat /\ e.seq \in Nat /\ e.seq < timerSeq'
                          /\ e.target \in Components \cup Endpoints /\ e.period \in Nat
    BY DEF IInv, Typed, OneShot
  <2> QED BY <2>1 DEF IInv, Typed
<1>2. \A e : WakeEntry(e) => (e \in wheel' <=> e \in wheel)
  BY DEF WakeEntry, WheelAssumption
<1>3. KeyBacked'
  <2> SUFFICES ASSUME NEW k \in armedWakes
               PROVE  \E e \in wheel' : e.target = k[1] /\ e.deadline = k[2]
    BY DEF KeyBacked
  <2>1. PICK e \in wheel : e.target = k[1] /\ e.deadline = k[2] BY DEF IInv, KeyBacked
  <2>2. k[1] \in Components BY DEF IInv, Typed
  <2> QED BY <1>2, <2>1, <2>2 DEF WakeEntry
<1>4. TrainBacked' BY DEF TrainBacked
<1>5. OneShotKeyed' BY <1>2 DEF IInv, OneShotKeyed, WakeEntry, Due
<1>6. NoCompounding'
  <2> SUFFICES ASSUME NEW e \in wheel', NEW f \in wheel', WakeEntry(e),
                      e.target = f.target, e.deadline = f.deadline,
                      e.period = OneShot, f.period = OneShot
               PROVE  e = f
    BY DEF NoCompounding, WakeEntry
  <2>1. e \in wheel /\ f \in wheel BY <1>2 DEF WakeEntry
  <2> QED BY <2>1 DEF IInv, NoCompounding
<1>7. NothingOverdue' BY DEF IInv, NothingOverdue
<1> QED BY <1>1, <1>3, <1>4, <1>5, <1>6, <1>7 DEF IInv

-----------------------------------------------------------------------------
LEMMA InitInv == WheelAssumption /\ WheelInit => IInv
BY DEF WheelInit, IInv, Typed, KeyBacked, TrainBacked, OneShotKeyed, NoCompounding,
       NothingOverdue, WheelAssumption

(* An entry leaves the wheel together with its key. *)
LEMMA FireWakeStep ==
  ASSUME IInv, WheelAssumption, pc = "fire", NEW e \in wheel, IsHead(e), Due(e),
         e.target \in Components, FireWake(e), UNCHANGED <<now, pc>>
  PROVE  IInv'
<1> DEFINE W == wheel \ {e}
           K == KeyLeft(e)
<1>1. /\ W \subseteq wheel /\ K \subseteq armedWakes
      /\ \A f \in wheel \ W : f.target \in Components
  BY DEF KeyLeft
<1>2. \A k \in K : \E f \in W : f.target = k[1] /\ f.deadline = k[2]
  <2> SUFFICES ASSUME NEW k \in K PROVE \E f \in W : f.target = k[1] /\ f.deadline = k[2]
    OBVIOUS
  <2>1. PICK f \in wheel : f.target = k[1] /\ f.deadline = k[2]
    BY DEF KeyLeft, IInv, KeyBacked
  <2>2. k \in Components \X Nat /\ k # <<e.target, e.deadline>>
    BY DEF KeyLeft, IInv, Typed
  <2>3. f # e BY <2>1, <2>2
  <2> QED BY <2>1, <2>3
<1>3. \A f \in W : WakeEntry(f) /\ f.period = OneShot =>
         <<f.target, f.deadline>> \in K \/ (pc = "fire" /\ Due(f))
  <2> SUFFICES ASSUME NEW f \in W, WakeEntry(f), f.period = OneShot, ~Due(f)
               PROVE  <<f.target, f.deadline>> \in K
    OBVIOUS
  <2>1. <<f.target, f.deadline>> \in armedWakes BY DEF IInv, OneShotKeyed
  <2>2. f.deadline # e.deadline BY DEF Due
  <2> QED BY <2>1, <2>2 DEF KeyLeft
<1>4. UNCHANGED train BY DEF FireWake
<1>5. CASE e.period # OneShot
  <2>1. ArmWake(W, K, e.target, Rearmed(e), e.period) BY <1>5 DEF FireWake
  <2>2. /\ e.deadline \in Nat /\ e.period \in Nat /\ now \in Nat
    BY DEF IInv, Typed
  <2>3. Rearmed(e) \in Nat /\ now <= Rearmed(e) BY <2>2 DEF Rearmed
  <2> HIDE DEF W, K
  <2> QED BY <1>1, <1>2, <1>3, <1>4, <1>5, <2>1, <2>2, <2>3, ArmKeeps
<1>6. CASE e.period = OneShot
  <2>1. wheel' = W /\ armedWakes' = K /\ UNCHANGED timerSeq BY <1>6 DEF FireWake
  <2>2. Typed' BY <1>1, <1>4, <2>1 DEF IInv, Typed
  <2>3. KeyBacked' BY <1>2, <2>1 DEF KeyBacked
  <2>4. TrainBacked'
    BY <1>4, <2>1 DEF IInv, TrainBacked, WheelAssumption
  <2>5. OneShotKeyed' BY <1>3, <2>1 DEF OneShotKeyed, WakeEntry, Due
  <2>6. NoCompounding' BY <1>1, <2>1 DEF IInv, NoCompounding, WakeEntry
  <2>7. NothingOverdue' BY <1>1, <2>1 DEF IInv, NothingOverdue
  <2> QED BY <2>2, <2>3, <2>4, <2>5, <2>6, <2>7 DEF IInv
<1> QED BY <1>5, <1>6

(* A completion rests its own train or none, so every other keeps its entry. *)
LEMMA FireTrainStep ==
  ASSUME IInv, WheelAssumption, pc = "fire", NEW e \in wheel,
         e.target \notin Components, FireTrainDone(e), UNCHANGED <<now, pc>>
  PROVE  IInv'
<1>1. e.target \in Endpoints BY DEF IInv, Typed
<1>2. wheel' = wheel \ {e} /\ UNCHANGED <<armedWakes, timerSeq>> BY DEF FireTrainDone
<1>3. train' \in [Endpoints -> Nat] BY <1>1 DEF FireTrainDone, IInv, Typed
<1>4. \A p \in Endpoints : train'[p] # 0 =>
        \E x \in wheel' : x.target = p /\ x.deadline = train'[p]
  <2> SUFFICES ASSUME NEW p \in Endpoints, train'[p] # 0
               PROVE  \E x \in wheel' : x.target = p /\ x.deadline = train'[p]
    OBVIOUS
  <2>1. train'[p] = train[p] /\ ~(p = e.target /\ train[p] = e.deadline)
    BY <1>1 DEF FireTrainDone, Outdated, IInv, Typed
  <2>2. PICK x \in wheel : x.target = p /\ x.deadline = train[p]
    BY <2>1 DEF IInv, TrainBacked
  <2>3. x # e BY <2>1, <2>2
  <2> QED BY <1>2, <2>1, <2>2, <2>3
<1>5. timerSeq \in Nat BY DEF IInv, Typed
<1> QED BY <1>1, <1>2, <1>3, <1>4, <1>5, TrainKeeps

-----------------------------------------------------------------------------
LEMMA StepInv == WheelAssumption /\ IInv /\ [WheelNext]_wheelVars => IInv'
<1> SUFFICES ASSUME WheelAssumption, IInv, [WheelNext]_wheelVars PROVE IInv'
  OBVIOUS
<1>t. /\ now \in Nat /\ timerSeq \in Nat /\ armedWakes \subseteq Components \X Nat
      /\ train \in [Endpoints -> Nat]
  BY DEF IInv, Typed
<1>k. /\ \A k \in armedWakes : \E e \in wheel : e.target = k[1] /\ e.deadline = k[2]
      /\ \A e \in wheel : WakeEntry(e) /\ e.period = OneShot =>
           <<e.target, e.deadline>> \in armedWakes \/ (pc = "fire" /\ Due(e))
  BY DEF IInv, KeyBacked, OneShotKeyed
<1> DEFINE same == UNCHANGED <<now, wheel, armedWakes, timerSeq, train, pc>>
<1>s. ASSUME same PROVE IInv'
  BY <1>s DEF IInv, Typed, KeyBacked, TrainBacked, OneShotKeyed, NoCompounding,
              NothingOverdue, WakeEntry, Due
<1>1. ASSUME NEW c \in Components, RegisterWake(c) PROVE IInv'
  BY <1>1, <1>s DEF RegisterWake
<1>2. ASSUME NEW c \in Components, NEW at \in Times, ScheduleAt(c, at) PROVE IInv'
  <2>1. /\ ArmWake(wheel, armedWakes, c, at, OneShot) /\ pc = "drain"
        /\ UNCHANGED <<now, train, pc>>
    BY <1>2 DEF ScheduleAt, Draining
  <2>2. at \in Nat /\ OneShot \in Nat BY DEF Times, OneShot
  <2> QED BY <1>k, <2>1, <2>2, ArmKeeps
<1>3. ASSUME NEW c \in Components, NEW p \in 1..MaxPeriod, ScheduleEvery(c, p) PROVE IInv'
  <2>1. /\ ArmWake(wheel, armedWakes, c, now + p, p) /\ pc = "drain"
        /\ UNCHANGED <<now, train, pc>>
    BY <1>3 DEF ScheduleEvery, Draining
  <2>2. now + p \in Nat /\ p \in Nat /\ now <= now + p BY <1>t DEF WheelAssumption
  <2> QED BY <1>k, <2>1, <2>2, ArmKeeps
<1>4. ASSUME NEW p \in Endpoints, NEW t \in 1..MaxTime, PublishTrain(p, t) PROVE IInv'
  <2> DEFINE new == [deadline |-> t, seq |-> timerSeq, target |-> p, period |-> OneShot]
  <2>1. /\ wheel' = wheel \cup {new} /\ timerSeq' = timerSeq + 1
        /\ train' = [train EXCEPT ![p] = t] /\ pc = "drain"
        /\ UNCHANGED <<now, armedWakes, pc>>
    BY <1>4 DEF PublishTrain, CompletionArmed, Pushed, Draining
  <2>2. new.deadline = t /\ new.seq = timerSeq /\ new.target = p /\ new.period = OneShot
    OBVIOUS
  <2>3. t \in Nat BY DEF WheelAssumption
  <2>4. train' \in [Endpoints -> Nat] BY <1>t, <2>1, <2>3
  <2>5. \A q \in Endpoints : train'[q] # 0 =>
          \E x \in wheel' : x.target = q /\ x.deadline = train'[q]
    <3> SUFFICES ASSUME NEW q \in Endpoints, train'[q] # 0
                 PROVE  \E x \in wheel' : x.target = q /\ x.deadline = train'[q]
      OBVIOUS
    <3>1. CASE q = p
      <4>1. train'[q] = t BY <3>1, <1>t, <2>1
      <4>2. new \in wheel' /\ new.target = q /\ new.deadline = train'[q]
        BY <3>1, <4>1, <2>1, <2>2
      <4> QED BY <4>2
    <3>2. CASE q # p
      <4>1. train'[q] = train[q] BY <3>2, <1>t, <2>1
      <4>2. PICK x \in wheel : x.target = q /\ x.deadline = train[q]
        BY <4>1 DEF IInv, TrainBacked
      <4> QED BY <4>1, <4>2, <2>1
    <3> QED BY <3>1, <3>2
  <2>6. \A e \in wheel' \ wheel :
            /\ e.target \in Endpoints /\ e.deadline \in Nat /\ e.period = OneShot
            /\ e.seq \in Nat /\ e.seq < timerSeq'
    <3>1. timerSeq < timerSeq' BY <1>t, <2>1
    <3> QED BY <1>t, <2>1, <2>2, <2>3, <3>1
  <2>7. timerSeq' \in Nat /\ timerSeq <= timerSeq' /\ wheel \ wheel' = {} BY <1>t, <2>1
  <2> QED BY <2>1, <2>4, <2>5, <2>6, <2>7, TrainKeeps
<1>5. ASSUME NEW p \in Endpoints, EndTrain(p) PROVE IInv'
  <2>1. /\ UNCHANGED <<now, wheel, armedWakes, timerSeq, pc>> /\ pc = "drain"
        /\ train' = [train EXCEPT ![p] = 0]
    BY <1>5 DEF EndTrain, Draining
  <2>2. \A q \in Endpoints : train'[q] # 0 =>
          \E x \in wheel' : x.target = q /\ x.deadline = train'[q]
    BY <1>t, <2>1 DEF IInv, TrainBacked
  <2>3. train' \in [Endpoints -> Nat] BY <1>t, <2>1
  <2> QED BY <1>t, <2>1, <2>2, <2>3, TrainKeeps
<1>6. ASSUME Drained PROVE IInv'
  BY <1>6 DEF Drained, IInv, Typed, KeyBacked, TrainBacked, OneShotKeyed, NoCompounding,
              NothingOverdue, WakeEntry, Due
<1>7. ASSUME FireDueTimer PROVE IInv'
  <2>1. PICK e \in wheel : /\ IsHead(e) /\ Due(e)
                           /\ IF e.target \in Components THEN FireWake(e) ELSE FireTrainDone(e)
    BY <1>7 DEF FireDueTimer
  <2>2. pc = "fire" /\ UNCHANGED <<now, pc>> BY <1>7 DEF FireDueTimer
  <2> QED BY <2>1, <2>2, FireWakeStep, FireTrainStep
<1>8. ASSUME PassEnds PROVE IInv'
  <2>1. /\ pc' \in {"drain", "advance"} /\ UNCHANGED <<now, wheel, armedWakes, timerSeq, train>>
        /\ \A e \in wheel : ~Due(e)
    BY <1>8 DEF PassEnds
  <2>2. Typed' BY <2>1 DEF IInv, Typed
  <2>3. KeyBacked' /\ TrainBacked' BY <2>1 DEF IInv, KeyBacked, TrainBacked
  <2>4. OneShotKeyed' BY <2>1 DEF IInv, OneShotKeyed, WakeEntry, Due
  <2>5. NoCompounding' BY <2>1 DEF IInv, NoCompounding, WakeEntry
  <2>6. \A e \in wheel : now < e.deadline BY <1>t, <2>1 DEF Due, IInv, Typed
  <2>7. NothingOverdue' BY <2>1, <2>6 DEF IInv, NothingOverdue
  <2> QED BY <2>2, <2>3, <2>4, <2>5, <2>7 DEF IInv
<1>9. ASSUME Advance PROVE IInv'
  <2>1. PICK t \in Times : now < t /\ NotPastHead(t) /\ now' = t BY <1>9 DEF Advance
  <2>2. /\ UNCHANGED <<wheel, armedWakes, timerSeq, train>> /\ pc = "advance" /\ pc' = "drain"
    BY <1>9 DEF Advance
  <2>3. Typed' BY <2>1, <2>2 DEF IInv, Typed, Times
  <2>4. KeyBacked' /\ TrainBacked' BY <2>2 DEF IInv, KeyBacked, TrainBacked
  <2>5. OneShotKeyed' BY <2>2 DEF IInv, OneShotKeyed, WakeEntry
  <2>6. NoCompounding' BY <2>2 DEF IInv, NoCompounding, WakeEntry
  <2>7. NothingOverdue' BY <2>1, <2>2 DEF NothingOverdue, NotPastHead
  <2> QED BY <2>3, <2>4, <2>5, <2>6, <2>7 DEF IInv
<1>10. CASE UNCHANGED wheelVars BY <1>10, <1>s DEF wheelVars
<1> QED BY <1>1, <1>2, <1>3, <1>4, <1>5, <1>6, <1>7, <1>8, <1>9, <1>10 DEF WheelNext

-----------------------------------------------------------------------------
LEMMA IInvAlways == ASSUME WheelAssumption PROVE WheelSpec => []IInv
BY InitInv, StepInv, PTL DEF WheelSpec

(* The key of a wake never outlives its entry: a request dropped because    *)
(* the instant is owed already is always served.                            *)
THEOREM KeyBackedAlways == ASSUME WheelAssumption PROVE WheelSpec => []KeyBacked
<1>1. IInv => KeyBacked BY DEF IInv
<1> QED BY <1>1, IInvAlways, PTL

(* No instant has two one-shot entries of one component on the wheel, so a  *)
(* callback that asks for its next instant on every wake does not compound. *)
THEOREM NoCompoundingAlways == ASSUME WheelAssumption PROVE WheelSpec => []NoCompounding
<1>1. IInv => NoCompounding BY DEF IInv
<1> QED BY <1>1, IInvAlways, PTL

(* The clock never moves past an instant the wheel holds, and a periodic    *)
(* chain never has to coalesce.                                             *)
THEOREM NothingOverdueAlways == ASSUME WheelAssumption PROVE WheelSpec => []NothingOverdue
<1>1. IInv => NothingOverdue BY DEF IInv
<1> QED BY <1>1, IInvAlways, PTL

(* A running pulse train always has the entry that rests it at its ceiling. *)
THEOREM TrainBackedAlways == ASSUME WheelAssumption PROVE WheelSpec => []TrainBacked
<1>1. IInv => TrainBacked BY DEF IInv
<1> QED BY <1>1, IInvAlways, PTL

-----------------------------------------------------------------------------
(* What the wakes delivered so far say of the requests: the part of the     *)
(* invariant WokenOnTime rests on.                                          *)

Tick(ch, n) == ch.since + n * ch.period

HistoryTyped ==
  /\ now <= MaxTime
  /\ \A a \in asked : /\ a.by \in Components /\ a.at \in Nat
                      /\ a.heard => a.by \in wakeSubs
  /\ \A ch \in chains : /\ ch.by \in Components /\ ch.since \in Nat
                        /\ ch.period \in Nat \ {0}
                        /\ ch.heard => ch.by \in wakeSubs
  /\ wakes \subseteq Components \X Nat /\ \A w \in wakes : w[2] <= MaxTime

(* The instant the wake of a key is delivered at. *)
KeyInstant(k) == IF k[2] < now THEN now ELSE k[2]

(* A request is served, or its instant is not over and a key will serve it. *)
AskedOwed ==
  \A a \in asked : a.heard =>
    \/ <<a.by, a.at>> \in wakes
    \/ now <= a.at /\ \E k \in armedWakes : k[1] = a.by /\ KeyInstant(k) = a.at

(* A chain has an entry at one of its ticks; the ticks before it were       *)
(* delivered, and it has its key or another entry's firing delivered it.    *)
Serves(e, ch, n) ==
  /\ e.target = ch.by /\ e.period = ch.period /\ e.deadline = Tick(ch, n)
  /\ ch.heard =>
       /\ \A j \in 1..(n - 1) : <<ch.by, Tick(ch, j)>> \in wakes
       /\ \/ <<ch.by, e.deadline>> \in armedWakes
          \/ e.deadline = now /\ <<ch.by, now>> \in wakes
ChainsServed == \A ch \in chains : \E e \in wheel, n \in Nat \ {0} : Serves(e, ch, n)

Wanted(c, t) ==
  \/ \E a \in asked : a.by = c /\ a.at = t
  \/ \E ch \in chains, n \in Nat \ {0} : ch.by = c /\ t = Tick(ch, n)
OnlyWanted ==
  /\ \A w \in wakes : Wanted(w[1], w[2])
  /\ \A k \in armedWakes : Wanted(k[1], KeyInstant(k))
  /\ \A e \in wheel : WakeEntry(e) /\ e.period # OneShot =>
       \E ch \in chains, n \in Nat \ {0} :
         ch.by = e.target /\ ch.period = e.period /\ e.deadline = Tick(ch, n)

HInv == HistoryTyped /\ AskedOwed /\ ChainsServed /\ OnlyWanted

(* A re-armed entry stands at the next tick of its chain. *)
LEMMA NextTick ==
  ASSUME NEW ch, ch.since \in Nat, ch.period \in Nat, NEW n \in Nat
  PROVE  Tick(ch, n + 1) = Tick(ch, n) + ch.period
<1>1. \A m, p \in Nat : (m + 1) * p = m * p + p OBVIOUS
<1>2. (n + 1) * ch.period = n * ch.period + ch.period BY <1>1
<1>3. \A m, p \in Nat : m * p \in Nat OBVIOUS
<1> QED BY <1>2, <1>3 DEF Tick

LEMMA InitHistory == WheelAssumption /\ WheelInit => HInv
BY DEF WheelAssumption, WheelInit, HInv, HistoryTyped, AskedOwed, ChainsServed, OnlyWanted

(* What a step keeps that delivers no wake and moves no clock: more keys,   *)
(* requests and handlers only add to what is owed and wanted.               *)
LEMMA ChainKeeps ==
  ASSUME ChainsServed, WheelAssumption, HistoryTyped, UNCHANGED now,
         armedWakes \subseteq armedWakes', wakes \subseteq wakes',
         \A e \in wheel : WakeEntry(e) => e \in wheel'
  PROVE  \A ch \in chains : \E e \in wheel', n \in Nat \ {0} : Serves(e, ch, n)'
<1> SUFFICES ASSUME NEW ch \in chains
             PROVE  \E e \in wheel', n \in Nat \ {0} : Serves(e, ch, n)'
  OBVIOUS
<1>1. PICK e \in wheel, n \in Nat \ {0} : Serves(e, ch, n) BY DEF ChainsServed
<1>2. e \in wheel' BY <1>1 DEF Serves, WakeEntry, HistoryTyped
<1>3. Serves(e, ch, n)' BY <1>1 DEF Serves, Tick
<1> QED BY <1>2, <1>3

LEMMA HistoryFrame ==
  ASSUME HInv, WheelAssumption,
         UNCHANGED <<now, armedWakes, asked, chains, wakes>>, wakeSubs \subseteq wakeSubs',
         \A e : WakeEntry(e) => (e \in wheel' <=> e \in wheel)
  PROVE  HInv'
<1>1. HistoryTyped' BY DEF HInv, HistoryTyped
<1>2. AskedOwed' BY DEF HInv, AskedOwed, KeyInstant
<1>3. ChainsServed' BY ChainKeeps DEF HInv, ChainsServed
<1>4. OnlyWanted' BY DEF HInv, OnlyWanted, Wanted, Tick, KeyInstant, WakeEntry
<1> QED BY <1>1, <1>2, <1>3, <1>4 DEF HInv

LEMMA AskHistory ==
  ASSUME HInv, IInv, WheelAssumption, NEW c \in Components, NEW at \in Times, ScheduleAt(c, at)
  PROVE  HInv'
<1>1. /\ UNCHANGED <<now, wakeSubs, train, pc, chains, wakes>>
      /\ ArmWake(wheel, armedWakes, c, at, OneShot)
  BY DEF ScheduleAt
<1>2. at \in Nat /\ at <= MaxTime /\ now \in Nat /\ timerSeq \in Nat /\ OneShot \in Nat
  BY DEF Times, WheelAssumption, IInv, Typed, OneShot
<1>3. /\ armedWakes' = armedWakes \cup {<<c, at>>} /\ wheel \subseteq wheel'
      /\ \A e \in wheel' \ wheel : e.period = OneShot
  <2>1. \/ wheel' = wheel
        \/ wheel' = wheel \cup {[deadline |-> at, seq |-> timerSeq, target |-> c, period |-> OneShot]}
    BY <1>1 DEF ArmWake, Pushed
  <2> QED BY <1>1, <2>1 DEF ArmWake
<1>4. PICK a : /\ asked' = asked \cup {a}
               /\ a.by = c /\ a.at = (IF at < now THEN now ELSE at) /\ a.heard = (c \in wakeSubs)
  <2> DEFINE r == [by |-> c, at |-> IF at < now THEN now ELSE at, heard |-> c \in wakeSubs]
  <2>1. asked' = asked \cup {r} BY DEF ScheduleAt
  <2>2. r.by = c /\ r.at = (IF at < now THEN now ELSE at) /\ r.heard = (c \in wakeSubs)
    OBVIOUS
  <2> HIDE DEF r
  <2> QED BY <2>1, <2>2
<1> DEFINE k == <<c, at>>
<1>5. a.at = KeyInstant(k) /\ a.at \in Nat /\ now <= a.at /\ k[1] = c
  BY <1>2, <1>4 DEF KeyInstant
<1>6. HistoryTyped' BY <1>1, <1>4, <1>5 DEF HInv, HistoryTyped
<1>7. AskedOwed'
  <2> SUFFICES ASSUME NEW b \in asked', b.heard, <<b.by, b.at>> \notin wakes
               PROVE  now <= b.at /\ \E j \in armedWakes' : j[1] = b.by /\ KeyInstant(j) = b.at
    BY <1>1 DEF AskedOwed, KeyInstant
  <2>1. CASE b \in asked BY <2>1, <1>3 DEF HInv, AskedOwed
  <2>2. CASE b = a BY <2>2, <1>3, <1>4, <1>5
  <2> QED BY <2>1, <2>2, <1>4
<1>8. ChainsServed' BY <1>1, <1>3, ChainKeeps DEF HInv, ChainsServed
<1>9. OnlyWanted'
  <2>1. \A d, t : Wanted(d, t) => Wanted(d, t)' BY <1>1, <1>4 DEF Wanted, Tick
  <2>2. Wanted(k[1], KeyInstant(k))' BY <1>1, <1>4, <1>5 DEF Wanted, KeyInstant
  <2>3. \A j \in armedWakes : Wanted(j[1], KeyInstant(j))'
    BY <1>1, <2>1 DEF HInv, OnlyWanted, KeyInstant
  <2>4. \A j \in armedWakes' : Wanted(j[1], KeyInstant(j))' BY <1>3, <2>2, <2>3
  <2>5. \A e \in wheel' : WakeEntry(e) /\ e.period # OneShot =>
          \E ch \in chains', n \in Nat \ {0} :
            ch.by = e.target /\ ch.period = e.period /\ e.deadline = Tick(ch, n)
    BY <1>1, <1>3 DEF HInv, OnlyWanted
  <2> QED BY <1>1, <2>1, <2>4, <2>5 DEF HInv, OnlyWanted, WakeEntry, Tick
<1> QED BY <1>6, <1>7, <1>8, <1>9 DEF HInv

LEMMA ChainHistory ==
  ASSUME HInv, IInv, WheelAssumption, NEW c \in Components, NEW p \in 1..MaxPeriod,
         ScheduleEvery(c, p)
  PROVE  HInv'
<1>1. /\ UNCHANGED <<now, wakeSubs, train, pc, asked, wakes>>
      /\ ArmWake(wheel, armedWakes, c, now + p, p)
  BY DEF ScheduleEvery
<1>2. p \in Nat /\ p # 0 /\ p # OneShot /\ now \in Nat /\ now + p \in Nat /\ timerSeq \in Nat
  BY DEF WheelAssumption, IInv, Typed, OneShot
<1>3. PICK ch : /\ chains' = chains \cup {ch}
                /\ ch.by = c /\ ch.since = now /\ ch.period = p /\ ch.heard = (c \in wakeSubs)
  <2> DEFINE r == [by |-> c, since |-> now, period |-> p, heard |-> c \in wakeSubs]
  <2>1. chains' = chains \cup {r} BY DEF ScheduleEvery
  <2>2. r.by = c /\ r.since = now /\ r.period = p /\ r.heard = (c \in wakeSubs)
    OBVIOUS
  <2> HIDE DEF r
  <2> QED BY <2>1, <2>2
<1>4. PICK new : /\ wheel' = wheel \cup {new}
                 /\ new.target = c /\ new.period = p /\ new.deadline = now + p
  <2> DEFINE r == [deadline |-> now + p, seq |-> timerSeq, target |-> c, period |-> p]
  <2>1. wheel' = wheel \cup {r} BY <1>1, <1>2 DEF ArmWake, Redundant, Pushed
  <2>2. r.target = c /\ r.period = p /\ r.deadline = now + p OBVIOUS
  <2> HIDE DEF r
  <2> QED BY <2>1, <2>2
<1>5. PICK k : armedWakes' = armedWakes \cup {k} /\ k = <<c, now + p>>
  BY <1>1 DEF ArmWake
<1>6. Tick(ch, 1) = now + p /\ KeyInstant(k) = now + p /\ k[1] = c
  BY <1>2, <1>3, <1>5 DEF Tick, KeyInstant
<1>7. HistoryTyped' BY <1>1, <1>2, <1>3 DEF HInv, HistoryTyped
<1>8. AskedOwed' BY <1>1, <1>5 DEF HInv, AskedOwed, KeyInstant
<1>9. ChainsServed'
  <2>1. \A d \in chains : \E e \in wheel', n \in Nat \ {0} : Serves(e, d, n)'
    BY <1>1, <1>4, <1>5, ChainKeeps DEF HInv
  <2>2. Serves(new, ch, 1)'
    <3>1. <<ch.by, new.deadline>> \in armedWakes' BY <1>3, <1>4, <1>5
    <3> QED BY <1>3, <1>4, <1>6, <3>1 DEF Serves, Tick
  <2>3. \E e \in wheel', n \in Nat \ {0} : Serves(e, ch, n)'
    BY <1>4, <2>2
  <2> QED BY <1>3, <2>1, <2>3 DEF ChainsServed
<1>10. OnlyWanted'
  <2>1. \A d, t : Wanted(d, t) => Wanted(d, t)' BY <1>1, <1>3 DEF Wanted, Tick
  <2>2. ch \in chains' /\ 1 \in Nat \ {0} BY <1>3
  <2>3. Wanted(k[1], KeyInstant(k))'
    <3>1. KeyInstant(k)' = Tick(ch, 1) BY <1>1, <1>6 DEF KeyInstant
    <3> QED BY <1>3, <1>6, <2>2, <3>1 DEF Wanted
  <2>4. \A j \in armedWakes : Wanted(j[1], KeyInstant(j))'
    BY <1>1, <2>1 DEF HInv, OnlyWanted, KeyInstant
  <2>5. \A j \in armedWakes' : Wanted(j[1], KeyInstant(j))' BY <1>5, <2>3, <2>4
  <2>6. \A e \in wheel' : WakeEntry(e) /\ e.period # OneShot =>
          \E d \in chains', n \in Nat \ {0} :
            d.by = e.target /\ d.period = e.period /\ e.deadline = Tick(d, n)
    <3>1. \A e \in wheel : WakeEntry(e) /\ e.period # OneShot =>
            \E d \in chains', n \in Nat \ {0} :
              d.by = e.target /\ d.period = e.period /\ e.deadline = Tick(d, n)
      BY <1>3 DEF HInv, OnlyWanted
    <3> QED BY <1>3, <1>4, <1>6, <2>2, <3>1
  <2> QED BY <1>1, <2>1, <2>5, <2>6 DEF HInv, OnlyWanted, WakeEntry, Tick
<1> QED BY <1>7, <1>8, <1>9, <1>10 DEF HInv

(* A fired wake serves every request and chain its key stood for. *)
LEMMA FireHistory ==
  ASSUME HInv, IInv, IInv', WheelAssumption, pc = "fire", NEW e \in wheel, Due(e),
         e.target \in Components, FireWake(e), UNCHANGED <<now, wakeSubs, pc, asked, chains>>
  PROVE  HInv'
<1> DEFINE c == e.target
           key == <<e.target, e.deadline>>
           again == <<e.target, e.deadline + e.period>>
<1>1. /\ now \in Nat /\ timerSeq \in Nat /\ e.deadline \in Nat /\ e.period \in Nat
      /\ e.deadline <= now /\ now <= MaxTime
      /\ armedWakes \subseteq Components \X Nat
  BY DEF IInv, Typed, Due, HInv, HistoryTyped
<1>2. wakes' = IF key \in armedWakes /\ c \in wakeSubs
               THEN wakes \cup {<<c, now>>} ELSE wakes
  BY DEF FireWake
<1>3. /\ wheel \ {e} \subseteq wheel' /\ armedWakes \ {key} \subseteq armedWakes'
      /\ e.period = OneShot => wheel' = wheel \ {e} /\ armedWakes' = armedWakes \ {key}
      /\ e.period # OneShot =>
           /\ e.deadline = now /\ armedWakes' = (armedWakes \ {key}) \cup {again}
           /\ \E f : wheel' = (wheel \ {e}) \cup {f} /\ f.target = c /\ f.period = e.period
                     /\ f.deadline = e.deadline + e.period
  <2>1. CASE e.period = OneShot BY <2>1 DEF FireWake, KeyLeft
  <2>2. CASE e.period # OneShot
    <3>1. e.deadline = now BY <1>1, <2>2 DEF IInv, NothingOverdue
    <3>2. Rearmed(e) = e.deadline + e.period BY <1>1, <2>2, <3>1 DEF Rearmed, OneShot
    <3>3. e.deadline + e.period \in Nat BY <1>1
    <3>4. ArmWake(wheel \ {e}, KeyLeft(e), c, e.deadline + e.period, e.period)
      BY <2>2, <3>2 DEF FireWake
    <3> DEFINE r == [deadline |-> e.deadline + e.period, seq |-> timerSeq,
                     target |-> c, period |-> e.period]
    <3>5. armedWakes' = KeyLeft(e) \cup {again} /\ wheel' = (wheel \ {e}) \cup {r}
      BY <2>2, <3>4 DEF ArmWake, Redundant, Pushed
    <3>6. r.target = c /\ r.period = e.period /\ r.deadline = e.deadline + e.period
      OBVIOUS
    <3>7. \E f : /\ wheel' = (wheel \ {e}) \cup {f} /\ f.target = c /\ f.period = e.period
                 /\ f.deadline = e.deadline + e.period
      <4> HIDE DEF r
      <4> QED BY <3>5, <3>6
    <3>8. armedWakes' = (armedWakes \ {key}) \cup {again} BY <3>5 DEF KeyLeft
    <3> QED BY <2>2, <3>1, <3>7, <3>8
  <2> QED BY <2>1, <2>2
<1>4. HistoryTyped' BY <1>1, <1>2 DEF HInv, HistoryTyped
<1>5. AskedOwed'
  <2> SUFFICES ASSUME NEW a \in asked, a.heard, <<a.by, a.at>> \notin wakes'
               PROVE  now <= a.at /\ \E k \in armedWakes' : k[1] = a.by /\ KeyInstant(k) = a.at
    BY DEF AskedOwed, KeyInstant
  <2>1. <<a.by, a.at>> \notin wakes BY <1>2
  <2>2. PICK k \in armedWakes : k[1] = a.by /\ KeyInstant(k) = a.at
    BY <2>1 DEF HInv, AskedOwed
  <2>3. now <= a.at BY <2>1 DEF HInv, AskedOwed
  <2>4. k # key
    <3> SUFFICES ASSUME k = key PROVE FALSE OBVIOUS
    <3>1. a.by = c /\ a.at = now BY <1>1, <2>2 DEF KeyInstant
    <3>2. c \in wakeSubs BY <3>1 DEF HInv, HistoryTyped
    <3> QED BY <1>2, <3>1, <3>2
  <2> QED BY <1>3, <2>2, <2>3, <2>4
<1>6. ChainsServed'
  <2> SUFFICES ASSUME NEW ch \in chains
               PROVE  \E f \in wheel', n \in Nat \ {0} : Serves(f, ch, n)'
    BY DEF ChainsServed
  <2>1. PICK f \in wheel, n \in Nat \ {0} : Serves(f, ch, n) BY DEF HInv, ChainsServed
  <2>2. /\ ch.since \in Nat /\ ch.period \in Nat /\ ch.period # 0
        /\ ch.heard => ch.by \in wakeSubs
    BY DEF HInv, HistoryTyped
  <2>3. f.deadline \in Nat /\ f.period \in Nat BY DEF IInv, Typed
  <2>4. f.period # OneShot /\ now <= f.deadline
    BY <2>1, <2>2, <2>3 DEF Serves, OneShot, IInv, NothingOverdue
  <2>5. CASE f # e
    <3>1. f \in wheel' BY <1>3, <2>5
    <3>2. ch.heard => \/ <<ch.by, f.deadline>> \in armedWakes'
                      \/ f.deadline = now /\ <<ch.by, now>> \in wakes'
      <4> SUFFICES ASSUME ch.heard, <<ch.by, f.deadline>> \notin armedWakes'
                   PROVE  f.deadline = now /\ <<ch.by, now>> \in wakes'
        OBVIOUS
      <4>1. CASE <<ch.by, f.deadline>> \notin armedWakes
        BY <1>2, <2>1, <4>1 DEF Serves
      <4>2. CASE <<ch.by, f.deadline>> \in armedWakes
        <5>1. <<ch.by, f.deadline>> = key BY <1>3, <4>2
        <5>2. ch.by = c /\ f.deadline = e.deadline BY <5>1
        <5>3. f.deadline = now BY <1>1, <2>3, <2>4, <5>2
        <5> QED BY <1>2, <2>2, <4>2, <5>1, <5>2, <5>3
      <4> QED BY <4>1, <4>2
    <3>3. Serves(f, ch, n)' BY <1>2, <2>1, <3>2 DEF Serves, Tick
    <3> QED BY <3>1, <3>3
  <2>6. CASE f = e
    <3>1. PICK g \in wheel' : g.target = c /\ g.period = e.period /\ g.deadline = e.deadline + e.period
      BY <1>3, <2>4, <2>6
    <3>2. /\ n + 1 \in Nat \ {0} /\ (n + 1) - 1 = n
          /\ Tick(ch, n + 1) = Tick(ch, n) + ch.period
      BY <2>2, NextTick
    <3>3. g.target = ch.by /\ g.period = ch.period /\ g.deadline = Tick(ch, n + 1)
      BY <2>1, <2>6, <3>1, <3>2 DEF Serves
    <3>4. ASSUME ch.heard PROVE <<ch.by, Tick(ch, n)>> \in wakes'
      <4>1. Tick(ch, n) = now /\ ch.by = c
        BY <1>3, <2>1, <2>4, <2>6 DEF Serves
      <4>2. CASE key \in armedWakes BY <1>2, <2>2, <3>4, <4>1, <4>2
      <4>3. CASE key \notin armedWakes BY <1>2, <2>1, <2>6, <3>4, <4>1, <4>3 DEF Serves
      <4> QED BY <4>2, <4>3
    <3>5. ASSUME ch.heard, NEW j \in 1..n PROVE <<ch.by, Tick(ch, j)>> \in wakes'
      <4>1. CASE j = n BY <3>4, <3>5, <4>1
      <4>2. CASE j # n
        <5>1. j \in 1..(n - 1) BY <4>2
        <5> QED BY <1>2, <2>1, <3>5, <5>1 DEF Serves
      <4> QED BY <4>1, <4>2
    <3>6. <<ch.by, g.deadline>> \in armedWakes'
      BY <1>3, <2>4, <2>6, <3>1, <3>3
    <3>7. Serves(g, ch, n + 1)' BY <3>2, <3>3, <3>5, <3>6 DEF Serves, Tick
    <3> QED BY <3>2, <3>7
  <2> QED BY <2>5, <2>6
<1>7. OnlyWanted'
  <2>1. \A d, t : Wanted(d, t)' <=> Wanted(d, t) BY DEF Wanted, Tick
  <2>2. \A w \in wakes' : Wanted(w[1], w[2])
    <3>1. key \in armedWakes => Wanted(c, now)
      <4>1. KeyInstant(key) = now BY <1>1 DEF KeyInstant
      <4>2. key \in armedWakes => Wanted(key[1], KeyInstant(key)) BY DEF HInv, OnlyWanted
      <4> QED BY <4>1, <4>2
    <3> QED BY <1>2, <3>1 DEF HInv, OnlyWanted
  <2>3. e.period # OneShot => \E ch \in chains, n \in Nat \ {0} :
          ch.by = c /\ ch.period = e.period /\ e.deadline + e.period = Tick(ch, n)
    <3> SUFFICES ASSUME e.period # OneShot
                 PROVE  \E ch \in chains, n \in Nat \ {0} :
                          ch.by = c /\ ch.period = e.period /\ e.deadline + e.period = Tick(ch, n)
      OBVIOUS
    <3>1. PICK ch \in chains, n \in Nat \ {0} :
            ch.by = c /\ ch.period = e.period /\ e.deadline = Tick(ch, n)
      BY DEF HInv, OnlyWanted, WakeEntry
    <3>2. ch.since \in Nat /\ ch.period \in Nat BY DEF HInv, HistoryTyped
    <3>3. n + 1 \in Nat \ {0} /\ Tick(ch, n + 1) = Tick(ch, n) + ch.period
      BY <3>2, NextTick
    <3> QED BY <3>1, <3>3
  <2>4. \A k \in armedWakes' : Wanted(k[1], KeyInstant(k))
    <3>1. e.period # OneShot => KeyInstant(again) = e.deadline + e.period /\ again[1] = c
      BY <1>1, <1>3 DEF KeyInstant
    <3>2. e.period # OneShot => Wanted(again[1], KeyInstant(again))
      BY <2>3, <3>1 DEF Wanted
    <3> QED BY <1>3, <3>2 DEF HInv, OnlyWanted
  <2>5. \A f \in wheel' : WakeEntry(f) /\ f.period # OneShot =>
          \E ch \in chains, n \in Nat \ {0} :
            ch.by = f.target /\ ch.period = f.period /\ f.deadline = Tick(ch, n)
    BY <1>3, <2>3 DEF HInv, OnlyWanted
  <2>6. \A k : KeyInstant(k)' = KeyInstant(k) BY DEF KeyInstant
  <2> QED BY <2>1, <2>2, <2>4, <2>5, <2>6 DEF OnlyWanted, WakeEntry, Tick
<1> QED BY <1>4, <1>5, <1>6, <1>7 DEF HInv

(* The clock moves past nothing that is owed. *)
LEMMA AdvanceHistory ==
  ASSUME HInv, IInv, WheelAssumption, Advance
  PROVE  HInv'
<1>1. PICK t \in Times : now < t /\ NotPastHead(t) /\ now' = t BY DEF Advance
<1>2. /\ UNCHANGED <<wheel, armedWakes, timerSeq, wakeSubs, train, asked, chains, wakes>>
      /\ \A e \in wheel : now < e.deadline /\ t <= e.deadline
  BY <1>1 DEF Advance, IInv, NothingOverdue, NotPastHead
<1>3. t \in Nat /\ t <= MaxTime /\ now \in Nat BY DEF Times, WheelAssumption, IInv, Typed
<1>4. \A k \in armedWakes : /\ k[2] \in Nat /\ t <= k[2] /\ KeyInstant(k) = k[2]
                            /\ KeyInstant(k)' = k[2]
  <2> SUFFICES ASSUME NEW k \in armedWakes
               PROVE  /\ k[2] \in Nat /\ t <= k[2] /\ KeyInstant(k) = k[2]
                      /\ KeyInstant(k)' = k[2]
    OBVIOUS
  <2>1. k[2] \in Nat BY DEF IInv, Typed
  <2>2. PICK e \in wheel : e.deadline = k[2] BY DEF IInv, KeyBacked
  <2> QED BY <1>1, <1>2, <1>3, <2>1, <2>2 DEF KeyInstant
<1>5. HistoryTyped' BY <1>1, <1>2, <1>3 DEF HInv, HistoryTyped
<1>6. AskedOwed' BY <1>1, <1>2, <1>4 DEF HInv, AskedOwed
<1>7. ChainsServed'
  <2> SUFFICES ASSUME NEW ch \in chains
               PROVE  \E f \in wheel, n \in Nat \ {0} : Serves(f, ch, n)'
    BY <1>2 DEF ChainsServed
  <2>1. PICK f \in wheel, n \in Nat \ {0} : Serves(f, ch, n) BY DEF HInv, ChainsServed
  <2>2. f.deadline # now BY <1>2, <1>3 DEF IInv, Typed
  <2>3. Serves(f, ch, n)' BY <1>2, <2>1, <2>2 DEF Serves, Tick
  <2> QED BY <2>3
<1>8. OnlyWanted' BY <1>2, <1>4 DEF HInv, OnlyWanted, Wanted, Tick, WakeEntry
<1> QED BY <1>5, <1>6, <1>7, <1>8 DEF HInv

LEMMA StepHistory == WheelAssumption /\ IInv /\ HInv /\ [WheelNext]_wheelVars => HInv'
<1> SUFFICES ASSUME WheelAssumption, IInv, HInv, [WheelNext]_wheelVars PROVE HInv'
  OBVIOUS
<1>0. IInv' BY StepInv
<1>1. ASSUME NEW c \in Components, RegisterWake(c) PROVE HInv'
  BY <1>1, HistoryFrame DEF RegisterWake
<1>2. ASSUME NEW c \in Components, NEW at \in Times, ScheduleAt(c, at) PROVE HInv'
  BY <1>2, AskHistory
<1>3. ASSUME NEW c \in Components, NEW p \in 1..MaxPeriod, ScheduleEvery(c, p) PROVE HInv'
  BY <1>3, ChainHistory
<1>4. ASSUME NEW p \in Endpoints, NEW t \in 1..MaxTime, PublishTrain(p, t) PROVE HInv'
  <2>1. \A e : WakeEntry(e) => (e \in wheel' <=> e \in wheel)
    BY <1>4 DEF PublishTrain, CompletionArmed, Pushed, WakeEntry, WheelAssumption
  <2> QED BY <1>4, <2>1, HistoryFrame DEF PublishTrain
<1>5. ASSUME NEW p \in Endpoints, EndTrain(p) PROVE HInv'
  BY <1>5, HistoryFrame DEF EndTrain
<1>6. ASSUME Drained \/ PassEnds \/ UNCHANGED wheelVars PROVE HInv'
  BY <1>6, HistoryFrame DEF Drained, PassEnds, wheelVars
<1>7. ASSUME FireDueTimer PROVE HInv'
  <2>1. PICK e \in wheel : /\ Due(e)
                           /\ IF e.target \in Components THEN FireWake(e) ELSE FireTrainDone(e)
    BY <1>7 DEF FireDueTimer
  <2>2. pc = "fire" /\ UNCHANGED <<now, wakeSubs, pc, asked, chains>> BY <1>7 DEF FireDueTimer
  <2>3. CASE e.target \in Components BY <1>0, <2>1, <2>2, <2>3, FireHistory
  <2>4. CASE e.target \notin Components
    <3>1. wheel' = wheel \ {e} /\ UNCHANGED <<armedWakes, wakes>>
      BY <2>1, <2>4 DEF FireTrainDone
    <3>2. \A f : WakeEntry(f) => (f \in wheel' <=> f \in wheel) BY <2>4, <3>1 DEF WakeEntry
    <3> QED BY <2>2, <3>1, <3>2, HistoryFrame
  <2> QED BY <2>3, <2>4
<1>8. ASSUME Advance PROVE HInv' BY <1>8, AdvanceHistory
<1> QED BY <1>1, <1>2, <1>3, <1>4, <1>5, <1>6, <1>7, <1>8 DEF WheelNext

-----------------------------------------------------------------------------
(* Ticks are as far apart as their numbers. *)
LEMMA TickOrder ==
  ASSUME NEW ch, ch.since \in Nat, ch.period \in Nat \ {0}, NEW m \in Nat, NEW n \in Nat, m <= n
  PROVE  /\ Tick(ch, m) \in Nat /\ Tick(ch, m) <= Tick(ch, n) /\ m <= Tick(ch, m)
<1>1. \A a, b \in Nat : a * b \in Nat OBVIOUS
<1>2. PICK d \in Nat : n = m + d BY n - m \in Nat
<1>3. n * ch.period = m * ch.period + d * ch.period BY <1>2
<1>4. PICK q \in Nat : ch.period = q + 1 BY ch.period - 1 \in Nat
<1>5. m * ch.period = m * q + m BY <1>4
<1> QED BY <1>1, <1>3, <1>4, <1>5 DEF Tick

LEMMA ServedOnTime == WheelAssumption /\ IInv /\ HInv => WokenOnTime
<1> SUFFICES ASSUME WheelAssumption, IInv, HInv, pc = "advance" PROVE WokenOnTime
  BY DEF WokenOnTime
<1>1. \A e \in wheel : e.deadline \in Nat /\ now < e.deadline
  BY DEF IInv, Typed, NothingOverdue
<1>2. now \in Nat /\ now <= MaxTime /\ MaxTime \in Nat BY DEF IInv, Typed, HInv, HistoryTyped, WheelAssumption
<1>3. ASSUME NEW a \in asked, a.heard, a.at <= now PROVE <<a.by, a.at>> \in wakes
  <2> SUFFICES ASSUME <<a.by, a.at>> \notin wakes PROVE FALSE
    OBVIOUS
  <2>1. PICK k \in armedWakes : KeyInstant(k) = a.at BY <1>3 DEF HInv, AskedOwed
  <2>2. k[2] \in Nat /\ \E e \in wheel : e.deadline = k[2] BY DEF IInv, Typed, KeyBacked
  <2> QED BY <1>1, <1>2, <1>3, <2>1, <2>2 DEF KeyInstant
<1>4. ASSUME NEW ch \in chains, NEW t \in Ticks(ch), ch.heard, t <= now
      PROVE  <<ch.by, t>> \in wakes
  <2>1. PICK j \in 1..MaxTime : t = Tick(ch, j) BY DEF Ticks, Tick
  <2>2. PICK e \in wheel, n \in Nat \ {0} : Serves(e, ch, n) BY DEF HInv, ChainsServed
  <2>3. ch.since \in Nat /\ ch.period \in Nat \ {0} BY DEF HInv, HistoryTyped
  <2>4. j < n
    <3> SUFFICES ASSUME n <= j PROVE FALSE BY <1>2
    <3>1. Tick(ch, n) <= Tick(ch, j) /\ Tick(ch, n) \in Nat /\ Tick(ch, j) \in Nat
      BY <1>2, <2>3, TickOrder
    <3> QED BY <1>1, <1>2, <1>4, <2>1, <2>2, <3>1 DEF Serves
  <2>5. j \in 1..(n - 1) BY <1>2, <2>4
  <2> QED BY <1>4, <2>1, <2>2, <2>5 DEF Serves
<1>5. ASSUME NEW w \in wakes
      PROVE  \/ \E a \in asked : a.by = w[1] /\ a.at = w[2]
             \/ \E ch \in chains : ch.by = w[1] /\ w[2] \in Ticks(ch)
  <2>1. CASE \E a \in asked : a.by = w[1] /\ a.at = w[2] BY <2>1
  <2>2. CASE \E ch \in chains, n \in Nat \ {0} : ch.by = w[1] /\ w[2] = Tick(ch, n)
    <3>1. PICK ch \in chains, n \in Nat \ {0} : ch.by = w[1] /\ w[2] = Tick(ch, n) BY <2>2
    <3>2. ch.since \in Nat /\ ch.period \in Nat \ {0} BY DEF HInv, HistoryTyped
    <3>3. w[2] \in Nat /\ w[2] <= MaxTime BY DEF HInv, HistoryTyped
    <3>4. n <= Tick(ch, n) BY <3>2, TickOrder
    <3>5. n \in 1..MaxTime BY <1>2, <3>1, <3>3, <3>4
    <3>6. w[2] \in Ticks(ch) BY <1>2, <3>1, <3>3, <3>5 DEF Ticks, Tick, Times
    <3> QED BY <3>1, <3>6
  <2> QED BY <2>1, <2>2 DEF HInv, OnlyWanted, Wanted
<1> QED BY <1>3, <1>4, <1>5 DEF WokenOnTime

(* Every wake asked for in time and every tick of a chain is delivered at   *)
(* its instant, and no other: EngineCore::arm and fire_due_timers.          *)
THEOREM WokenOnTimeAlways == ASSUME WheelAssumption PROVE WheelSpec => []WokenOnTime
BY IInvAlways, InitHistory, StepHistory, ServedOnTime, PTL DEF WheelSpec

(* A running train has its completion on the wheel, which the clock does    *)
(* not pass; and a completion rests no train but the one it was armed for   *)
(* (arm_finite_train, next_virtual_deadline and fire_due_timers).           *)
THEOREM TrainsRestOnTimeAlways == ASSUME WheelAssumption PROVE WheelSpec => TrainsRestOnTime
<1>1. IInv /\ [WheelNext]_wheelVars =>
        [\A e \in Endpoints :
           /\ now' # now /\ train[e] # 0 => now' <= train[e]
           /\ FireDueTimer /\ train'[e] # train[e] => train[e] <= now /\ train'[e] = 0]_wheelVars
  <2> SUFFICES ASSUME IInv, [WheelNext]_wheelVars, NEW e \in Endpoints
               PROVE  /\ now' # now /\ train[e] # 0 => now' <= train[e]
                      /\ FireDueTimer /\ train'[e] # train[e] => train[e] <= now /\ train'[e] = 0
    OBVIOUS
  <2>1. ASSUME now' # now, train[e] # 0 PROVE now' <= train[e]
    <3>1. Advance
      BY <2>1 DEF WheelNext, RegisterWake, ScheduleAt, ScheduleEvery, EndTrain,
                  PublishTrain, Drained, FireDueTimer, PassEnds, wheelVars
    <3>2. PICK x \in wheel : x.target = e /\ x.deadline = train[e]
      BY <2>1 DEF IInv, TrainBacked
    <3> QED BY <3>1, <3>2 DEF Advance, NotPastHead
  <2>2. ASSUME FireDueTimer, train'[e] # train[e] PROVE train[e] <= now /\ train'[e] = 0
    <3>1. PICK x \in wheel : /\ Due(x)
                             /\ IF x.target \in Components THEN FireWake(x) ELSE FireTrainDone(x)
      BY <2>2 DEF FireDueTimer
    <3>2. FireTrainDone(x) BY <2>2, <3>1 DEF FireWake
    <3>3. train \in [Endpoints -> Nat] BY DEF IInv, Typed
    <3> QED BY <2>2, <3>1, <3>2, <3>3 DEF FireTrainDone, Outdated, Due
  <2> QED BY <2>1, <2>2
<1> QED BY <1>1, IInvAlways, PTL DEF WheelSpec, TrainsRestOnTime

-----------------------------------------------------------------------------
(* The plane of nets.                                                       *)

(* The clusters part the nets.                                              *)

(* A union of clusters leaves a union of clusters (build_topology's         *)
(* disjoint sets).                                                          *)
LEMMA OthersJoined == ASSUME NEW S \in SUBSET Inner, Joined(S) PROVE Joined(Inner \ S)
BY DEF Joined

(* Two nets of one cluster have one cluster.                                *)
LEMMA ClustersPart ==
  ASSUME NEW n \in Nets, NEW m \in ClusterOf[n] PROVE m \in Nets /\ ClusterOf[m] = ClusterOf[n]
<1> DEFINE Of(x) == {y \in Inner : \A S \in SUBSET Inner : Joined(S) /\ x \in S => y \in S}
<1>1. CASE n \in Terminals BY <1>1 DEF ClusterOf
<1>2. CASE n \notin Terminals
  <2>1. n \in Inner /\ ClusterOf[n] = Of(n) BY <1>2 DEF Inner, ClusterOf
  <2>2. m \in Inner /\ m \in Nets /\ m \notin Terminals BY <2>1 DEF Inner
  <2>3. ClusterOf[m] = Of(m) BY <2>2 DEF ClusterOf
  <2>4. ASSUME NEW S \in SUBSET Inner, Joined(S) PROVE m \in S <=> n \in S
    <3>1. n \in S => m \in S BY <2>1, <2>4
    <3>2. n \in Inner \ S => m \in Inner \ S BY <2>1, <2>4, OthersJoined
    <3> QED BY <3>1, <3>2, <2>1
  <2>5. \A y : y \in Of(m) <=> y \in Of(n) BY <2>4
  <2> QED BY <2>1, <2>2, <2>3, <2>5
<1> QED BY <1>1, <1>2

(* A net is in its own cluster, which has a terminal only if it is one.     *)
LEMMA ClusterHasNet ==
  ASSUME NEW n \in Nets
  PROVE /\ n \in ClusterOf[n] /\ ClusterOf[n] \in Clusters
        /\ \A t \in ClusterOf[n] \cap Terminals : ClusterOf[n] = {t}
BY DEF ClusterOf, Clusters, Inner

-----------------------------------------------------------------------------
(* What a cluster's nets are a function of.                                 *)

Agree(c, a, b) ==
  /\ \A s \in SlotsIn(c) : a.drive[s] = b.drive[s]
  /\ \A t \in Reads(c) : a.held[t] = b.held[t]
  /\ c \cap a.read = c \cap b.read

(* The sources that reach a net.                                            *)
LEMMA ReachingAgrees ==
  ASSUME NEW c, NEW n, NEW phase, NEW a, NEW b, Agree(c, a, b)
  PROVE Reaching(c, n, phase, a) = Reaching(c, n, phase, b) /\ Sources(c, phase, a) = Sources(c, phase, b)
<1>1. Sources(c, phase, a) = Sources(c, phase, b) BY DEF Agree, Sources
<1> DEFINE Slots(x) == {[slot |-> s, order |-> s, v |-> Port(x.drive[s], phase).v,
              z |-> Port(x.drive[s], phase).z, seg |-> x.drive[s].seg, path |-> Ohms[n][NetOf[s]]] :
              s \in Sources(c, phase, x)}
           Holding(x) == {u \in Reads(c) : x.held[u].v >= 0 /\ Ohms[n][u] < Infinite}
           Held(x) == {[slot |-> 0, order |-> Infinite + t, v |-> x.held[t].v, z |-> 0, seg |-> "none",
              path |-> Ohms[n][t]] : t \in Holding(x)}
<1>2. Slots(a) = Slots(b)
  <2>1. \A s \in Sources(c, phase, a) : a.drive[s] = b.drive[s] BY DEF Agree, Sources
  <2> QED BY <1>1, <2>1
<1>3. Held(a) = Held(b)
  <2>1. Holding(a) = Holding(b) BY DEF Agree
  <2>2. \A t \in Holding(a) : a.held[t] = b.held[t] BY DEF Agree
  <2> HIDE DEF Holding
  <2> QED BY <2>1, <2>2
<1>4. Reaching(c, n, phase, a) = Slots(a) \cup Held(a) BY DEF Reaching
<1>5. Reaching(c, n, phase, b) = Slots(b) \cup Held(b) BY DEF Reaching
<1> HIDE DEF Slots, Held
<1> QED BY <1>1, <1>2, <1>3, <1>4, <1>5

(* Whether it is clocked, and what is asked of it.                          *)
LEMMA ClusterAgrees ==
  ASSUME NEW c, NEW a, NEW b, Agree(c, a, b)
  PROVE /\ PeriodicIn(c, a) <=> PeriodicIn(c, b)
        /\ Eager(c, a) <=> Eager(c, b)
        /\ OnRequest(c, a) <=> OnRequest(c, b)
<1>1. PeriodicIn(c, a) <=> PeriodicIn(c, b) BY DEF Agree, PeriodicIn
<1>2. Phases(c, a) = Phases(c, b) BY <1>1 DEF Phases
<1>3. \A phase : Sources(c, phase, a) = Sources(c, phase, b) BY ReachingAgrees
<1>4. Sourced(c, a) <=> Sourced(c, b) BY <1>2, <1>3 DEF Agree, Sourced
<1>5. Eager(c, a) <=> Eager(c, b) BY <1>4 DEF Agree, Eager
<1> QED BY <1>1, <1>4, <1>5 DEF OnRequest

(* What one phase decides of a net from the sources that reach it.          *)
LEMMA RanAgrees ==
  ASSUME NEW c, NEW n, NEW reaching, NEW ranked, NEW a, NEW b, Agree(c, a, b)
  PROVE Ran(c, n, reaching, ranked, a) = Ran(c, n, reaching, ranked, b)
<1> DEFINE Fights(x) == {u \in c \cap Terminals : x.held[u].fought}
           Fight(x) == {x.held[t].v : t \in Fights(x)}
           Unmodels(x) == {u \in Reads(c) : x.held[u].v = Unmodelled}
<1>1. c \cap Terminals \subseteq Reads(c) BY DEF Reads
<1>2. Fights(a) = Fights(b) BY <1>1 DEF Agree
<1>3. \A t \in Fights(a) : a.held[t] = b.held[t] BY <1>1 DEF Agree
<1>4. Fight(a) = Fight(b)
  <2> HIDE DEF Fights
  <2> QED BY <1>2, <1>3
<1>5. Unmodels(a) = Unmodels(b) BY DEF Agree
<1>6. UnmodelledOrFloating(c, n, a) = UnmodelledOrFloating(c, n, b)
  BY <1>5 DEF UnmodelledOrFloating
<1>7. OnRequest(c, a) <=> OnRequest(c, b) BY ClusterAgrees
<1> DEFINE readings == Analog(Solve(reaching))
           Asked(fight, floating) ==
             CASE fight # {} -> Outcome(readings, Min(fight), InBand(Min(fight)))
               [] fight = {} /\ reaching = {} -> Outcome(floating, Nothing, FALSE)
               [] OTHER -> Outcome(readings, readings.a, ranked.fought)
           Unasked(fight, floating) ==
             CASE fight # {} -> Outcome(IF InBand(Min(fight)) THEN Contention ELSE Analog(Min(fight)),
                                        Min(fight), InBand(Min(fight)))
               [] fight = {} /\ reaching = {} -> Outcome(floating, Nothing, FALSE)
               [] OTHER -> ranked
<1>8. ASSUME NEW x, OnRequest(c, x)
      PROVE Ran(c, n, reaching, ranked, x) = Asked(Fight(x), UnmodelledOrFloating(c, n, x))
  <2>1. CASE Fight(x) # {} BY <1>8, <2>1 DEF Ran
  <2>2. CASE Fight(x) = {} /\ reaching = {} BY <2>2 DEF Ran
  <2>3. CASE Fight(x) = {} /\ reaching # {} BY <1>8, <2>3 DEF Ran
  <2> QED BY <2>1, <2>2, <2>3
<1>9. ASSUME NEW x, ~OnRequest(c, x)
      PROVE Ran(c, n, reaching, ranked, x) = Unasked(Fight(x), UnmodelledOrFloating(c, n, x))
  <2>1. CASE Fight(x) # {} BY <1>9, <2>1 DEF Ran
  <2>2. CASE Fight(x) = {} /\ reaching = {} BY <2>2 DEF Ran
  <2>3. CASE Fight(x) = {} /\ reaching # {} BY <1>9, <2>3 DEF Ran
  <2> QED BY <2>1, <2>2, <2>3
<1> HIDE DEF Fight, Asked, Unasked
<1>10. CASE OnRequest(c, a) BY <1>4, <1>6, <1>7, <1>8, <1>10
<1>11. CASE ~OnRequest(c, a) BY <1>4, <1>6, <1>7, <1>9, <1>11
<1> QED BY <1>10, <1>11

(* What a phase decides of a net: the sources that reach it agree.          *)
LEMMA PhaseAgrees ==
  ASSUME NEW c, NEW n, NEW phase, NEW a, NEW b, Agree(c, a, b)
  PROVE RunPhase(c, n, Reaching(c, n, phase, a), a) = RunPhase(c, n, Reaching(c, n, phase, b), b)
BY ReachingAgrees, RanAgrees DEF RunPhase

(* What is laid over it, by the rates that arrive.                          *)
LEMMA OverlayAgrees ==
  ASSUME NEW own, NEW contending, NEW arrived, NEW a, NEW b,
         \A s \in arrived : a.drive[s] = b.drive[s]
  PROVE Overlay(own, contending, arrived, a) = Overlay(own, contending, arrived, b)
<1>1. CASE arrived = {} BY <1>1 DEF Overlay
<1>2. CASE arrived # {}
  <2> DEFINE s == CHOOSE x \in arrived : TRUE
  <2>1. s \in arrived BY <1>2
  <2>2. a.drive[s] = b.drive[s] BY <2>1
  <2> QED BY <2>2 DEF Overlay
<1> QED BY <1>1, <1>2

(* resolve_cluster of one net: the state it publishes.                      *)
LEMMA ResolveAgrees ==
  ASSUME NEW n \in Nets, NEW arrived, NEW a, NEW b, Agree(ClusterOf[n], a, b),
         \A s \in arrived : a.drive[s] = b.drive[s]
  PROVE ResolveNet(n, arrived, a) = ResolveNet(n, arrived, b)
<1> DEFINE c == ClusterOf[n]
           high == Reaching(c, n, "high", a)
           low == Reaching(c, n, "low", a)
<1>1. high = Reaching(c, n, "high", b) /\ low = Reaching(c, n, "low", b) BY ReachingAgrees
<1>2. /\ RunPhase(c, n, high, a) = RunPhase(c, n, high, b)
      /\ RunPhase(c, n, low, a) = RunPhase(c, n, low, b)
  BY <1>1, PhaseAgrees
<1>3. PeriodicIn(c, a) <=> PeriodicIn(c, b) BY ClusterAgrees
<1>4. \A own, contending : Overlay(own, contending, arrived, a) = Overlay(own, contending, arrived, b)
  BY OverlayAgrees
<1>5. \A x \in {a, b} : ResolveIn(c, n, high, low, arrived, x) =
        LET hi == RunPhase(c, n, high, x)
            contending == Contending(high) \cup Contending(low)
            clocked == CombinePhases(hi, RunPhase(c, n, low, x), {high, low}, contending)
        IN  IF PeriodicIn(c, x) THEN Overlay(clocked, contending, arrived, x)
            ELSE Overlay([st |-> hi.st, volts |-> Dc(hi.v)], {}, arrived, x)
  BY DEF ResolveIn
<1>6. ResolveIn(c, n, high, low, arrived, a) = ResolveIn(c, n, high, low, arrived, b)
  <2> HIDE DEF c, high, low
  <2>1. CASE PeriodicIn(c, a) BY <1>2, <1>3, <1>4, <1>5, <2>1
  <2>2. CASE ~PeriodicIn(c, a) BY <1>2, <1>3, <1>4, <1>5, <2>2
  <2> QED BY <2>1, <2>2
<1> QED BY <1>1, <1>6 DEF ResolveNet

(* record_branch_currents of one slot: the current it names.                *)
LEMMA CurrentAgrees ==
  ASSUME NEW p \in Pins \ Rails, NEW a, NEW b, Agree(ClusterOf[NetOf[p]], a, b)
  PROVE CurrentInto(p, a) = CurrentInto(p, b)
<1> DEFINE c == ClusterOf[NetOf[p]]
           Pass1(x) == LET reaching == Reaching(c, NetOf[p], "high", x)
                           port == Port(x.drive[p], "high")
                           across == Solve(reaching) - port.v
                       IN  IF reaching = {} THEN <<>>
                           ELSE IF port.z = Infinite \/ across = 0 THEN <<0, 1>>
                           ELSE <<across, port.z>>
<1>1. a.drive[p] = b.drive[p]
  <2>1. NetOf[p] \in c BY ClusterHasNet, NetAssumption
  <2> QED BY <2>1 DEF Agree, SlotsIn
<1>2. \A n : Reaching(c, n, "high", a) = Reaching(c, n, "high", b) BY ReachingAgrees
<1>3. /\ PeriodicIn(c, a) <=> PeriodicIn(c, b)
      /\ Eager(c, a) <=> Eager(c, b)
      /\ OnRequest(c, a) <=> OnRequest(c, b)
  BY ClusterAgrees
<1>4. Solved(c, a) <=> Solved(c, b) BY <1>2, <1>3 DEF Solved
<1>5. Pass1(a) = Pass1(b) BY <1>1, <1>2
<1>6. \A x \in {a, b} : CurrentInto(p, x) = IF PeriodicIn(c, x) \/ ~Solved(c, x) THEN <<>> ELSE Pass1(x)
  BY DEF CurrentInto
<1> HIDE DEF Pass1, c
<1> QED BY <1>3, <1>4, <1>5, <1>6

-----------------------------------------------------------------------------
(* Nothing a pass leaves out is stale.                                      *)

(* The clusters any clock reaches are forgotten or are those of the clocks. *)
Cached == reached = Stale \/ reached = UNION {CoupledClusters(p) : p \in Clocked}

(* A rate that arrives at a net couples into its cluster.                   *)
LEMMA ArrivesFromCoupled ==
  ASSUME NEW n, NEW tbl, NEW s \in Arrivals(n, tbl)
  PROVE /\ s \in Pins \ Rails /\ IsPeriodic(tbl.drive[s])
        /\ ClusterOf[n] \in CoupledClusters(s)
BY DEF Arrivals, CoupledClusters

(* What a pass must make dirty.                                             *)
Covers(dirty) ==
  /\ \A s \in Pins \ Rails : Slot(s)' # Slot(s) =>
       /\ ClusterOf[NetOf[s]] \in dirty
       /\ IsPeriodic(Slot(s)) \/ IsPeriodic(Slot(s)') => CoupledClusters(s) \subseteq dirty
  /\ \A t \in Terminals : Decided(t)' # Decided(t) => TerminalDirty(t) \subseteq dirty
  /\ \A n \in Nets : ~(n \in reads' <=> n \in reads) => ClusterOf[n] \in dirty

(* A terminal is decided by the rails and the sources of now.               *)
LEMMA PassDecides ==
  ASSUME NothingStale, NEW dirty, Pass(dirty), Covers(dirty)
  PROVE \A t \in Terminals : held'[t] = Decided(t)'
<1> SUFFICES ASSUME NEW t \in Terminals PROVE held'[t] = Decided(t)' OBVIOUS
<1>1. held'[t] = IF {t} \in dirty THEN Decided(t)' ELSE held[t] BY DEF Pass
<1>2. CASE {t} \in dirty BY <1>1, <1>2
<1>3. CASE {t} \notin dirty
  <2>1. {t} \in TerminalDirty(t) BY DEF TerminalDirty
  <2>2. Decided(t)' = Decided(t) BY <2>1, <1>3 DEF Covers
  <2>3. held[t] = Decided(t) BY DEF NothingStale
  <2> QED BY <1>1, <1>3, <2>2, <2>3
<1> QED BY <1>2, <1>3

(* Of a cluster it leaves out, nothing its nets are a function of moved.    *)
LEMMA LeftOutAgrees ==
  ASSUME NothingStale, NEW dirty, Pass(dirty), Covers(dirty),
         NEW n \in Nets, ClusterOf[n] \notin dirty
  PROVE /\ Agree(ClusterOf[n], Table, Table')
        /\ Arrivals(n, Table) = Arrivals(n, Table')
        /\ \A s \in Arrivals(n, Table) : Table.drive[s] = Table'.drive[s]
<1> DEFINE c == ClusterOf[n]
<1>1. ASSUME NEW s \in SlotsIn(c) PROVE Table.drive[s] = Table'.drive[s]
  <2>1. s \in Pins \ Rails /\ ClusterOf[NetOf[s]] = c BY ClustersPart DEF SlotsIn
  <2>2. Slot(s)' = Slot(s) BY <2>1 DEF Covers
  <2> QED BY <2>1, <2>2 DEF Table
<1>2. ASSUME NEW t \in Reads(c) PROVE Table.held[t] = Table'.held[t]
  <2>1. t \in Terminals /\ c \in TerminalDirty(t)
    <3>1. CASE t \in c \cap Terminals BY <3>1, ClusterHasNet DEF TerminalDirty
    <3>2. CASE t \in Boundary[c]
      BY <3>2, ClusterHasNet DEF Boundary, TerminalDirty, Dependents
    <3> QED BY <3>1, <3>2 DEF Reads
  <2>2. Decided(t)' = Decided(t) BY <2>1 DEF Covers
  <2>3. held[t] = Decided(t) BY <2>1 DEF NothingStale
  <2>4. held'[t] = Decided(t)' BY <2>1, PassDecides
  <2> QED BY <2>2, <2>3, <2>4 DEF Table
<1>3. c \cap Table.read = c \cap Table'.read
  <2>1. \A m \in c : m \in reads <=> m \in reads' BY ClustersPart DEF Covers
  <2> QED BY <2>1 DEF Table
<1>4. ASSUME NEW s \in Arrivals(n, Table) \cup Arrivals(n, Table')
      PROVE Table.drive[s] = Table'.drive[s]
  <2>1. s \in Pins \ Rails /\ c \in CoupledClusters(s) BY ArrivesFromCoupled
  <2>2. IsPeriodic(Table.drive[s]) \/ IsPeriodic(Table'.drive[s]) BY ArrivesFromCoupled
  <2>3. IsPeriodic(Slot(s)) \/ IsPeriodic(Slot(s)') BY <2>1, <2>2 DEF Table
  <2>4. Slot(s)' = Slot(s) BY <2>1, <2>3 DEF Covers
  <2> QED BY <2>1, <2>4 DEF Table
<1>5. Arrivals(n, Table) = Arrivals(n, Table') BY <1>4 DEF Arrivals
<1> QED BY <1>1, <1>2, <1>3, <1>4, <1>5 DEF Agree

(* The clusters any clock reaches, where a pass has clocks and dirt.        *)
LEMMA PassCaches ==
  ASSUME Cached, NEW dirty, Pass(dirty)
  PROVE /\ Cached'
        /\ dirty # {} /\ Clocked' # {} => reached' = UNION {CoupledClusters(p) : p \in Clocked'}
<1> DEFINE skip == dirty = {} \/ Clocked' = {}
           clusters == UNION {CoupledClusters(p) : p \in Clocked'}
<1>1. reached' = IF ~skip /\ Noted = Stale THEN clusters ELSE Noted BY DEF Pass
<1>2. Noted = IF Clocked' = Clocked THEN reached ELSE Stale BY DEF Noted
<1>3. Cached' <=> (reached' = Stale \/ reached' = clusters) BY DEF Cached, Stale
<1>4. Noted = Stale \/ Noted = clusters BY <1>2 DEF Cached
<1>5. clusters = UNION {CoupledClusters(p) : p \in Clocked'} OBVIOUS
<1> HIDE DEF clusters
<1> QED BY <1>1, <1>3, <1>4, <1>5

(* A pass leaves every net, terminal and current as a full pass would.      *)
LEMMA PassKeeps ==
  ASSUME NothingStale, Cached, NEW dirty, Pass(dirty), Covers(dirty)
  PROVE NothingStale' /\ Cached'
<1>1. \A t \in Terminals : held'[t] = Decided(t)' BY PassDecides
<1>2. ASSUME NEW n \in Nets PROVE net'[n] = ResolveNet(n, Arrivals(n, Table'), Table')
  <2>1. CASE ClusterOf[n] \in dirty
    <3> DEFINE none == (dirty = {} \/ Clocked' = {}) \/ dirty \cap reached' = {}
    <3>1. net'[n] = ResolveNet(n, IF none THEN {} ELSE Arrivals(n, Table'), Table')
      BY <2>1 DEF Pass
    <3>2. ASSUME none PROVE Arrivals(n, Table') = {}
      <4> SUFFICES ASSUME NEW s \in Arrivals(n, Table') PROVE FALSE OBVIOUS
      <4>1. s \in Pins \ Rails /\ IsPeriodic(Table'.drive[s]) /\ ClusterOf[n] \in CoupledClusters(s)
        BY ArrivesFromCoupled
      <4>2. s \in Clocked' BY <4>1 DEF Clocked, Table
      <4>3. reached' = UNION {CoupledClusters(p) : p \in Clocked'} BY <2>1, <4>2, PassCaches
      <4>4. ClusterOf[n] \in dirty \cap reached' BY <2>1, <4>1, <4>2, <4>3
      <4> QED BY <4>2, <4>4, <3>2
    <3> HIDE DEF none
    <3> QED BY <3>1, <3>2
  <2>2. CASE ClusterOf[n] \notin dirty
    <3>1. net'[n] = net[n] BY <2>2 DEF Pass
    <3>2. net[n] = ResolveNet(n, Arrivals(n, Table), Table) BY DEF NothingStale
    <3>3. ResolveNet(n, Arrivals(n, Table), Table) = ResolveNet(n, Arrivals(n, Table), Table')
      BY <2>2, LeftOutAgrees, ResolveAgrees
    <3> QED BY <2>2, <3>1, <3>2, <3>3, LeftOutAgrees
  <2> QED BY <2>1, <2>2
<1>3. ASSUME NEW p \in Pins \ Rails PROVE amps'[p] = CurrentInto(p, Table')
  <2>1. NetOf[p] \in Nets BY NetAssumption
  <2>2. CASE ClusterOf[NetOf[p]] \in dirty BY <2>2 DEF Pass
  <2>3. CASE ClusterOf[NetOf[p]] \notin dirty
    <3>1. amps'[p] = amps[p] BY <2>3 DEF Pass
    <3>2. amps[p] = CurrentInto(p, Table) BY DEF NothingStale
    <3>3. CurrentInto(p, Table) = CurrentInto(p, Table')
      BY <2>1, <2>3, LeftOutAgrees, CurrentAgrees
    <3> QED BY <3>1, <3>2, <3>3
  <2> QED BY <2>2, <2>3
<1>4. NothingStale' BY <1>1, <1>2, <1>3 DEF NothingStale
<1> QED BY <1>4, PassCaches

-----------------------------------------------------------------------------
(* The steps of the plane.                                                  *)

(* A terminal is decided again only where a rail on it or a source moved.   *)
LEMMA DecidedMoves ==
  ASSUME NEW t \in Terminals, Decided(t)' # Decided(t) PROVE TerminalDirty(t) \subseteq Dirtied
<1> DEFINE On == {r \in Rails : NetOf[r] = t}
           From == {g \in Stuck : g.net = t}
<1>1. CASE \E p \in On : FromSlot(Slot(p))' # FromSlot(Slot(p))
  <2>1. PICK p \in On : FromSlot(Slot(p))' # FromSlot(Slot(p)) BY <1>1
  <2>2. Slot(p)' # Slot(p) BY <2>1
  <2>3. p \in Pins /\ p \in Rails /\ NetOf[p] = t BY <2>1, FaultAssumption
  <2> QED BY <2>1, <2>2, <2>3 DEF Dirtied
<1>2. CASE \E f \in From : holds'[f] # holds[f] BY <1>2 DEF Dirtied
<1>3. CASE /\ \A p \in On : FromSlot(Slot(p))' = FromSlot(Slot(p))
           /\ \A f \in From : holds'[f] = holds[f]
  <2>1. [p \in On |-> FromSlot(Slot(p))]' = [p \in On |-> FromSlot(Slot(p))] BY <1>3
  <2>2. [f \in From |-> IF holds[f] THEN f.volts ELSE Nothing]'
          = [f \in From |-> IF holds[f] THEN f.volts ELSE Nothing] BY <1>3
  <2> HIDE DEF On, From
  <2>3. Decided(t)' = Decided(t) BY <2>1, <2>2 DEF Decided, On, From
  <2> QED BY <2>3
<1> QED BY <1>1, <1>2, <1>3

PlaneInv == NothingStale /\ Cached /\ pending \subseteq Nets

LEMMA PlaneInvInit == PlaneInit => PlaneInv
<1> SUFFICES ASSUME PlaneInit PROVE PlaneInv OBVIOUS
<1>1. NothingStale BY DEF PlaneInit, NothingStale
<1>2. Cached BY DEF PlaneInit, Cached
<1>3. pending = {} BY DEF PlaneInit
<1> QED BY <1>1, <1>2, <1>3 DEF PlaneInv

LEMMA PlaneInvStep == PlaneInv /\ [PlaneNext]_plane => PlaneInv'
<1> SUFFICES ASSUME PlaneInv, [PlaneNext]_plane PROVE PlaneInv' OBVIOUS
<1> USE DEF PlaneInv
<1>0. ASSUME UNCHANGED <<vars, wanted, net, held, reached, amps, reads>> PROVE NothingStale' /\ Cached'
  BY <1>0 DEF NothingStale, Cached, Table, Slot, Decided, Clocked, vars
<1>1. ASSUME NEW p \in Pins, NEW d \in Publishes[p], Publish(p, d) PROVE PlaneInv'
  <2>1. Covers(Dirtied)
    <3>1. ASSUME NEW s \in Pins \ Rails, Slot(s)' # Slot(s)
          PROVE /\ ClusterOf[NetOf[s]] \in Dirtied
                /\ IsPeriodic(Slot(s)) \/ IsPeriodic(Slot(s)') => CoupledClusters(s) \subseteq Dirtied
      BY <3>1 DEF Dirtied
    <3>2. reads' = reads BY <1>1 DEF Publish
    <3> QED BY <3>1, <3>2, DecidedMoves DEF Covers
  <2>2. Pass(Dirtied) /\ pending' = pending BY <1>1 DEF Publish
  <2> QED BY <2>1, <2>2, PassKeeps
<1>2. CASE RegisterSense BY <1>0, <1>2 DEF RegisterSense
<1>3. ASSUME NEW p \in Probed, WatchCurrent(p) PROVE PlaneInv'
  <2>1. NetOf[p] \in Nets BY PlaneAssumption, NetAssumption
  <2> QED BY <1>0, <1>3, <2>1 DEF WatchCurrent
<1>4. CASE DeclareReads
  <2> DEFINE dirty == {ClusterOf[n] : n \in pending}
  <2>1. Pass(dirty) /\ reads' = reads \cup pending /\ pending' = {} /\ UNCHANGED <<vars, wanted>>
    BY <1>4 DEF DeclareReads
  <2>2. \A s : Slot(s)' = Slot(s) BY <2>1 DEF Slot, vars
  <2>3. \A t : Decided(t)' = Decided(t) BY <2>1, <2>2 DEF Decided, vars
  <2>4. Covers(dirty) BY <2>1, <2>2, <2>3 DEF Covers
  <2> HIDE DEF dirty
  <2> QED BY <2>1, <2>4, PassKeeps
<1>5. CASE UNCHANGED plane BY <1>0, <1>5 DEF plane
<1> QED BY <1>1, <1>2, <1>3, <1>4, <1>5 DEF PlaneNext

(* Whatever drives are published, faults open and close and instruments     *)
(* come, every net, terminal and current is what a full pass would leave:   *)
(* the dirty set of apply_drive misses nothing a drive can move             *)
(* (resolve_and_publish_dirty).                                             *)
THEOREM NothingStaleAlways == PlaneSpec => []NothingStale
<1>1. PlaneInv => NothingStale BY DEF PlaneInv
<1> QED BY <1>1, PlaneInvInit, PlaneInvStep, PTL DEF PlaneSpec

-----------------------------------------------------------------------------
(* Every reader holds what it would read again.                             *)

Levels == {0, 1, Nothing}

(* A projection is decided by the voltage, or keeps the level or loses it.  *)
LEMMA ProjectShape ==
  ASSUME NEW x, NEW span, NEW v
  PROVE \/ \E k \in Levels : \A last \in Levels : Project(x, span, v, last) = k
        \/ \A last \in Levels : Project(x, span, v, last) \in {last, Nothing}
BY DEF Project, Levels, Nothing

(* A level is a level.                                                      *)
LEMMA ProjectLevels ==
  ASSUME NEW x, NEW span, NEW v, NEW last \in Levels
  PROVE /\ Project(x, span, v, last) \in Levels
        /\ Project(x, span, v, Project(x, span, v, last)) = Project(x, span, v, last)
BY DEF Project, Levels, Nothing

(* A read of what two phases agree on is a read of the same.                *)
Both(phases) == IF phases[1] = phases[2] THEN phases[1] ELSE Nothing

LEMMA PhasesSettle ==
  ASSUME NEW x, NEW span, NEW hi, NEW lo, NEW last \in Levels
  PROVE LET both == Both(PhaseLevels(x, span, hi, lo, last))
        IN  both \in Levels /\ Both(PhaseLevels(x, span, hi, lo, both)) = both
<1> DEFINE H(l) == Project(x, span, hi, l)
           L(l) == Project(x, span, lo, l)
           Twice(l) == H(L(H(l)))
           Read(l) == IF Twice(l) = L(Twice(l)) THEN Twice(l) ELSE Nothing
<1>1. /\ \A l \in Levels : H(l) \in Levels /\ H(H(l)) = H(l)
      /\ \A l \in Levels : L(l) \in Levels /\ L(L(l)) = L(l)
  BY ProjectLevels
<1>2. \/ \E k \in Levels : \A l \in Levels : H(l) = k
      \/ \A l \in Levels : H(l) \in {l, Nothing}
  BY ProjectShape
<1>3. \/ \E k \in Levels : \A l \in Levels : L(l) = k
      \/ \A l \in Levels : L(l) \in {l, Nothing}
  BY ProjectShape
<1>4. \A l : Both(PhaseLevels(x, span, hi, lo, l)) = Read(l) BY DEF Both, PhaseLevels
<1>5. Nothing \in Levels BY DEF Levels
<1> HIDE DEF H, L
<1>6. Twice(last) \in Levels BY <1>1
<1>7. CASE Twice(last) = L(Twice(last))
  <2> DEFINE r == Twice(last)
  <2>1. H(r) = r BY <1>1
  <2>2. L(r) = r BY <1>7
  <2>3. Twice(r) = r BY <2>1, <2>2
  <2> HIDE DEF r
  <2>4. Read(r) = r BY <2>2, <2>3
  <2> QED BY <1>4, <1>6, <1>7, <2>4 DEF r
<1>8. CASE Twice(last) # L(Twice(last))
  <2>1. Read(last) = Nothing BY <1>8
  <2>2. CASE \E k \in Levels : \A l \in Levels : H(l) = k
    <3>1. Twice(Nothing) = Twice(last) BY <1>1, <1>5, <2>2
    <3> QED BY <1>4, <1>5, <1>8, <2>1, <3>1
  <2>3. CASE \A l \in Levels : H(l) \in {l, Nothing}
    <3>1. CASE \E k \in Levels : \A l \in Levels : L(l) = k
      <4>1. Twice(Nothing) = Twice(last) BY <1>1, <1>5, <3>1
      <4> QED BY <1>4, <1>5, <1>8, <2>1, <4>1
    <3>2. CASE \A l \in Levels : L(l) \in {l, Nothing}
      <4>1. H(Nothing) = Nothing /\ L(Nothing) = Nothing BY <1>5, <2>3, <3>2
      <4>2. Read(Nothing) = Nothing BY <4>1
      <4> QED BY <1>4, <1>5, <2>1, <4>2
    <3> QED BY <1>3, <3>1, <3>2
  <2> QED BY <1>2, <2>2, <2>3
<1> QED BY <1>7, <1>8

(* DigitalReceiver.read keeps what it reads, read again.                    *)
LEMMA ReadSettles ==
  ASSUME NEW s \in DOMAIN Senses, NEW nets, NEW last \in Levels
  PROVE LET read == ReadLevel(s, nets, last)
        IN  read \in Levels /\ ReadLevel(s, nets, read) = read
<1> DEFINE x == Senses[s]
           at == nets[x.net]
           ref == IF x.ref = 0 THEN 0 ELSE nets[x.ref].volts.dc
           supply == IF x.supply = 0 THEN ref + 10 ELSE nets[x.supply].volts.dc
           span == supply - ref
           Measured(v) == IF v = Nothing THEN Nothing ELSE v - ref
           dc == Measured(at.volts.dc)
           hi == Measured(at.volts.hi)
           lo == Measured(at.volts.lo)
           Ruled(l) ==
             IF ref = Nothing \/ supply = Nothing THEN Nothing
             ELSE IF at.volts.dc # Nothing THEN Project(x, span, dc, l)
             ELSE IF at.st.kind = "periodic" THEN Both(PhaseLevels(x, span, hi, lo, l))
             ELSE Nothing
<1>1. \A l : ReadLevel(s, nets, l) = Ruled(l) BY DEF ReadLevel, Both
<1>2. /\ Project(x, span, dc, last) \in Levels
      /\ Project(x, span, dc, Project(x, span, dc, last)) = Project(x, span, dc, last)
  BY ProjectLevels
<1>3. LET both == Both(PhaseLevels(x, span, hi, lo, last))
      IN  both \in Levels /\ Both(PhaseLevels(x, span, hi, lo, both)) = both
  BY PhasesSettle
<1>4. Nothing \in Levels BY DEF Levels
<1> HIDE DEF x, at, ref, supply, span, Measured, dc, hi, lo
<1>5. Ruled(last) \in Levels /\ Ruled(Ruled(last)) = Ruled(last) BY <1>2, <1>3, <1>4
<1> HIDE DEF Ruled
<1> QED BY <1>1, <1>5

(* A subscription no net of which moved would read what it read.            *)
LEMMA ReadAgrees ==
  ASSUME NEW s \in DOMAIN Senses, NEW last, ~Called(s, Moved)
  PROVE ReadLevel(s, net', last) = ReadLevel(s, net, last)
<1>1. \A n \in {Senses[s].net} \cup Dependencies(s) : n \in Nets
  BY PlaneAssumption DEF Dependencies
<1>2. \A n \in {Senses[s].net} \cup Dependencies(s) : net'[n] = net[n]
  BY <1>1 DEF Called, Moved
<1>3. /\ net'[Senses[s].net] = net[Senses[s].net]
      /\ Senses[s].ref # 0 => net'[Senses[s].ref] = net[Senses[s].ref]
      /\ Senses[s].supply # 0 => net'[Senses[s].supply] = net[Senses[s].supply]
  BY <1>2 DEF Dependencies
<1> DEFINE x == Senses[s]
           RefOf(nets) == IF x.ref = 0 THEN 0 ELSE nets[x.ref].volts.dc
           SupplyOf(nets) ==
             IF x.supply = 0 THEN RefOf(nets) + 10 ELSE nets[x.supply].volts.dc
           Measured(v, ref) == IF v = Nothing THEN Nothing ELSE v - ref
           Sampled(own, ref, span) ==
             PhaseLevels(x, span, Measured(own.volts.hi, ref), Measured(own.volts.lo, ref), last)
           Ruled(own, ref, supply) ==
             IF ref = Nothing \/ supply = Nothing THEN Nothing
             ELSE IF own.volts.dc # Nothing
             THEN Project(x, supply - ref, Measured(own.volts.dc, ref), last)
             ELSE IF /\ own.st.kind = "periodic"
                     /\ Sampled(own, ref, supply - ref)[1] = Sampled(own, ref, supply - ref)[2]
             THEN Sampled(own, ref, supply - ref)[1] ELSE Nothing
<1>4. /\ ReadLevel(s, net, last) = Ruled(net[x.net], RefOf(net), SupplyOf(net))
      /\ ReadLevel(s, net', last) = Ruled(net'[x.net], RefOf(net'), SupplyOf(net'))
  BY Zenon DEF ReadLevel
<1>5. net'[x.net] = net[x.net] /\ RefOf(net') = RefOf(net) BY <1>3
<1>6. SupplyOf(net') = SupplyOf(net) BY <1>3, <1>5
<1> HIDE DEF x, RefOf, SupplyOf, Measured, Sampled, Ruled
<1> QED BY <1>4, <1>5, <1>6

ReadersInv ==
  /\ level \in Seq(Levels) /\ DOMAIN level \subseteq DOMAIN Senses
  /\ ReadersCurrent

(* A pass and the deliveries that end it.                                   *)
LEMMA PassTells ==
  ASSUME ReadersInv, NEW dirty, Pass(dirty), TellInstruments PROVE ReadersInv'
<1>1. level' = [s \in DOMAIN level |->
                  IF Called(s, Moved) THEN ReadLevel(s, net', level[s]) ELSE level[s]]
  BY DEF Pass
<1>2. ASSUME NEW s \in DOMAIN level
      PROVE level'[s] \in Levels /\ level'[s] = ReadLevel(s, net', level'[s])
  <2>1. s \in DOMAIN Senses /\ level[s] \in Levels BY DEF ReadersInv
  <2>2. CASE Called(s, Moved) BY <1>1, <2>1, <2>2, ReadSettles
  <2>3. CASE ~Called(s, Moved)
    <3>1. level'[s] = level[s] BY <1>1, <2>3
    <3>2. level[s] = ReadLevel(s, net, level[s]) BY DEF ReadersInv, ReadersCurrent
    <3> QED BY <2>1, <2>3, <3>1, <3>2, ReadAgrees
  <2> QED BY <2>2, <2>3
<1>3. DOMAIN level' = DOMAIN level BY <1>1
<1>4. level' \in Seq(Levels)
  <2>1. level' \in [DOMAIN level -> Levels] BY <1>1, <1>2
  <2>2. DOMAIN level = 1..Len(level) /\ Len(level) \in Nat BY DEF ReadersInv
  <2> QED BY <2>1, <2>2
<1>5. \A p \in DOMAIN watched' : watched'[p] = amps'[p]
  BY DEF TellInstruments, ReadersInv, ReadersCurrent
<1> QED BY <1>2, <1>3, <1>4, <1>5 DEF ReadersInv, ReadersCurrent

LEMMA ReadersInvInit == PlaneInit => ReadersInv
<1> SUFFICES ASSUME PlaneInit PROVE ReadersInv OBVIOUS
<1>1. level = <<>> /\ watched = <<>> BY DEF PlaneInit
<1> QED BY <1>1 DEF ReadersInv, ReadersCurrent

LEMMA ReadersInvStep == ReadersInv /\ [PlaneNext]_plane => ReadersInv'
<1> SUFFICES ASSUME ReadersInv, [PlaneNext]_plane PROVE ReadersInv' OBVIOUS
<1>1. ASSUME NEW p \in Pins, NEW d \in Publishes[p], Publish(p, d) PROVE ReadersInv'
  <2>1. Pass(Dirtied) /\ TellInstruments BY <1>1 DEF Publish
  <2> QED BY <2>1, PassTells
<1>2. CASE RegisterSense
  <2> DEFINE s == Len(level) + 1
             read == ReadLevel(s, net, Nothing)
  <2>1. /\ s \in DOMAIN Senses /\ level' = Append(level, read)
        /\ UNCHANGED <<net, amps, watched>>
    BY <1>2 DEF RegisterSense
  <2>2. Nothing \in Levels BY DEF Levels
  <2>3. read \in Levels /\ ReadLevel(s, net, read) = read BY <2>1, <2>2, ReadSettles
  <2>4. level \in Seq(Levels) /\ DOMAIN level \subseteq DOMAIN Senses
    BY DEF ReadersInv
  <2> HIDE DEF read
  <2>5. level' \in Seq(Levels) BY <2>1, <2>3, <2>4
  <2>6. \A r \in DOMAIN level' : IF r = s THEN level'[r] = read ELSE r \in DOMAIN level /\ level'[r] = level[r]
    BY <2>1, <2>4
  <2>7. DOMAIN level' \subseteq DOMAIN Senses BY <2>1, <2>4, <2>6
  <2>8. ASSUME NEW r \in DOMAIN level' PROVE level'[r] = ReadLevel(r, net', level'[r])
    <3>1. CASE r = s BY <2>1, <2>3, <2>6, <3>1
    <3>2. CASE r # s BY <2>1, <2>6, <3>2 DEF ReadersInv, ReadersCurrent
    <3> QED BY <3>1, <3>2
  <2>9. \A p \in DOMAIN watched' : watched'[p] = amps'[p] BY <2>1 DEF ReadersInv, ReadersCurrent
  <2> QED BY <2>5, <2>7, <2>8, <2>9 DEF ReadersInv, ReadersCurrent
<1>3. ASSUME NEW p \in Probed, WatchCurrent(p) PROVE ReadersInv'
  BY <1>3 DEF WatchCurrent, ReadersInv, ReadersCurrent
<1>4. CASE DeclareReads
  <2>1. Pass({ClusterOf[n] : n \in pending}) /\ TellInstruments BY <1>4 DEF DeclareReads
  <2> QED BY <2>1, PassTells
<1>5. CASE UNCHANGED plane BY <1>5 DEF plane, ReadersInv, ReadersCurrent
<1> QED BY <1>1, <1>2, <1>3, <1>4, <1>5 DEF PlaneNext

(* A receiver holds the level it would read of the nets of now, whatever    *)
(* moved last, its net, its reference or its supply (deliver_senses), and   *)
(* an instrument the current of now (deliver_currents).                     *)
THEOREM ReadersCurrentAlways == PlaneSpec => []ReadersCurrent
<1>1. ReadersInv => ReadersCurrent BY DEF ReadersInv
<1> QED BY <1>1, ReadersInvInit, ReadersInvStep, PTL DEF PlaneSpec

-----------------------------------------------------------------------------
(* The timed faults.                                                        *)

(* What a fault's terminal does is a matter of what it has counted.         *)
Sourcing == \A f \in Faults : holds[f] <=> f.kind # "float" /\ SourceHeld(f, seen[f])

LEMMA PlaneRunsFaults == [PlaneNext]_plane => [Next]_vars
<1>1. ASSUME NEW p \in Pins, NEW d \in Publishes[p], Publish(p, d) PROVE Next
  <2>1. ApplyDrive(p, d # Released) /\ (d # Released) \in BOOLEAN BY <1>1 DEF Publish
  <2> QED BY <2>1 DEF Next
<1>2. RegisterSense => UNCHANGED vars BY DEF RegisterSense
<1>3. ASSUME NEW p \in Probed, WatchCurrent(p) PROVE UNCHANGED vars BY <1>3 DEF WatchCurrent
<1>4. DeclareReads => UNCHANGED vars BY DEF DeclareReads
<1>5. UNCHANGED plane => UNCHANGED vars BY DEF plane
<1> QED BY <1>1, <1>2, <1>3, <1>4, <1>5 DEF PlaneNext

FaultsInv == TypeOK /\ Sourcing

LEMMA FaultsInvInit == Init => FaultsInv
<1> SUFFICES ASSUME Init PROVE FaultsInv OBVIOUS
<1>1. TypeOK
  <2>1. drives \in [Pins -> BOOLEAN] /\ requested \in [Pins -> BOOLEAN] BY DEF Init
  <2>2. seen \in [Faults -> 0..MaxSeen] BY FaultAssumption DEF Init
  <2>3. holds \in [Faults -> BOOLEAN] BY DEF Init
  <2> QED BY <2>1, <2>2, <2>3 DEF TypeOK
<1>2. Sourcing BY DEF Init, Sourcing
<1> QED BY <1>1, <1>2 DEF FaultsInv

LEMMA FaultsInvStep == FaultsInv /\ [Next]_vars => FaultsInv'
<1> SUFFICES ASSUME FaultsInv, [Next]_vars PROVE FaultsInv' OBVIOUS
<1>1. ASSUME NEW p \in Pins, NEW d \in BOOLEAN, ApplyDrive(p, d) PROVE FaultsInv'
  <2>1. drives' \in [Pins -> BOOLEAN] BY <1>1 DEF ApplyDrive
  <2>2. requested' \in [Pins -> BOOLEAN] BY <1>1 DEF ApplyDrive, FaultsInv, TypeOK
  <2>3. seen' \in [Faults -> 0..MaxSeen]
    BY <1>1, FaultAssumption DEF ApplyDrive, FaultsInv, TypeOK, Saturated
  <2>4. holds' \in [Faults -> BOOLEAN] BY <1>1 DEF ApplyDrive
  <2>5. Sourcing' BY <1>1 DEF ApplyDrive, Sourcing
  <2> QED BY <2>1, <2>2, <2>3, <2>4, <2>5 DEF FaultsInv, TypeOK
<1>2. CASE UNCHANGED vars BY <1>2 DEF vars, FaultsInv, TypeOK, Sourcing
<1> QED BY <1>1, <1>2 DEF Next

(* A fault whose window reaches the largest count has not counted so many.  *)
Unsaturated == \A f \in Faults : f.after + f.count < MaxSeen \/ seen[f] < MaxSeen

(* Counting a drive the window was open for holds the source, and no other. *)
LEMMA WindowCounted ==
  ASSUME FaultsInv, Unsaturated, NEW p \in Pins, NEW d, ApplyDrive(p, d),
         NEW f \in Faults, Counts(f, p)
  PROVE /\ seen'[f] > 0
        /\ CoversEdge(f, seen'[f] - 1) <=> WindowOpen(f)
<1>1. seen[f] \in 0..MaxSeen /\ seen'[f] = Saturated(seen[f] + 1)
  BY DEF ApplyDrive, FaultsInv, TypeOK
<1>2. MaxSeen \in Nat /\ f.after \in 0..MaxSeen /\ f.count \in 0..MaxSeen BY FaultAssumption
<1>3. CASE seen[f] < MaxSeen
  <2>1. seen'[f] = seen[f] + 1 BY <1>1, <1>2, <1>3 DEF Saturated
  <2> QED BY <1>1, <2>1 DEF WindowOpen
<1>4. CASE f.after + f.count < MaxSeen /\ seen[f] = MaxSeen
  <2>1. seen'[f] = MaxSeen /\ MaxSeen > 0 BY <1>1, <1>2, <1>4 DEF Saturated
  <2>2. WindowEnd(f) <= MaxSeen - 1 BY <1>2, <1>4 DEF WindowEnd, Saturated
  <2>3. WindowEnd(f) \in Nat BY <1>2 DEF WindowEnd, Saturated
  <2>4. ~CoversEdge(f, MaxSeen - 1) /\ ~CoversEdge(f, MaxSeen) BY <1>2, <2>2, <2>3 DEF CoversEdge
  <2> QED BY <1>4, <2>1, <2>4 DEF WindowOpen
<1> QED BY <1>1, <1>2, <1>3, <1>4 DEF Unsaturated

(* No pin that idles driving is under a stuck source from the start.        *)
IdleClear == \A f \in Faults, p \in Idle \ Rails :
  f.kind = "stuck" /\ Counts(f, p) => ~SourceHeld(f, 0)

LEMMA FightsInit == ASSUME IdleClear PROVE Init => NeverFights
BY DEF IdleClear, Init, NeverFights

LEMMA FightsStep == FaultsInv /\ Unsaturated /\ NeverFights /\ [Next]_vars => NeverFights'
<1> SUFFICES ASSUME FaultsInv, Unsaturated, NeverFights, [Next]_vars PROVE NeverFights' OBVIOUS
<1>1. ASSUME NEW p \in Pins, NEW d \in BOOLEAN, ApplyDrive(p, d),
             NEW f \in Faults, NEW q \in Pins \ Rails,
             f.kind = "stuck", holds'[f], Counts(f, q)
      PROVE ~drives'[q]
  <2>1. drives'[q] => IF q = p THEN ~Suppressed(p) ELSE drives[q] /\ ~LetsGo(p, q)
    BY <1>1 DEF ApplyDrive
  <2>2. SourceHeld(f, seen'[f]) BY <1>1, FaultsInvStep DEF FaultsInv, Sourcing
  <2>3. CASE Counts(f, p)
    <3>1. Suppresses(f, p) /\ Suppresses(f, q)
      <4>1. WindowOpen(f) BY <1>1, <2>2, <2>3, WindowCounted DEF SourceHeld
      <4> QED BY <1>1, <2>3, <4>1 DEF Suppresses
    <3>2. Suppressed(p) /\ Suppressed(q) BY <3>1 DEF Suppressed
    <3>3. q # p => NetOf[q] = NetOf[p] BY <1>1, <2>3 DEF Counts
    <3>4. q # p => LetsGo(p, q) BY <3>2, <3>3 DEF LetsGo
    <3> QED BY <2>1, <3>2, <3>4
  <2>4. CASE ~Counts(f, p)
    <3>1. seen'[f] = seen[f] BY <1>1, <2>4 DEF ApplyDrive
    <3>2. holds[f] BY <1>1, <2>2, <3>1 DEF FaultsInv, Sourcing
    <3>3. ~drives[q] BY <1>1, <3>2 DEF NeverFights
    <3>4. q # p BY <1>1, <2>4
    <3> QED BY <2>1, <3>3, <3>4
  <2> QED BY <2>3, <2>4
<1>2. ASSUME NEW p \in Pins, NEW d \in BOOLEAN, ApplyDrive(p, d) PROVE NeverFights'
  BY <1>1, <1>2 DEF NeverFights, Counts
<1>3. CASE UNCHANGED vars BY <1>3 DEF vars, NeverFights
<1> QED BY <1>2, <1>3 DEF Next

(* A stuck source fights no drive it replaces (source_held): on every board *)
(* where none is on before the first drive of a pin that idles driving, for *)
(* as long as no count of a window that never closes has saturated.         *)
THEOREM NeverFightsAlways ==
  ASSUME IdleClear PROVE PlaneSpec /\ []Unsaturated => []NeverFights
<1>1. PlaneInit => FaultsInv /\ NeverFights
  BY IdleClear, FaultsInvInit, FightsInit DEF PlaneInit
<1>2. FaultsInv /\ NeverFights /\ Unsaturated /\ [PlaneNext]_plane => (FaultsInv /\ NeverFights)'
  BY PlaneRunsFaults, FaultsInvStep, FightsStep
<1> QED BY <1>1, <1>2, PTL DEF PlaneSpec

(* A pin fault's pin is a rail, which nothing releases, or alone on its net. *)
AloneOrRail == \A f \in Faults : f.target \in Pins \ Rails =>
  \A q \in Pins : NetOf[q] = NetOf[f.target] => q = f.target

(* A pin under pin faults only, hidden by the windows that cover it.        *)
Hidden(p) == \E f \in Faults : f.kind # "contention" /\ Counts(f, p) /\ InForce(f)

LEMMA HiddenStep ==
  ASSUME AloneOrRail
  PROVE FaultsInv /\ Unsaturated /\ HiddenExactlyInWindow /\ [Next]_vars => HiddenExactlyInWindow'
<1> SUFFICES ASSUME FaultsInv, Unsaturated, HiddenExactlyInWindow, [Next]_vars
             PROVE HiddenExactlyInWindow' OBVIOUS
<1>1. ASSUME NEW p \in Pins, NEW d \in BOOLEAN, ApplyDrive(p, d), NEW q \in Pins, PinTargeted(q)
      PROVE requested'[q] /\ ~drives'[q] <=> requested'[q] /\ Hidden(q)'
  <2>1. requested'[q] <=> IF q = p THEN d ELSE requested[q]
    BY <1>1 DEF ApplyDrive, FaultsInv, TypeOK
  <2>2. drives'[q] <=> IF q = p THEN d /\ ~Suppressed(p) ELSE drives[q] /\ ~LetsGo(p, q)
    BY <1>1 DEF ApplyDrive
  <2>3. CASE q = p
    <3>1. ASSUME NEW f \in Faults, Counts(f, p) PROVE InForce(f)' <=> WindowOpen(f)
      BY <1>1, <3>1, WindowCounted DEF InForce
    <3>2. Hidden(q)' <=> Suppressed(p) BY <2>3, <3>1 DEF Hidden, Suppressed, Suppresses
    <3> QED BY <2>1, <2>2, <2>3, <3>2
  <2>4. CASE q # p
    <3>1. ~LetsGo(p, q)
      <4> SUFFICES ASSUME LetsGo(p, q) PROVE FALSE OBVIOUS
      <4>1. PICK f \in Faults : Counts(f, q) BY DEF LetsGo, Suppressed, Suppresses
      <4>2. f.target = q BY <1>1, <4>1 DEF PinTargeted
      <4>3. q \notin Rails /\ NetOf[p] = NetOf[q] BY DEF LetsGo
      <4> QED BY <1>1, <2>4, <4>2, <4>3, AloneOrRail DEF AloneOrRail
    <3>2. ASSUME NEW f \in Faults, Counts(f, q) PROVE seen'[f] = seen[f]
      <4>1. f.target = q BY <1>1, <3>2 DEF PinTargeted
      <4>2. ~Counts(f, p) BY <1>1, <2>4, <4>1, FaultAssumption DEF Counts
      <4> QED BY <1>1, <4>2 DEF ApplyDrive
    <3>3. Hidden(q)' <=> Hidden(q) BY <3>2 DEF Hidden, InForce
    <3>4. requested[q] /\ ~drives[q] <=> requested[q] /\ Hidden(q)
      BY <1>1 DEF HiddenExactlyInWindow, Hidden
    <3> QED BY <2>1, <2>2, <2>4, <3>1, <3>3, <3>4
  <2> QED BY <2>3, <2>4
<1>2. ASSUME NEW p \in Pins, NEW d \in BOOLEAN, ApplyDrive(p, d) PROVE HiddenExactlyInWindow'
  BY <1>1, <1>2 DEF HiddenExactlyInWindow, Hidden
<1>3. CASE UNCHANGED vars BY <1>3 DEF vars, HiddenExactlyInWindow, InForce
<1> QED BY <1>2, <1>3 DEF Next

(* A pin under pin faults only is hidden exactly while the drive in effect  *)
(* is one its window covers (window_open before the drive, source_held      *)
(* after it): on every board where such a pin is a rail or alone on its     *)
(* net, for as long as no count of a window that never closes saturated.    *)
THEOREM HiddenExactlyAlways ==
  ASSUME AloneOrRail PROVE PlaneSpec /\ []Unsaturated => []HiddenExactlyInWindow
<1>1. Init => HiddenExactlyInWindow BY DEF Init, HiddenExactlyInWindow, InForce
<1>2. PlaneInit => FaultsInv /\ HiddenExactlyInWindow
  BY <1>1, FaultsInvInit DEF PlaneInit
<1>3. FaultsInv /\ HiddenExactlyInWindow /\ Unsaturated /\ [PlaneNext]_plane
        => (FaultsInv /\ HiddenExactlyInWindow)'
  BY AloneOrRail, PlaneRunsFaults, FaultsInvStep, HiddenStep
<1> QED BY <1>2, <1>3, PTL DEF PlaneSpec

LEMMA FaultsEndStep ==
  ASSUME FaultsInv, [Next]_vars, NEW p \in Pins,
         \A f \in Faults : f.net = NetOf[p] => Over(f),
         requested'[p] # requested[p]
  PROVE /\ drives'[p] = requested'[p]
        /\ \A f \in Faults : f.net = NetOf[p] => ~holds'[f]
<1>1. PICK q \in Pins, d \in BOOLEAN : ApplyDrive(q, d) BY DEF Next, vars
<1>2. q = p BY <1>1 DEF ApplyDrive, FaultsInv, TypeOK
<1>3. ASSUME NEW f \in Faults, f.net = NetOf[p]
      PROVE ~WindowOpen(f) /\ ~SourceHeld(f, seen'[f])
  <2>1. /\ seen[f] \in 0..MaxSeen /\ WindowEnd(f) \in Nat /\ MaxSeen \in Nat
        /\ f.after \in Nat /\ seen[f] > WindowEnd(f)
    BY <1>3, FaultAssumption DEF FaultsInv, TypeOK, Over, WindowEnd, Saturated
  <2>2. seen'[f] \in Nat /\ seen'[f] >= seen[f]
    BY <1>1, <2>1 DEF ApplyDrive, Saturated
  <2>3. ~CoversEdge(f, seen[f]) /\ ~CoversEdge(f, seen'[f] - 1)
    BY <2>1, <2>2 DEF CoversEdge
  <2> QED BY <2>1, <2>2, <2>3 DEF WindowOpen, SourceHeld
<1>4. ~Suppressed(p)
  <2> SUFFICES ASSUME NEW f \in Faults, WindowOpen(f), Counts(f, p) PROVE FALSE
    BY DEF Suppressed, Suppresses
  <2>1. f.net = NetOf[p] BY FaultAssumption DEF Counts
  <2> QED BY <1>3, <2>1
<1>5. drives'[p] = d
  <2>1. drives'[p] = (d /\ ~Suppressed(p)) BY <1>1, <1>2 DEF ApplyDrive
  <2> QED BY <1>4, <2>1
<1>6. requested'[p] = d BY <1>1, <1>2 DEF ApplyDrive, FaultsInv, TypeOK
<1>7. \A f \in Faults : holds'[f] <=> f.kind # "float" /\ SourceHeld(f, seen'[f])
  BY <1>1 DEF ApplyDrive
<1> QED BY <1>3, <1>5, <1>6, <1>7

(* Once every fault of a net has run out, a drive on it is visible at once  *)
(* and no source is left on it (tick_edge_faults past the window): on every *)
(* board, whatever the windows and the counts.                              *)
THEOREM FaultsEndAlways == PlaneSpec => FaultsEnd
<1>1. PlaneInit => FaultsInv BY FaultsInvInit DEF PlaneInit
<1>2. FaultsInv /\ [PlaneNext]_plane => FaultsInv' BY PlaneRunsFaults, FaultsInvStep
<1>3. FaultsInv /\ [PlaneNext]_plane =>
        [\A p \in Pins :
           /\ \A f \in Faults : f.net = NetOf[p] => Over(f)
           /\ requested'[p] # requested[p]
           => drives'[p] = requested'[p]
              /\ \A f \in Faults : f.net = NetOf[p] => ~holds'[f]]_vars
  BY PlaneRunsFaults, FaultsEndStep
<1> QED BY <1>1, <1>2, <1>3, PTL DEF PlaneSpec, FaultsEnd

-----------------------------------------------------------------------------
(* The order of the drives.                                                *)

(* Every number is below the counter, the watched gap is not ahead of the   *)
(* turn.                                                                    *)
Below ==
  /\ nextDriveSeq <= driveSeq /\ gap.seq <= nextDriveSeq
  /\ \A t \in Threads : reserved[t] < driveSeq
  /\ \A i \in 1..Len(queue) : queue[i] < driveSeq
  /\ \A s \in pendingDrives : s < driveSeq

(* No number is in two places. *)
Apart ==
  /\ \A t, u \in Threads : reserved[t] # NoSeq /\ t # u => reserved[t] # reserved[u]
  /\ \A t \in Threads : reserved[t] \notin pendingDrives
  /\ \A t \in Threads, i \in 1..Len(queue) : reserved[t] # queue[i]
  /\ \A i, j \in 1..Len(queue) : queue[i] \in Seqs /\ i # j => queue[i] # queue[j]
  /\ \A i \in 1..Len(queue) : queue[i] \notin pendingDrives

(* What may still be applied is not behind the turn. *)
Ahead ==
  /\ \A t \in Threads \ dead : reserved[t] # NoSeq => nextDriveSeq <= reserved[t]
  /\ \A i \in 1..Len(queue) : queue[i] \in Seqs => nextDriveSeq <= queue[i]
  /\ \A s \in pendingDrives : nextDriveSeq <= s

(* What was applied is behind the turn, in order. *)
Sorted ==
  /\ \A i \in 1..Len(applied) : applied[i] < nextDriveSeq
  /\ AppliedInOrder

(* Every number is somewhere. *)
Covered ==
  stage # "stopped" =>
    \A s \in 0..(driveSeq - 1) : \/ \E t \in Threads : reserved[t] = s
                                 \/ Sent(s) \/ Applied(s)

Overtaken(n) == \E s \in pendingDrives : s < n

(* From the second poll of a gap on, a live sender holds no number below    *)
(* the buffered drives ...                                                  *)
Settled == gap.polls > 1 /\ gap.seq = nextDriveSeq
GapSettled == Settled =>
  /\ pendingDrives # {}
  /\ \A t \in Threads \ dead : reserved[t] # NoSeq => Overtaken(reserved[t])

(* ... and once the queue was seen empty after it, neither does the queue.  *)
GapDrained == Settled /\ stage = "idle" =>
  \A i \in 1..Len(queue) : queue[i] \in Seqs => Overtaken(queue[i])

Inv == /\ DriveTypeOK /\ Below /\ Apart /\ Ahead /\ Sorted
       /\ Covered /\ NothingSkipped /\ GapSettled /\ GapDrained

-----------------------------------------------------------------------------
LEMMA Types ==
  ASSUME DriveTypeOK
  PROVE  /\ driveSeq \in Nat /\ nextDriveSeq \in Nat /\ gap.seq \in Int
         /\ \A t \in Threads : reserved[t] \in Int
         /\ Len(queue) \in Nat /\ \A i \in 1..Len(queue) : queue[i] \in Int
         /\ pendingDrives \subseteq Nat
         /\ Len(applied) \in Nat /\ \A i \in 1..Len(applied) : applied[i] \in Nat
  <1>1. /\ \A s \in Seqs : s \in Nat /\ s \in Int
        /\ NoSeq \in Int /\ ShutdownCommand \in Int
    BY DEF Seqs, NoSeq, ShutdownCommand
  <1>2. \A i \in 1..Len(queue) : queue[i] \in Seqs \cup {ShutdownCommand}
    BY DEF DriveTypeOK
  <1>3. \A i \in 1..Len(applied) : applied[i] \in Seqs
    BY DEF DriveTypeOK
  <1>4. driveSeq \in Nat /\ nextDriveSeq \in Nat
    BY DEF DriveTypeOK
  <1>5. gap.seq \in Int
    BY <1>1 DEF DriveTypeOK
  <1>6. \A t \in Threads : reserved[t] \in Int
    <2>1. \A t \in Threads : reserved[t] \in Seqs \cup {NoSeq}
      BY DEF DriveTypeOK
    <2>2. QED
      BY <1>1, <2>1
  <1>7. Len(queue) \in Nat /\ Len(applied) \in Nat /\ pendingDrives \subseteq Nat
    BY <1>1 DEF DriveTypeOK
  <1>8. QED
    BY <1>1, <1>2, <1>3, <1>4, <1>5, <1>6, <1>7

LEMMA DriveInitInv == DriveInit => Inv
  BY DriveAssumption
  DEF DriveInit, Inv, DriveTypeOK, Below, Apart, Ahead, Sorted, AppliedInOrder, Covered,
      NothingSkipped, GapSettled, GapDrained, Settled, NoGap, NoSeq, Seqs,
      Threads, Sent, Applied, Lost

(* Taking a number: it is the highest, so it is nowhere else. *)
LEMMA ReserveInv ==
  ASSUME Inv, NEW t \in Threads, Reserve(t),
         UNCHANGED <<dead, queue, core, stage>>
  PROVE  Inv'
  <1> USE DEF Reserve, HandedOut, core
  <1>1. DriveTypeOK'
    BY DriveAssumption DEF Inv, DriveTypeOK, Seqs
  <1>2. Below'
    <2>1. driveSeq' = driveSeq + 1 /\ driveSeq \in Int /\ nextDriveSeq \in Int /\ gap.seq \in Int
      BY DEF Inv, DriveTypeOK, Seqs, NoSeq
    <2>2. \A u \in Threads : reserved'[u] < driveSeq'
      BY <2>1 DEF Inv, DriveTypeOK, Below, Seqs, NoSeq
    <2>3. \A i \in 1..Len(queue) : queue[i] < driveSeq'
      BY <2>1, Types DEF Inv, Below
    <2>4. \A s \in pendingDrives : s < driveSeq'
      BY <2>1 DEF Inv, DriveTypeOK, Below, Seqs
    <2>5. QED
      BY <2>1, <2>2, <2>3, <2>4 DEF Inv, Below
  <1>3. Apart'
    BY DEF Inv, DriveTypeOK, Below, Apart, Seqs, NoSeq, ShutdownCommand
  <1>4. Ahead'
    BY DEF Inv, DriveTypeOK, Below, Ahead, Seqs
  <1>5. Sorted'
    BY DEF Inv, Sorted, AppliedInOrder
  <1>6. Covered'
    <2> SUFFICES ASSUME stage # "stopped", NEW s \in 0..driveSeq
                 PROVE  (\E u \in Threads : reserved'[u] = s) \/ Sent(s) \/ Applied(s)
      BY DEF Covered, Sent, Applied, Inv, DriveTypeOK, Seqs
    <2>1. CASE s = driveSeq
      BY <2>1 DEF Inv, DriveTypeOK
    <2>2. CASE s # driveSeq
      BY <2>2 DEF Inv, DriveTypeOK, Covered, Seqs, NoSeq
    <2>3. QED
      BY <2>1, <2>2
  <1>7. NothingSkipped'
    <2>1. dead \subseteq Threads /\ nextDriveSeq \in Nat
      BY DriveAssumption DEF Inv, DriveTypeOK, Threads
    <2>2. \A u \in Threads : reserved[u] # NoSeq => reserved'[u] = reserved[u]
      BY DEF Inv, DriveTypeOK
    <2>3. ASSUME NEW s \in 0..(nextDriveSeq - 1), Lost(s)
          PROVE  Lost(s)'
      BY <2>1, <2>2, <2>3 DEF Lost, NoSeq
    <2>4. QED
      BY <2>3 DEF Inv, NothingSkipped
  <1>8. GapSettled'
    <2> SUFFICES ASSUME Settled
                 PROVE  /\ pendingDrives # {}
                        /\ \A u \in Threads \ dead : reserved'[u] # NoSeq => Overtaken(reserved'[u])
      BY DEF GapSettled, Settled, Overtaken
    <2>1. Overtaken(driveSeq)
      BY DEF Inv, GapSettled, Overtaken, Below
    <2>2. QED
      BY <2>1 DEF Inv, GapSettled, DriveTypeOK
  <1>9. GapDrained'
    BY DEF Inv, GapDrained, Settled, Overtaken
  <1>10. QED
    BY <1>1, <1>2, <1>3, <1>4, <1>5, <1>6, <1>7, <1>8, <1>9 DEF Inv

(* Sending: the number moves from its sender to the end of the queue. *)
LEMMA SendInv ==
  ASSUME Inv, NEW t \in Threads \ dead, Send(t), UNCHANGED core,
         \/ stage' = stage
         \/ stage = "callback" /\ stage' = "ready"
  PROVE  Inv'
  <1> USE DEF Send, core
  <1>0. /\ DriveTypeOK /\ reserved[t] \in Seqs /\ reserved'[t] = NoSeq
        /\ \A u \in Threads : u # t => reserved'[u] = reserved[u]
        /\ NoSeq \notin Seqs /\ ShutdownCommand \notin Seqs
    BY DEF Inv, DriveTypeOK, NoSeq, ShutdownCommand, Seqs
  <1>a. CASE stage = "stopped"
    <2>1. queue' = queue /\ stage' = "stopped"
      BY <1>a DEF Delivered
    <2>2. DriveTypeOK'
      BY <1>0, <2>1 DEF DriveTypeOK
    <2>3. Below' /\ Ahead'
      BY <1>0, <2>1 DEF Inv, DriveTypeOK, Below, Ahead, NoSeq, Seqs
    <2>7. Apart'
      <3>1. Apart /\ reserved' = [reserved EXCEPT ![t] = NoSeq]
            /\ \A i \in 1..Len(queue) : queue[i] # NoSeq
        BY <1>0 DEF Inv, DriveTypeOK, Seqs, NoSeq, ShutdownCommand
      <3>2. NoSeq \notin pendingDrives
        BY <1>0 DEF DriveTypeOK
      <3>3. QED
        BY <1>0, <2>1, <3>1, <3>2 DEF Apart, core
    <2>4. Sorted' /\ Covered' /\ NothingSkipped'
      BY <1>0, <2>1 DEF Inv, Sorted, AppliedInOrder, Covered, NothingSkipped, Lost, DriveTypeOK
    <2>5. GapSettled' /\ GapDrained'
      BY <1>0, <2>1 DEF Inv, GapSettled, GapDrained, Settled, Overtaken
    <2>6. QED
      BY <2>2, <2>3, <2>4, <2>5, <2>7 DEF Inv
  <1>b. CASE stage # "stopped"
    <2>1. /\ queue' = Append(queue, reserved[t]) /\ stage' # "stopped"
          /\ Len(queue') = Len(queue) + 1 /\ queue'[Len(queue) + 1] = reserved[t]
          /\ \A i \in 1..Len(queue) : queue'[i] = queue[i]
          /\ Len(queue) \in Nat
      BY <1>0, <1>b DEF Delivered, DriveTypeOK
    <2>2. DriveTypeOK'
      BY <1>0, <2>1 DEF DriveTypeOK
    <2>3. Below'
      BY <1>0, <2>1 DEF Inv, DriveTypeOK, Below, NoSeq, Seqs
    <2>4. Apart'
      <3>1. Apart /\ queue \in Seq(Seqs \cup {ShutdownCommand})
        BY <1>0 DEF Inv, DriveTypeOK
      <3>2. /\ \A u, v \in Threads : reserved'[u] # NoSeq /\ u # v
                                        => reserved'[u] # reserved'[v]
            /\ \A u \in Threads : reserved'[u] \notin pendingDrives
        BY <1>0, <3>1 DEF Apart, DriveTypeOK
      <3>3. \A i \in 1..Len(queue) : queue[i] # reserved[t] /\ queue[i] # NoSeq
        BY <3>1 DEF Apart, NoSeq, ShutdownCommand, Seqs
      <3>4. \A u \in Threads, i \in 1..Len(queue') : reserved'[u] # queue'[i]
        BY <1>0, <2>1, <3>1, <3>3 DEF Apart
      <3>5. \A i, j \in 1..Len(queue') :
               queue'[i] \in Seqs /\ i # j => queue'[i] # queue'[j]
        BY <2>1, <3>1, <3>3 DEF Apart
      <3>6. \A i \in 1..Len(queue') : queue'[i] \notin pendingDrives
        BY <2>1, <3>1 DEF Apart
      <3>7. QED
        BY <3>2, <3>4, <3>5, <3>6 DEF Apart
    <2>5. Ahead'
      BY <1>0, <2>1 DEF Inv, DriveTypeOK, Ahead
    <2>6. Sorted' /\ NothingSkipped'
      <3>1. dead \subseteq Threads
        BY <1>0, DriveAssumption DEF DriveTypeOK, Threads
      <3>2. QED
        BY <1>0, <3>1 DEF Inv, Sorted, AppliedInOrder, NothingSkipped, Lost
    <2>7. Covered'
      <3> SUFFICES ASSUME NEW s \in 0..(driveSeq - 1)
                   PROVE  (\E u \in Threads : reserved'[u] = s) \/ Sent(s)' \/ Applied(s)'
        BY DEF Covered
      <3>1. CASE reserved[t] = s
        BY <2>1, <3>1 DEF Sent
      <3>2. CASE reserved[t] # s
        BY <1>0, <1>b, <2>1, <3>2 DEF Inv, Covered, Sent, Applied
      <3>3. QED
        BY <3>1, <3>2
    <2>8. GapSettled'
      BY <1>0, <2>1 DEF Inv, GapSettled, Settled, Overtaken
    <2>9. GapDrained'
      BY <1>0, <2>1 DEF Inv, GapSettled, GapDrained, Settled, Overtaken
    <2>10. QED
      BY <2>2, <2>3, <2>4, <2>5, <2>6, <2>7, <2>8, <2>9 DEF Inv
  <1>c. QED
    BY <1>a, <1>b

(* A sender dies with its number. *)
LEMMA DieInv ==
  ASSUME Inv, NEW t \in Senders, Die(t)
  PROVE  Inv'
  <1> USE DEF Die, core
  <1>1. DriveTypeOK'
    BY DEF Inv, DriveTypeOK
  <1>2. Below' /\ Apart' /\ Ahead' /\ Sorted'
    BY DEF Inv, Below, Apart, Ahead, Sorted, AppliedInOrder
  <1>3. Covered' /\ NothingSkipped' /\ GapSettled' /\ GapDrained'
    BY DEF Inv, Covered, Sent, Applied, NothingSkipped, Lost,
           GapSettled, GapDrained, Settled, Overtaken
  <1>4. QED
    BY <1>1, <1>2, <1>3 DEF Inv

-----------------------------------------------------------------------------
LEMMA OneMore == \A n \in Nat : \A j \in 1..(n + 1) : j \in 1..n \/ j = n + 1
  OBVIOUS

(* A drive takes effect: its number was the turn and is nowhere else. *)
LEMMA ApplyInv ==
  ASSUME Inv, NEW s \in Seqs, s = nextDriveSeq, s < driveSeq, ApplyInTurn(s),
         stage # "stopped", UNCHANGED <<client, gap>>,
         pendingDrives' = pendingDrives \ {s},
         queue' \in Seq(Seqs \cup {ShutdownCommand}),
         \A t \in Threads : reserved[t] # s,
         \A i \in 1..Len(queue') : queue'[i] # s,
         \A i \in 1..Len(queue') : \E k \in 1..Len(queue) : queue'[i] = queue[k],
         \A i, j \in 1..Len(queue') : queue'[i] \in Seqs /\ i # j => queue'[i] # queue'[j],
         \A r \in Seqs : Sent(r) /\ r # s => Sent(r)'
  PROVE  Inv'
  <1> USE DEF ApplyInTurn, NextTurn, client
  <1>0. /\ applied' = Append(applied, s) /\ Len(applied') = Len(applied) + 1
        /\ applied'[Len(applied) + 1] = s /\ Len(applied) \in Nat
        /\ \A i \in 1..Len(applied) : applied'[i] = applied[i]
        /\ nextDriveSeq' = s + 1 /\ s \in Nat /\ driveSeq \in Nat
    BY DEF Inv, DriveTypeOK, Seqs
  <1>1. DriveTypeOK'
    BY <1>0, DriveAssumption DEF Inv, DriveTypeOK, Seqs
  <1>2. Below'
    <2>1. gap.seq \in Int /\ gap.seq <= s /\ s + 1 <= driveSeq
      BY <1>0 DEF Inv, DriveTypeOK, Below, NoSeq
    <2>2. \A i \in 1..Len(queue') : queue'[i] < driveSeq
      BY DEF Inv, Below
    <2>3. QED
      BY <1>0, <2>1, <2>2 DEF Inv, Below
  <1>3. Apart'
    BY DEF Inv, Apart
  <1>4. Ahead'
    <2>1. \A t \in Threads \ dead : reserved[t] # NoSeq => s + 1 <= reserved[t]
      BY <1>0 DEF Inv, Ahead, DriveTypeOK, Seqs
    <2>2. \A i \in 1..Len(queue') : queue'[i] \in Seqs => s + 1 <= queue'[i]
      <3> SUFFICES ASSUME NEW i \in 1..Len(queue'), queue'[i] \in Seqs
                   PROVE  s + 1 <= queue'[i]
        OBVIOUS
      <3>1. queue'[i] # s /\ s <= queue'[i]
        BY DEF Inv, Ahead
      <3>2. QED
        BY <1>0, <3>1 DEF Seqs
    <2>3. \A r \in pendingDrives \ {s} : s + 1 <= r
      BY <1>0 DEF Inv, Ahead, DriveTypeOK, Seqs
    <2>4. QED
      BY <1>0, <2>1, <2>2, <2>3 DEF Ahead
  <1>5. Sorted'
    <2>1. \A i \in 1..Len(applied) : applied[i] \in Int /\ applied[i] < s
      BY Types DEF Inv, Sorted
    <2>2. \A i \in 1..Len(applied') : applied'[i] < s + 1
      BY <1>0, <2>1
    <2>3. \A i, j \in 1..(Len(applied) + 1) : i < j => applied'[i] < applied'[j]
      <3> SUFFICES ASSUME NEW i \in 1..(Len(applied) + 1),
                          NEW j \in 1..(Len(applied) + 1), i < j
                   PROVE  applied'[i] < applied'[j]
        OBVIOUS
      <3>1. i \in 1..Len(applied) /\ applied'[i] = applied[i]
        BY <1>0
      <3>2. CASE j \in 1..Len(applied)
        BY <1>0, <3>1, <3>2 DEF Inv, Sorted, AppliedInOrder
      <3>3. CASE j = Len(applied) + 1
        BY <1>0, <2>1, <3>1, <3>3
      <3>4. QED
        BY <1>0, <3>2, <3>3, OneMore
    <2>4. QED
      BY <1>0, <2>2, <2>3 DEF Sorted, AppliedInOrder
  <1>6. \A r \in Seqs : Applied(r) \/ r = s => Applied(r)'
    BY <1>0 DEF Applied
  <1>7. Covered'
    <2> SUFFICES ASSUME NEW r \in 0..(driveSeq - 1)
                 PROVE  (\E t \in Threads : reserved[t] = r) \/ Sent(r)' \/ Applied(r)'
      BY DEF Covered
    <2>1. r \in Seqs
      BY DriveAssumption DEF Inv, DriveTypeOK, Seqs
    <2>2. QED
      BY <1>6, <2>1 DEF Inv, Covered
  <1>8. NothingSkipped'
    <2> SUFFICES ASSUME NEW r \in 0..s
                 PROVE  Lost(r)' \/ Applied(r)'
      BY <1>0 DEF NothingSkipped, Applied
    <2>1. r \in Seqs /\ (r = s \/ r \in 0..(nextDriveSeq - 1))
      BY <1>0, DriveAssumption DEF Seqs, Inv, DriveTypeOK
    <2>2. QED
      BY <1>6, <2>1 DEF Inv, NothingSkipped, Lost, Applied
  <1>9. ~Settled'
    BY <1>0 DEF Inv, Below, Settled, DriveTypeOK
  <1>10. QED
    BY <1>1, <1>2, <1>3, <1>4, <1>5, <1>7, <1>8, <1>9 DEF Inv, GapSettled, GapDrained

LEMMA HandleInv ==
  ASSUME Inv, HandleDrive
  PROVE  Inv'
  <1> DEFINE h == Head(queue)
  <1>0. /\ queue # <<>> /\ queue \in Seq(Seqs \cup {ShutdownCommand})
        /\ queue' = Tail(queue) /\ h = queue[1] /\ Len(queue) \in Nat /\ Len(queue) > 0
        /\ stage = "drain" /\ h # ShutdownCommand
    BY DEF HandleDrive, Inv, DriveTypeOK
  <1>1. /\ h \in Seqs /\ Len(queue') = Len(queue) - 1
        /\ queue' \in Seq(Seqs \cup {ShutdownCommand})
        /\ \A i \in 1..Len(queue') : i + 1 \in 1..Len(queue) /\ queue'[i] = queue[i + 1]
    BY <1>0
  <1>2. /\ \A i \in 1..Len(queue') : queue'[i] # h
        /\ \A t \in Threads : reserved[t] # h
        /\ h \notin pendingDrives
        /\ \A i, j \in 1..Len(queue') : queue'[i] \in Seqs /\ i # j => queue'[i] # queue'[j]
    BY <1>0, <1>1 DEF Inv, Apart
  <1>3. \A r : (\E i \in 1..Len(queue) : queue[i] = r) /\ r # h
                => \E i \in 1..Len(queue') : queue'[i] = r
    <2> SUFFICES ASSUME NEW r, NEW i \in 1..Len(queue), queue[i] = r, r # h
                 PROVE  \E k \in 1..Len(queue') : queue'[k] = r
      OBVIOUS
    <2>1. i - 1 \in 1..Len(queue') /\ (i - 1) + 1 = i
      BY <1>0, <1>1
    <2>2. queue'[i - 1] = r
      BY <1>1, <2>1
    <2>3. QED
      BY <2>1, <2>2
  <1>4. h < driveSeq /\ nextDriveSeq <= h /\ h \in Nat
    BY <1>0, <1>1 DEF Inv, Below, Ahead, Seqs
  <1>a. CASE MyTurn(h) /\ ApplyInTurn(h) /\ UNCHANGED pendingDrives
    <2>1. h = nextDriveSeq /\ pendingDrives' = pendingDrives \ {h}
      BY <1>a, <1>2 DEF MyTurn
    <2>2. \A r \in Seqs : Sent(r) /\ r # h => Sent(r)'
      BY <1>3, <2>1 DEF Sent
    <2>3. stage # "stopped" /\ UNCHANGED <<client, gap>>
      BY <1>0 DEF HandleDrive
    <2>4. \A i \in 1..Len(queue') : \E k \in 1..Len(queue) : queue'[i] = queue[k]
      BY <1>1
    <2> HIDE DEF h
    <2>5. QED
      BY <1>a, <1>1, <1>2, <1>4, <2>1, <2>2, <2>3, <2>4, ApplyInv
  <1>b. CASE /\ ~MyTurn(h) /\ pendingDrives' = pendingDrives \cup {h}
             /\ stage' = "ready" /\ UNCHANGED <<nextDriveSeq, applied>>
    <2>0. UNCHANGED <<driveSeq, reserved, dead, by, gap>> /\ nextDriveSeq < h
      BY <1>b, <1>4, Types DEF HandleDrive, client, MyTurn, Inv
    <2> HIDE DEF h
    <2>1. DriveTypeOK'
      BY <1>b, <1>1, <2>0 DEF Inv, DriveTypeOK
    <2>2. Below' /\ Ahead'
      BY <1>b, <1>1, <1>4, <2>0 DEF Inv, Below, Ahead
    <2>3. Apart'
      <3>1. \A i \in 1..Len(queue') : queue'[i] \notin pendingDrives'
        BY <1>b, <1>1, <1>2 DEF Inv, Apart
      <3>2. \A t \in Threads : reserved[t] \notin pendingDrives'
        BY <1>b, <1>2 DEF Inv, Apart
      <3>3. \A t \in Threads, i \in 1..Len(queue') : reserved[t] # queue'[i]
        BY <1>1 DEF Inv, Apart
      <3>4. QED
        BY <1>2, <2>0, <3>1, <3>2, <3>3 DEF Inv, Apart
    <2>4. Sorted' /\ NothingSkipped'
      BY <1>b, <2>0 DEF Inv, Sorted, AppliedInOrder, NothingSkipped, Lost
    <2>5. Covered'
      <3>1. \A r : Sent(r) => Sent(r)'
        BY <1>b, <1>3 DEF Sent
      <3>2. QED
        BY <1>b, <1>0, <2>0, <3>1 DEF Inv, Covered, Applied
    <2>6. GapSettled' /\ GapDrained'
      BY <1>b, <2>0 DEF Inv, GapSettled, GapDrained, Settled, Overtaken
    <2>7. QED
      BY <2>1, <2>2, <2>3, <2>4, <2>5, <2>6 DEF Inv
  <1>c. QED
    BY <1>a, <1>b DEF HandleDrive

LEMMA ReadyInv ==
  ASSUME Inv, ApplyReadyDrives
  PROVE  Inv'
  <1>0. stage = "ready" /\ UNCHANGED <<driveSeq, reserved, dead, by, queue, gap>>
    BY DEF ApplyReadyDrives, client
  <1>a. CASE /\ Ready /\ pendingDrives' = pendingDrives \ {nextDriveSeq}
             /\ ApplyInTurn(nextDriveSeq)
    <2>1. nextDriveSeq \in Seqs /\ nextDriveSeq < driveSeq
      BY <1>a DEF Ready, Inv, DriveTypeOK, Below
    <2>2. /\ \A t \in Threads : reserved[t] # nextDriveSeq
          /\ \A i \in 1..Len(queue) : queue[i] # nextDriveSeq
          /\ \A i, j \in 1..Len(queue) : queue[i] \in Seqs /\ i # j => queue[i] # queue[j]
      BY <1>a DEF Ready, Inv, Apart
    <2>3. \A r \in Seqs : Sent(r) /\ r # nextDriveSeq => Sent(r)'
      BY <1>a, <1>0 DEF Sent
    <2>4. queue' \in Seq(Seqs \cup {ShutdownCommand}) /\ stage # "stopped"
          /\ UNCHANGED <<client, gap>> /\ queue' = queue
      BY <1>0 DEF Inv, DriveTypeOK, client
    <2>5. QED
      BY <1>a, <2>1, <2>2, <2>3, <2>4, ApplyInv
  <1>b. CASE stage' = "drain" /\ UNCHANGED <<pendingDrives, nextDriveSeq, applied>>
    <2>1. DriveTypeOK'
      BY <1>0, <1>b DEF Inv, DriveTypeOK
    <2>2. Below' /\ Apart' /\ Ahead' /\ Sorted'
      BY <1>0, <1>b DEF Inv, Below, Apart, Ahead, Sorted, AppliedInOrder
    <2>3. Covered' /\ NothingSkipped' /\ GapSettled' /\ GapDrained'
      BY <1>0, <1>b DEF Inv, Covered, Sent, Applied, NothingSkipped, Lost,
                        GapSettled, GapDrained, Settled, Overtaken
    <2>4. QED
      BY <2>1, <2>2, <2>3 DEF Inv
  <1>c. QED
    BY <1>a, <1>b DEF ApplyReadyDrives

(* A step that leaves every number where it is. *)
LEMMA QuietInv ==
  ASSUME Inv, UNCHANGED <<driveSeq, reserved, dead, by, queue, pendingDrives,
                          nextDriveSeq, gap, applied>>,
         stage' \in {"drain", "ready", "callback", "advance", "idle"},
         stage # "stopped", stage' = "idle" => queue = <<>>
  PROVE  Inv'
  <1>1. DriveTypeOK'
    BY DEF Inv, DriveTypeOK
  <1>2. Below' /\ Apart' /\ Ahead' /\ Sorted'
    BY DEF Inv, Below, Apart, Ahead, Sorted, AppliedInOrder
  <1>3. Covered' /\ NothingSkipped' /\ GapSettled' /\ GapDrained'
    BY DEF Inv, Covered, Sent, Applied, NothingSkipped, Lost,
           GapSettled, GapDrained, Settled, Overtaken
  <1>4. QED
    BY <1>1, <1>2, <1>3 DEF Inv

LEMMA CallbackInv ==
  ASSUME Inv, Callback
  PROVE  Inv'
  <1>0. Engine \in Threads \ dead
    BY DriveAssumption DEF Threads, Inv, DriveTypeOK
  <1>1. CASE Reserve(Engine) /\ UNCHANGED <<dead, queue, stage>>
    BY <1>0, <1>1, ReserveInv DEF Callback
  <1>2. CASE Send(Engine) /\ stage' = "ready"
    BY <1>0, <1>2, SendInv DEF Callback
  <1>3. CASE stage' = "ready" /\ UNCHANGED <<client, queue>>
    BY <1>3, QuietInv DEF Callback, client, core
  <1>4. QED
    BY <1>1, <1>2, <1>3 DEF Callback

(* The gap check.  A skip passes over numbers that are neither buffered,    *)
(* queued nor held by anyone alive, so a dead sender holds each of them.    *)
LEMMA WarnInv ==
  ASSUME Prompt, Inv, WarnOnSteppedDriveGap
  PROVE  Inv'
  <1>0. /\ stage = "idle"
        /\ UNCHANGED <<driveSeq, reserved, dead, by, queue, pendingDrives, applied>>
    BY DEF WarnOnSteppedDriveGap, client
  <1>1. CASE gap' = NoGap /\ stage' = "drain" /\ UNCHANGED nextDriveSeq
    <2>1. DriveTypeOK' /\ ~Settled'
      BY <1>0, <1>1, DriveAssumption DEF Inv, DriveTypeOK, NoGap, Settled
    <2>2. Below' /\ Apart' /\ Ahead' /\ Sorted'
      BY <1>0, <1>1, Types DEF Inv, Below, Apart, Ahead, Sorted, AppliedInOrder, NoGap, NoSeq
    <2>3. Covered' /\ NothingSkipped' /\ GapSettled' /\ GapDrained'
      BY <1>0, <1>1, <2>1 DEF Inv, Covered, Sent, Applied, NothingSkipped, Lost,
                              GapSettled, GapDrained
    <2>4. QED
      BY <2>1, <2>2, <2>3 DEF Inv
  <1>2. CASE /\ gap' = [seq |-> nextDriveSeq, polls |-> 1] /\ stage' = "drain"
             /\ UNCHANGED nextDriveSeq
    <2>1. DriveTypeOK' /\ ~Settled'
      BY <1>0, <1>2, DriveAssumption DEF Inv, DriveTypeOK, Settled
    <2>2. Below' /\ Apart' /\ Ahead' /\ Sorted'
      BY <1>0, <1>2, Types DEF Inv, Below, Apart, Ahead, Sorted, AppliedInOrder
    <2>3. Covered' /\ NothingSkipped' /\ GapSettled' /\ GapDrained'
      BY <1>0, <1>2, <2>1 DEF Inv, Covered, Sent, Applied, NothingSkipped, Lost,
                              GapSettled, GapDrained
    <2>4. QED
      BY <2>1, <2>2, <2>3 DEF Inv
  <1>3. ASSUME NEW s \in pendingDrives, Lowest(s), PollsOut(s), Watched,
               ~Enough, gap' = [gap EXCEPT !.polls = Counted(@)], stage' = "drain",
               UNCHANGED nextDriveSeq
        PROVE  Inv'
    <2>1. DriveTypeOK' /\ gap'.seq = gap.seq
      <3>1. /\ gap.polls \in 0..(GapIdlePolls - 1) /\ ~(gap.polls + 1 >= GapIdlePolls)
            /\ gap.seq \in 0..MaxDrives \cup {NoSeq}
            /\ gap' = [seq |-> gap.seq, polls |-> gap.polls + 1]
        BY <1>3 DEF Inv, DriveTypeOK, Enough, Counted
      <3>2. gap.polls + 1 \in 0..(GapIdlePolls - 1)
        BY <3>1, DriveAssumption
      <3>3. gap' \in [seq : 0..MaxDrives \cup {NoSeq}, polls : 0..(GapIdlePolls - 1)]
        BY <3>1, <3>2
      <3>4. QED
        BY <1>0, <1>3, <3>1, <3>3 DEF Inv, DriveTypeOK
    <2>2. Below' /\ Apart' /\ Ahead' /\ Sorted'
      BY <1>0, <1>3, <2>1 DEF Inv, Below, Apart, Ahead, Sorted, AppliedInOrder
    <2>3. \A t \in Threads \ dead : reserved[t] # NoSeq => Overtaken(reserved[t])
      BY <1>3 DEF PollsOut, Overtaken
    <2>4. Covered' /\ NothingSkipped' /\ GapSettled' /\ GapDrained'
      BY <1>0, <1>3, <2>3 DEF Inv, Covered, Sent, Applied, NothingSkipped, Lost,
                              GapSettled, GapDrained, Overtaken
    <2>5. QED
      BY <2>1, <2>2, <2>4 DEF Inv
  <1>4. ASSUME NEW s \in pendingDrives, Lowest(s), PollsOut(s), Watched, Enough,
               gap' = NoGap, stage' = "ready", nextDriveSeq' = s
        PROVE  Inv'
    <2>0. /\ s \in Seqs /\ s \in Nat /\ s < driveSeq /\ nextDriveSeq <= s
          /\ \A r \in pendingDrives : s <= r
      BY <1>4, Types DEF Inv, DriveTypeOK, Below, Ahead, Lowest
    <2>1. Settled
      BY <1>4, DriveAssumption DEF Settled, Enough, Watched, Inv, DriveTypeOK
    <2>2. \A t \in Threads \ dead : reserved[t] # NoSeq => s < reserved[t]
      BY <1>4 DEF PollsOut
    <2>3. \A i \in 1..Len(queue) : queue[i] \in Seqs => s < queue[i]
      BY <1>0, <2>0, <2>1, Types DEF Inv, GapDrained, Overtaken
    <2>4. DriveTypeOK' /\ ~Settled'
      BY <1>0, <1>4, <2>0, DriveAssumption DEF Inv, DriveTypeOK, NoGap, Settled, Seqs
    <2>5. Below'
      <3>1. gap'.seq <= s
        BY <1>4, <2>0 DEF NoGap, NoSeq
      <3>2. s <= driveSeq
        BY <2>0, Types DEF Inv
      <3>3. QED
        BY <1>0, <1>4, <3>1, <3>2 DEF Inv, Below
    <2>11. Ahead'
      <3>1. \A t \in Threads \ dead : reserved[t] # NoSeq => s <= reserved[t]
        BY <2>0, <2>2, Types DEF Inv
      <3>2. \A i \in 1..Len(queue) : queue[i] \in Seqs => s <= queue[i]
        BY <2>0, <2>3, Types DEF Inv
      <3>3. QED
        BY <1>0, <1>4, <2>0, <3>1, <3>2 DEF Ahead
    <2>6. Apart'
      BY <1>0 DEF Inv, Apart
    <2>7. Sorted'
      BY <1>0, <1>4, <2>0, Types DEF Inv, Sorted, AppliedInOrder
    <2>8. NothingSkipped'
      <3> SUFFICES ASSUME NEW r \in 0..(s - 1)
                   PROVE  Lost(r) \/ Applied(r)
        BY <1>0, <1>4 DEF NothingSkipped, Lost, Applied
      <3>1. r \in Seqs /\ r \in 0..(driveSeq - 1) /\ r < s
        BY <2>0, Types, DriveAssumption DEF Inv, DriveTypeOK, Seqs
      <3>2. (\E t \in Threads : reserved[t] = r) \/ Sent(r) \/ Applied(r)
        BY <1>0, <3>1 DEF Inv, Covered
      <3>3. ~Sent(r)
        BY <2>0, <2>3, <3>1 DEF Sent
      <3>4. ASSUME NEW t \in Threads, reserved[t] = r
            PROVE  t \in dead
        BY <2>0, <2>2, <3>1, <3>4 DEF NoSeq
      <3>5. QED
        BY <3>2, <3>3, <3>4 DEF Lost
    <2>9. Covered' /\ GapSettled' /\ GapDrained'
      BY <1>0, <1>4, <2>4 DEF Inv, Covered, Sent, Applied, GapSettled, GapDrained
    <2>10. QED
      BY <2>4, <2>5, <2>6, <2>7, <2>8, <2>9, <2>11 DEF Inv
  <1>5. QED
    BY <1>1, <1>2, <1>3, <1>4 DEF WarnOnSteppedDriveGap, SkipTo

LEMMA CloseInv ==
  ASSUME Inv, CloseLink
  PROVE  Inv'
  <1>0. /\ queue' = Append(queue, ShutdownCommand)
        /\ UNCHANGED <<driveSeq, reserved, dead, by, pendingDrives, nextDriveSeq,
                       gap, applied, stage>>
        /\ ShutdownCommand \notin Seqs /\ ShutdownCommand < driveSeq
        /\ \A i \in 1..Len(queue) : queue[i] # ShutdownCommand
        /\ \A t \in Threads : reserved[t] # ShutdownCommand
    BY Types DEF CloseLink, Delivered, client, core, ShutdownCommand, Seqs, Inv, DriveTypeOK, NoSeq
  <1>1. /\ Len(queue') = Len(queue) + 1 /\ queue'[Len(queue) + 1] = ShutdownCommand
        /\ \A i \in 1..Len(queue) : queue'[i] = queue[i]
        /\ Len(queue) \in Nat
    BY <1>0 DEF Inv, DriveTypeOK
  <1>2. DriveTypeOK'
    BY <1>0 DEF Inv, DriveTypeOK
  <1>3. Below' /\ Ahead' /\ Sorted'
    BY <1>0, <1>1 DEF Inv, Below, Ahead, Sorted, AppliedInOrder
  <1>4. Apart'
    BY <1>0, <1>1 DEF Inv, DriveTypeOK, Apart
  <1>5. Covered' /\ NothingSkipped'
    BY <1>0, <1>1 DEF Inv, Covered, Sent, Applied, NothingSkipped, Lost
  <1>6. GapSettled' /\ GapDrained'
    BY <1>0, <1>1 DEF Inv, GapSettled, GapDrained, Settled, Overtaken
  <1>7. QED
    BY <1>2, <1>3, <1>4, <1>5, <1>6 DEF Inv

LEMMA ShutdownInv ==
  ASSUME Inv, Shutdown
  PROVE  Inv'
  <1>0. /\ queue' = <<>> /\ stage' = "stopped" /\ Len(queue') = 0
        /\ UNCHANGED <<driveSeq, reserved, dead, by, pendingDrives, nextDriveSeq,
                       gap, applied>>
    BY DEF Shutdown, client, core
  <1>1. DriveTypeOK'
    BY <1>0 DEF Inv, DriveTypeOK
  <1>2. Below' /\ Apart' /\ Ahead' /\ Sorted'
    BY <1>0 DEF Inv, Below, Apart, Ahead, Sorted, AppliedInOrder
  <1>3. Covered' /\ NothingSkipped' /\ GapSettled' /\ GapDrained'
    BY <1>0 DEF Inv, Covered, NothingSkipped, Lost, GapSettled, GapDrained, Settled, Overtaken
  <1>4. QED
    BY <1>1, <1>2, <1>3 DEF Inv

-----------------------------------------------------------------------------
LEMMA DriveStepInv ==
  ASSUME Prompt, Inv, [DriveNext]_driveVars
  PROVE  Inv'
  <1>1. ASSUME NEW t \in Senders, Begin(t) PROVE Inv'
    BY <1>1, ReserveInv DEF Begin, Threads
  <1>2. ASSUME NEW t \in Senders, Finish(t) PROVE Inv'
    BY <1>2, SendInv DEF Finish, Threads
  <1>3. ASSUME NEW t \in Senders, Die(t) PROVE Inv'
    BY <1>3, DieInv
  <1>4. CASE RunsDry \/ MoveClock
    BY <1>4, QuietInv DEF RunsDry, MoveClock, client, core
  <1>5. CASE UNCHANGED driveVars
    <2>1. DriveTypeOK' /\ Below' /\ Apart' /\ Ahead' /\ Sorted'
      BY <1>5 DEF driveVars, Inv, DriveTypeOK, Below, Apart, Ahead, Sorted, AppliedInOrder
    <2>2. Covered' /\ NothingSkipped' /\ GapSettled' /\ GapDrained'
      BY <1>5 DEF driveVars, Inv, Covered, Sent, Applied, NothingSkipped, Lost,
                  GapSettled, GapDrained, Settled, Overtaken
    <2>3. QED
      BY <2>1, <2>2 DEF Inv
  <1>6. QED
    BY <1>1, <1>2, <1>3, <1>4, <1>5, HandleInv, ReadyInv, CallbackInv, WarnInv,
       CloseInv, ShutdownInv DEF DriveNext, EngineStep

LEMMA InvAlways == ASSUME Prompt PROVE DriveSpec => []Inv
  <1>1. Inv /\ [DriveNext]_driveVars => Inv'
    BY DriveStepInv
  <1>2. QED
    BY DriveInitInv, <1>1, PTL DEF DriveSpec

(* Drives take effect in the order their numbers were taken                 *)
(* (apply_ready_drives), whatever order they arrive in and whoever dies.    *)
THEOREM InOrderAlways == ASSUME Prompt PROVE DriveSpec => []AppliedInOrder
  <1>1. Inv => AppliedInOrder
    BY DEF Inv, Sorted
  <1>2. QED
    BY InvAlways, <1>1, PTL

(* The gap skip of warn_on_stepped_drive_gap passes over a number only if   *)
(* its sender died holding it.                                              *)
THEOREM NothingSkippedAlways == ASSUME Prompt PROVE DriveSpec => []NothingSkipped
  <1>1. Inv => NothingSkipped
    BY DEF Inv
  <1>2. QED
    BY InvAlways, <1>1, PTL

-----------------------------------------------------------------------------
(* The one total order.                                                     *)

Sends  == {s \in 0..(driveSeq - 1) : \A t \in Threads : reserved[t] # s}
Losses == {s \in 0..(driveSeq - 1) : Lost(s)}
ordered == <<driveSeq, Sends, Losses, nextDriveSeq, applied>>

(* A number is taken: nobody else's is touched.                             *)
LEMMA ReserveIssues ==
  ASSUME Inv, NEW t \in Threads \ dead, Reserve(t), UNCHANGED <<dead, nextDriveSeq, applied>>
  PROVE  Ordered!Next
<1>1. /\ driveSeq \in Nat /\ driveSeq \in Seqs /\ driveSeq' = driveSeq + 1
      /\ reserved' = [reserved EXCEPT ![t] = driveSeq] /\ reserved[t] = NoSeq
      /\ reserved \in [Threads -> Seqs \cup {NoSeq}] /\ dead \subseteq Threads
  BY DriveAssumption DEF Reserve, HandedOut, Inv, DriveTypeOK, Threads
<1>2. \A u \in Threads : reserved'[u] = IF u = t THEN driveSeq ELSE reserved[u] BY <1>1
<1>3. \A s \in 0..(driveSeq - 1) : (\A u \in Threads : reserved'[u] # s) <=> (\A u \in Threads : reserved[u] # s)
  BY <1>1, <1>2 DEF NoSeq
<1>4. ~(\A u \in Threads : reserved'[u] # driveSeq) BY <1>2
<1>5. Sends' = Sends BY <1>1, <1>3, <1>4 DEF Sends
<1>6. \A s : Lost(s)' <=> Lost(s) BY <1>1, <1>2 DEF Lost
<1>7. ~Lost(driveSeq) BY <1>1 DEF Lost, Inv, Below
<1>8. Losses' = Losses BY <1>1, <1>6, <1>7 DEF Losses
<1>9. Ordered!Issue BY <1>1, <1>5, <1>8 DEF Ordered!Issue, Sends, Losses
<1> QED BY <1>9 DEF Ordered!Next

(* A number is sent: it was held, and by nobody dead.                       *)
LEMMA SendSends ==
  ASSUME Inv, NEW t \in Threads \ dead, Send(t), UNCHANGED <<nextDriveSeq, applied>>
  PROVE  Ordered!Next
<1> DEFINE n == reserved[t]
<1>1. /\ driveSeq' = driveSeq /\ dead' = dead /\ driveSeq \in Nat
      /\ reserved' = [reserved EXCEPT ![t] = NoSeq] /\ n # NoSeq
      /\ reserved \in [Threads -> Seqs \cup {NoSeq}] /\ dead \subseteq Threads
  BY DriveAssumption DEF Send, Inv, DriveTypeOK, Threads
<1>2. n \in Seqs /\ n < driveSeq /\ n \in 0..(driveSeq - 1)
  BY <1>1 DEF Inv, Below, Seqs
<1>3. \A u \in Threads : u # t => reserved[u] # n BY <1>1 DEF Inv, Apart
<1>4. \A u \in Threads : reserved'[u] = IF u = t THEN NoSeq ELSE reserved[u] BY <1>1
<1>5. \A s \in 0..(driveSeq - 1) :
        (\A u \in Threads : reserved'[u] # s) <=> s = n \/ (\A u \in Threads : reserved[u] # s)
  <2> SUFFICES ASSUME NEW s \in 0..(driveSeq - 1)
               PROVE (\A u \in Threads : reserved'[u] # s) <=> s = n \/ (\A u \in Threads : reserved[u] # s)
    OBVIOUS
  <2>1. s # NoSeq BY DEF NoSeq
  <2> QED BY <1>3, <1>4, <2>1
<1>6. Sends' = Sends \cup {n} BY <1>1, <1>2, <1>5 DEF Sends
<1>7. n \notin Sends BY DEF Sends
<1>8. \A s \in 0..(driveSeq - 1) : Lost(s)' <=> Lost(s) BY <1>1, <1>4 DEF Lost
<1>9. Losses' = Losses BY <1>1, <1>8 DEF Losses
<1>10. n \notin Losses BY <1>1, <1>3 DEF Losses, Lost
<1>11. n \in Seqs /\ Ordered!Send(n)
  BY <1>1, <1>2, <1>6, <1>7, <1>9, <1>10 DEF Ordered!Send, Sends, Losses
<1> HIDE DEF n
<1>12. PICK m \in Seqs : m = n BY <1>11
<1>13. Ordered!Send(m) BY <1>11, <1>12 DEF Ordered!Send
<1> QED BY <1>13 DEF Ordered!Next

(* A sender dies with its number.                                           *)
LEMMA DieLoses ==
  ASSUME Inv, NEW t \in Senders, Die(t)
  PROVE  Ordered!Next
<1> DEFINE n == reserved[t]
<1>1. /\ UNCHANGED <<driveSeq, reserved, nextDriveSeq, applied>> /\ driveSeq \in Nat
      /\ dead' = dead \cup {t} /\ t \notin dead /\ n # NoSeq /\ t \in Threads
      /\ reserved \in [Threads -> Seqs \cup {NoSeq}] /\ dead \subseteq Threads
  BY DriveAssumption DEF Die, core, Inv, DriveTypeOK, Threads
<1>2. n \in Seqs /\ n < driveSeq /\ n \in 0..(driveSeq - 1)
  BY <1>1 DEF Inv, Below, Seqs
<1>3. \A u \in Threads : u # t => reserved[u] # n BY <1>1 DEF Inv, Apart
<1>4. Sends' = Sends /\ n \notin Sends BY <1>1 DEF Sends
<1>5. \A s : Lost(s)' <=> s = n \/ Lost(s) BY <1>1 DEF Lost
<1>6. Losses' = Losses \cup {n} BY <1>1, <1>2, <1>5 DEF Losses
<1>7. n \notin Losses BY <1>1, <1>3 DEF Losses, Lost
<1>8. Ordered!Lose(n) BY <1>1, <1>2, <1>4, <1>6, <1>7 DEF Ordered!Lose, Sends, Losses
<1> HIDE DEF n
<1> QED BY <1>2, <1>8 DEF Ordered!Next

(* What leaves the counter and the holders alone leaves both sets.          *)
LEMMA Kept ==
  ASSUME UNCHANGED <<driveSeq, reserved, dead>> PROVE Sends' = Sends /\ Losses' = Losses
BY DEF Sends, Losses, Lost

(* A drive takes effect in its turn.                                        *)
LEMMA ApplyTakesEffect ==
  ASSUME Inv, NEW s \in Seqs, s = nextDriveSeq, s < driveSeq, ApplyInTurn(s),
         UNCHANGED <<driveSeq, reserved, dead>>, \A t \in Threads : reserved[t] # s
  PROVE  Ordered!Next
<1>1. s \in Sends BY DEF Sends, Inv, DriveTypeOK, Seqs
<1>2. Ordered!TakeEffect
  BY <1>1, Kept DEF Ordered!TakeEffect, Sends, Losses, ApplyInTurn, NextTurn
<1> QED BY <1>2 DEF Ordered!Next

(* The gap check passes over numbers of the dead only.                      *)
LEMMA WarnPassesOver ==
  ASSUME Inv, WarnOnSteppedDriveGap, Prompt
  PROVE  Ordered!Next \/ UNCHANGED ordered
<1>0. stage = "idle" /\ UNCHANGED <<driveSeq, reserved, dead, applied>>
  BY DEF WarnOnSteppedDriveGap, client
<1>1. CASE UNCHANGED nextDriveSeq BY <1>0, <1>1, Kept DEF ordered
<1>2. CASE ~UNCHANGED nextDriveSeq
  <2>1. PICK s \in pendingDrives : Lowest(s) /\ PollsOut(s) /\ Watched /\ Enough /\ nextDriveSeq' = s
    BY <1>2 DEF WarnOnSteppedDriveGap, SkipTo
  <2>2. /\ s \in Seqs /\ s \in Nat /\ s < driveSeq /\ nextDriveSeq <= s /\ nextDriveSeq \in Nat
        /\ driveSeq \in Nat /\ \A r \in pendingDrives : s <= r
    BY <2>1, Types DEF Inv, DriveTypeOK, Below, Ahead, Lowest
  <2>3. nextDriveSeq < s BY <1>2, <2>1, <2>2
  <2>4. Settled BY <2>1, DriveAssumption DEF Settled, Enough, Watched, Inv, DriveTypeOK
  <2>5. \A i \in 1..Len(queue) : queue[i] \in Seqs => s < queue[i]
    BY <1>0, <2>2, <2>4, Types DEF Inv, GapDrained, Overtaken
  <2>6. ASSUME NEW r \in nextDriveSeq..(s - 1) PROVE r \in Losses
    <3>1. r \in Seqs /\ r \in 0..(driveSeq - 1) /\ r < s /\ r >= nextDriveSeq
      BY <2>2, DriveAssumption DEF Seqs
    <3>2. (\E t \in Threads : reserved[t] = r) \/ Sent(r) \/ Applied(r)
      BY <1>0, <3>1 DEF Inv, Covered
    <3>3. ~Sent(r) BY <2>2, <2>5, <3>1 DEF Sent
    <3>4. ~Applied(r) BY <2>2, <3>1, Types DEF Applied, Inv, Sorted
    <3>5. \A t \in Threads : reserved[t] = r => t \in dead
      BY <2>1, <2>2, <3>1 DEF PollsOut, NoSeq
    <3> QED BY <3>1, <3>2, <3>3, <3>4, <3>5 DEF Losses, Lost
  <2>7. s \in Sends
    <3>1. \A t \in Threads : reserved[t] # s BY <2>1 DEF Inv, Apart
    <3> QED BY <2>2, <3>1 DEF Sends
  <2>8. Ordered!PassOver
    BY <1>0, <2>1, <2>3, <2>6, <2>7, Kept DEF Ordered!PassOver, Sends, Losses
  <2> QED BY <2>8 DEF Ordered!Next
<1> QED BY <1>1, <1>2

LEMMA OrderedStep ==
  ASSUME Prompt, Inv, [DriveNext]_driveVars PROVE Ordered!Next \/ UNCHANGED ordered
<1>0. Engine \in Threads \ dead BY DriveAssumption DEF Threads, Inv, DriveTypeOK
<1>1. ASSUME NEW t \in Senders, Begin(t) PROVE Ordered!Next
  BY <1>1, ReserveIssues DEF Begin, Threads, core
<1>2. ASSUME NEW t \in Senders, Finish(t) PROVE Ordered!Next
  BY <1>2, SendSends DEF Finish, Threads, core
<1>3. ASSUME NEW t \in Senders, Die(t) PROVE Ordered!Next BY <1>3, DieLoses
<1>4. CASE HandleDrive
  <2> DEFINE h == Head(queue)
  <2>0. UNCHANGED <<driveSeq, reserved, dead>> BY <1>4 DEF HandleDrive, client
  <2>1. CASE MyTurn(h) /\ ApplyInTurn(h)
    <3>1. queue # <<>> /\ queue \in Seq(Seqs \cup {ShutdownCommand}) /\ h = queue[1] /\ 1 \in 1..Len(queue)
      BY <1>4 DEF HandleDrive, Inv, DriveTypeOK
    <3>2. h \in Seqs /\ h < driveSeq /\ \A t \in Threads : reserved[t] # h
      BY <1>4, <3>1 DEF HandleDrive, Inv, Below, Apart
    <3> HIDE DEF h
    <3> QED BY <2>0, <2>1, <3>2, ApplyTakesEffect DEF MyTurn
  <2>2. CASE UNCHANGED <<nextDriveSeq, applied>> BY <2>0, <2>2, Kept DEF ordered
  <2> QED BY <1>4, <2>1, <2>2 DEF HandleDrive
<1>5. CASE ApplyReadyDrives
  <2>0. UNCHANGED <<driveSeq, reserved, dead>> BY <1>5 DEF ApplyReadyDrives, client
  <2>1. CASE Ready /\ ApplyInTurn(nextDriveSeq)
    <3>1. /\ nextDriveSeq \in Seqs /\ nextDriveSeq < driveSeq
          /\ \A t \in Threads : reserved[t] # nextDriveSeq
      BY <2>1 DEF Ready, Inv, DriveTypeOK, Below, Apart
    <3> QED BY <2>0, <2>1, <3>1, ApplyTakesEffect
  <2>2. CASE UNCHANGED <<nextDriveSeq, applied>> BY <2>0, <2>2, Kept DEF ordered
  <2> QED BY <1>5, <2>1, <2>2 DEF ApplyReadyDrives
<1>6. CASE Callback
  <2>1. CASE Reserve(Engine) /\ UNCHANGED <<dead, queue, stage>>
    BY <1>0, <1>6, <2>1, ReserveIssues DEF Callback, core
  <2>2. CASE Send(Engine) BY <1>0, <1>6, <2>2, SendSends DEF Callback, core
  <2>3. CASE UNCHANGED <<client, queue>> BY <1>6, <2>3, Kept DEF Callback, client, core, ordered
  <2> QED BY <1>6, <2>1, <2>2, <2>3 DEF Callback
<1>7. CASE RunsDry \/ MoveClock \/ CloseLink \/ Shutdown \/ UNCHANGED driveVars
  BY <1>7, Kept DEF RunsDry, MoveClock, CloseLink, Shutdown, driveVars, client, core, ordered
<1> QED
  BY <1>1, <1>2, <1>3, <1>4, <1>5, <1>6, <1>7, WarnPassesOver DEF DriveNext, EngineStep

LEMMA OrderedInit == DriveInit => Ordered!Init
BY DEF DriveInit, Ordered!Init

(* The sequencer implements one total order of drives, fixed when each      *)
(* takes its number: whatever order the sends arrive in and whoever dies,   *)
(* a drive takes effect after all that were numbered before it, and only    *)
(* numbers of the dead are passed over.                                     *)
THEOREM ImplementsDriveOrderAlways == ASSUME Prompt PROVE DriveSpec => ImplementsDriveOrder
<1>1. Inv /\ [DriveNext]_driveVars => [Ordered!Next]_ordered BY Prompt, OrderedStep
<1> QED BY <1>1, InvAlways, OrderedInit, PTL DEF DriveSpec, ImplementsDriveOrder, Ordered!Spec, ordered, Sends, Losses

=============================================================================
