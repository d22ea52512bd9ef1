------------------------------ MODULE SimTime ------------------------------
(***************************************************************************)
(* What the virtual clock promises a set of threads that all registered    *)
(* before the run: time moves in one step from instant to instant, only    *)
(* while every member sleeps, and never past an instant somebody sleeps    *)
(* for; exactly the sleepers whose instant has come are awake afterwards.  *)
(* Once the guarantee is degraded, which the run reports, time no longer   *)
(* waits for the members, but still wakes exactly those it has reached.    *)
(***************************************************************************)
EXTENDS Naturals

CONSTANTS Members, Horizon

VARIABLES
  time,      \* the simulated instant
  present,   \* the members that have not left
  sleeping,  \* the instant each member sleeps for, 0 when it is awake
  degraded   \* has a member been given up on?

Awake(t) == sleeping[t] = 0

Init == /\ time = 0
        /\ present = Members
        /\ sleeping = [t \in Members |-> 0]
        /\ degraded = FALSE

Sleep(t) == /\ t \in present /\ Awake(t)
            /\ \E d \in time + 1 .. Horizon : sleeping' = [sleeping EXCEPT ![t] = d]
            /\ UNCHANGED <<time, present, degraded>>

Leave(t) == /\ t \in present /\ Awake(t)
            /\ present' = present \ {t}
            /\ UNCHANGED <<time, sleeping, degraded>>

(* Somebody stays awake for too long. *)
Degrade == /\ \E t \in present : Awake(t)
           /\ degraded' = TRUE
           /\ UNCHANGED <<time, present, sleeping>>

WaitsFor(t) == ~Awake(t) /\ time' <= sleeping[t]

Advance == /\ time' \in time + 1 .. Horizon
           /\ degraded \/ \A t \in present : WaitsFor(t)
           /\ sleeping' = [t \in Members |->
                             IF sleeping[t] <= time' THEN 0 ELSE sleeping[t]]
           /\ UNCHANGED <<present, degraded>>

Next == Advance \/ Degrade \/ \E t \in Members : Sleep(t) \/ Leave(t)

Spec == Init /\ [][Next]_<<time, present, sleeping, degraded>>
=============================================================================
