----------------------------- MODULE TurnTaking -----------------------------
(***************************************************************************)
(* What the channel between a P2 node and its emulator promises: a request *)
(* is worked on once, the caller then gets the answer to that request and  *)
(* to no other, and only then may it ask again.  At any moment the pair    *)
(* may be over, and then nothing more is asked or answered.                *)
(***************************************************************************)
CONSTANTS Requests,   \* what may be asked
          Nothing     \* no request

VARIABLES phase,   \* "idle", "asked", "worked" or "over"
          asked,   \* the last request
          given    \* the request the last answer was for

Init == phase = "idle" /\ asked = Nothing /\ given = Nothing

Ask == /\ phase = "idle" /\ phase' = "asked"
       /\ asked' \in Requests
       /\ UNCHANGED given

Work == phase = "asked" /\ phase' = "worked" /\ UNCHANGED <<asked, given>>

Answer == /\ phase = "worked" /\ phase' = "idle"
          /\ given' = asked
          /\ UNCHANGED asked

Over == phase' = "over" /\ UNCHANGED <<asked, given>>

Next == Ask \/ Work \/ Answer \/ Over

Spec == Init /\ [][Next]_<<phase, asked, given>>
=============================================================================
