----------------------------- MODULE DriveOrder -----------------------------
(***************************************************************************)
(* What the drive plane of the engine promises: one total order of drives, *)
(* fixed when each takes its number.  A drive takes effect after all that  *)
(* were numbered before it, and the only numbers passed over are those of  *)
(* senders that died before sending.                                       *)
(***************************************************************************)
EXTENDS Naturals, Sequences

CONSTANTS Numbers

VARIABLES
  issued,  \* how many numbers have been given out
  sent,    \* the numbers whose drive is on its way
  lost,    \* the numbers whose sender died before sending
  cursor,  \* the number whose turn it is
  effect   \* the drives that took effect, in order

Init == /\ issued = 0 /\ cursor = 0
        /\ sent = {} /\ lost = {} /\ effect = <<>>

Issue == /\ issued \in Numbers
         /\ issued' = issued + 1
         /\ UNCHANGED <<sent, lost, cursor, effect>>

Send(n) == /\ n < issued /\ n \notin sent \cup lost
           /\ sent' = sent \cup {n}
           /\ UNCHANGED <<issued, lost, cursor, effect>>

Lose(n) == /\ n < issued /\ n \notin sent \cup lost
           /\ lost' = lost \cup {n}
           /\ UNCHANGED <<issued, sent, cursor, effect>>

TakeEffect == /\ cursor \in sent
              /\ effect' = Append(effect, cursor)
              /\ cursor' = cursor + 1
              /\ UNCHANGED <<issued, sent, lost>>

PassOver == \E n \in sent :
              /\ cursor < n /\ cursor..(n - 1) \subseteq lost
              /\ cursor' = n
              /\ UNCHANGED <<issued, sent, lost, effect>>

Next == \/ Issue \/ TakeEffect \/ PassOver
        \/ \E n \in Numbers : Send(n) \/ Lose(n)

Spec == Init /\ [][Next]_<<issued, sent, lost, cursor, effect>>
=============================================================================
