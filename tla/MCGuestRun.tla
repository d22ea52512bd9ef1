----------------------------- MODULE MCGuestRun -----------------------------
(* GuestRun with two pads on supplies of their own.                         *)
EXTENDS GuestRun, TLC

CONSTANTS p0, p4, v0, v4

McPads == {p0, p4}
McBanks == {v0, v4}
McBankOf == [p \in McPads |-> IF p = p0 THEN v0 ELSE v4]

(* The two pads, each with its supply, are alike.                           *)
Alike == {p0 :> p4 @@ p4 :> p0 @@ v0 :> v4 @@ v4 :> v0,
          p0 :> p0 @@ p4 :> p4 @@ v0 :> v0 @@ v4 :> v4}

=============================================================================
