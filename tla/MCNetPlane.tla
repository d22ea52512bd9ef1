----------------------------- MODULE MCNetPlane -----------------------------
(* A small board for TLC: a rail (1) that pulls up a line (2), a bus (3) and *)
(* a clock's far node (5); a clock (4) coupled into 5 by a capacitor, and    *)
(* its line's remote end (6).                                              *)
EXTENDS NetPlane

Fault(target, n, kind, after, count, volts) ==
  [target |-> target, net |-> n, kind |-> kind, after |-> after, count |-> count, volts |-> volts]

BoardNets == 1..6
BoardPins == 1..5
BoardNetOf == <<1, 2, 3, 3, 4>>
BoardRails == {1}
BoardFaults == {Fault(2, 2, "stuck", 0, 1, 33), Fault(2, 2, "float", 1, 1, 0),
                Fault(AnyPin, 3, "stuck", 1, 1, 33), Fault(AnyPin, 3, "contention", 0, 1, 12)}
R(a, b, ohms) == [ends |-> {a, b}, ohms |-> ohms]
BoardResistors == {R(1, 2, 10000), R(3, 5, 47000), R(1, 5, 100000), R(4, 6, 330), R(1, 6, 10000)}
BoardCapacitors == {[ends |-> {4, 5}, reactance |-> [fast |-> 100, slow |-> 90000]]}
High == Static(33, 25)
Low == Static(0, 25)
BoardIdle == <<Static(33, 0), Released, Released, Released, Released>>
BoardPublishes == <<{Static(33, 0), Static(18, 0), Static(Unmodelled, 0), Released}, {Low, Released},
                    {High, Released}, {Low, Released},
                    {Wave(33, 25, "fast"), Wave(33, 25, "slow"), Wave(33, 25, "held"), Released}>>
Sub(n, ref, supply, hold) ==
  [net |-> n, ref |-> ref, supply |-> supply, low |-> 3, high |-> 7, hyst |-> 0, hold |-> hold]
BoardSenses == <<Sub(2, 0, 1, FALSE), Sub(5, 3, 1, TRUE), Sub(6, 1, 1, FALSE)>>
=============================================================================
