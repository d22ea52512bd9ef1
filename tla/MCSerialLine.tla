---------------------------- MODULE MCSerialLine ----------------------------
(* SerialLine with a byte of one bit, a host a sixth faster than the device *)
(* and a stream long enough for the device to fall a whole frame behind.    *)
EXTENDS SerialLine

Byte1(b) == [i \in 1..1 |-> b]
McSent == {<<Byte1(1), Byte1(0), Byte1(1), Byte1(1), Byte1(0), Byte1(0), Byte1(1), Byte1(0), Byte1(1)>>}
McPeriod == [x \in {"host", "dev"} |-> IF x = "host" THEN 6 ELSE 7]

(* Such clocks are tolerable: what is proved holds for them.               *)
ASSUME McTolerable == Tolerable

(* Nothing is said of a host that lost its supply or overran its queue.     *)
Kept == cuts = 0 /\ host.dropped = 0

(* Instants count from now: nothing depends on when a run began.  An armed  *)
(* instant gone by, and the last change of a closed decoder, are not read.  *)
Ago(t) == IF t = None THEN None ELSE <<t - now>>
View ==
  <<[x \in Ends |-> [tx[x] EXCEPT !.due = Ago(@)]],
    [x \in Ends |-> [rx[x] EXCEPT !.start = Ago(@),
                                  !.since = IF rx[x].start = None THEN None ELSE Ago(@)]],
    [x \in Ends |-> IF armed[x] < now THEN None ELSE Ago(armed[x])],
    {<<w[1], w[2] - now>> : w \in wheel}, [pump EXCEPT !.at = Ago(@)],
    wire, rail, host, engine, cuts>>

=============================================================================
