-------------------------- MODULE SerialLineProofs --------------------------
(***************************************************************************)
(* Proofs about SerialLine, for any bytes, any periods two clocks that     *)
(* frame alike may have, any limits and any order of the two threads.      *)
(*                                                                         *)
(* Every byte the host sent is in exactly one place: back with the host,   *)
(* in the PTY, in the outbound queue, on the wire to the host, with the    *)
(* device, on the wire to the device, in the transmitter, in the pump's    *)
(* hand, or not read yet; and these places, in this order, hold what was   *)
(* sent.  On a wire the byte under way is known from the bit being driven  *)
(* (Driving) and from what the decoder has counted of it (Seen): its whole *)
(* bits come out right while the clocks differ by no more than half a bit  *)
(* over a frame.  What keeps it moving are the wakes: an end with a bit    *)
(* due, a frame open or a byte waiting has its wake, or the pump is about  *)
(* to ask for one.                                                         *)
(***************************************************************************)
EXTENDS SerialLine, SequenceTheorems, WellFoundedInduction, TLAPS

(* A smaller multiple of a difference is within the same bound.             *)
LEMMA Scaled ==
  ASSUME NEW n \in Nat, NEW k \in Nat, n <= k, NEW d \in Int, NEW h \in Nat, k * d <= h
  PROVE  n * d <= h
<1>1. CASE d <= 0
  <2>1. n * d <= 0
    BY <1>1
  <2> QED BY <2>1
<1>2. CASE d > 0
  <2>1. n * d <= k * d
    BY <1>2
  <2> QED BY <2>1
<1> QED BY <1>1, <1>2

(* A quotient is known from the two multiples its dividend lies between.    *)
LEMMA Quotient ==
  ASSUME NEW v \in Int, NEW q \in Nat \ {0}, NEW n \in Int, n * q <= v, v < n * q + q
  PROVE  v \div q = n
  OBVIOUS

(* A dividend of at least n divisors has a quotient of at least n.          *)
LEMMA QuotientAtLeast ==
  ASSUME NEW v \in Int, NEW q \in Nat \ {0}, NEW n \in Int, n * q <= v
  PROVE  v \div q >= n /\ v \div q \in Int
  OBVIOUS

(* Half a bit period, as uart.rs rounds it.                                 *)
LEMMA Half == ASSUME NEW q \in Nat PROVE q \div 2 \in Nat /\ 2 * (q \div 2) <= q
  OBVIOUS

(* n bit periods of the sender, counted by the receiver.                    *)
LEMMA Rounds ==
  ASSUME NEW p \in Nat \ {0}, NEW q \in Nat \ {0}, NEW n \in Nat, NEW k \in Nat, n < k,
         k * (p - q) <= q \div 2, k * (q - p) <= q \div 2
  PROVE  n * q <= n * p + q \div 2 /\ n * p + q \div 2 < n * q + q
<1> DEFINE h == q \div 2
<1>0. h \in Nat /\ 2 * h <= q
  BY Half
<1> HIDE DEF h
<1>h. k * (p - q) <= h /\ k * (q - p) <= h
  BY DEF h
<1>1. n * (p - q) <= h /\ n * (q - p) <= h
  BY <1>0, <1>h, Scaled
<1>2. n * (p - q) = n * p - n * q /\ n * (q - p) = n * q - n * p
  OBVIOUS
<1>3. n * p \in Nat /\ n * q \in Nat
  OBVIOUS
<1>4. CASE p <= q
  <2>1. n * (p - q) <= 0
    BY <1>4
  <2> QED BY <2>1, <1>0, <1>1, <1>2, <1>3 DEF h
<1>5. CASE p > q
  <2>1. n * (p - q) < k * (p - q)
    BY <1>5
  <2> QED BY <2>1, <1>h, <1>0, <1>1, <1>2, <1>3 DEF h
<1> QED BY <1>4, <1>5

(* Constants. *)
Bits == 0..1
Byte == [1..DataBits -> Bits]

(* What the framing and the limits are, from SerialAssumption.              *)
LEMMA Constants ==
  /\ FrameBits \in Nat /\ FrameBits = DataBits + 2 /\ FrameBits >= 3 /\ DataBits \in Nat \ {0}
  /\ \A x \in Ends : /\ Period[x] \in Nat \ {0} /\ FrameNs(x) \in Nat /\ FrameNs(x) = FrameBits * Period[x]
                     /\ StopSampled(x) = FrameNs(x) - Period[x] \div 2
                     /\ Far(x) \in Ends /\ Far(Far(x)) = x /\ Far(x) # x
  /\ QueueMax \in Nat \ {0} /\ OutboundMax \in Nat /\ PtyRoom \in Nat \ {0}
  BY SerialAssumption DEF FrameBits, FrameNs, StopSampled, Ends, Far

(* The same of one end.                                                     *)
LEMMA EndFacts ==
  ASSUME NEW x \in Ends
  PROVE  /\ Period[x] \in Nat \ {0} /\ FrameNs(x) \in Nat /\ FrameNs(x) = FrameBits * Period[x]
         /\ StopSampled(x) = FrameNs(x) - Period[x] \div 2
         /\ Far(x) \in Ends /\ Far(Far(x)) = x /\ Far(x) # x
  BY Constants

(* The two clocks, as the receiver of x's wire compares them.               *)
LEMMA Clocks ==
  ASSUME Tolerable, NEW x \in Ends
  PROVE  /\ FrameBits * (Period[x] - Period[Far(x)]) <= Period[Far(x)] \div 2
         /\ FrameBits * (Period[Far(x)] - Period[x]) <= Period[Far(x)] \div 2
  BY Constants DEF Tolerable

(* The two ends, and the value that stands for none.                        *)
LEMMA Known == None = -1 /\ Open = -1 /\ Ends = {"host", "dev"}
  BY DEF None, Open, Ends

(* Counting bits. *)
LEMMA CountFromStart ==
  ASSUME NEW p \in Nat \ {0}, NEW q \in Nat \ {0}, NEW m \in Nat, NEW k \in Nat, 2 <= m, m <= k,
         k * (p - q) <= q \div 2, k * (q - p) <= q \div 2
  PROVE  (IF (m - 1) * p < q THEN 0 ELSE ((m - 1) * p - q + q \div 2) \div q) = m - 2
<1> DEFINE h == q \div 2
           n == m - 1
<1>0. h \in Nat /\ 2 * h <= q
  BY Half
<1>1. n * q <= n * p + h /\ n * p + h < n * q + q
  BY Rounds
<1>2. n \in Nat /\ n * p \in Nat /\ n * q \in Nat
  OBVIOUS
<1> HIDE DEF h
<1>3. CASE n * p < q
  <2>1. n * q < 2 * q
    BY <1>0, <1>1, <1>2, <1>3
  <2>2. n < 2
    BY <2>1, <1>2
  <2> QED BY <2>2, <1>3
<1>4. CASE ~(n * p < q)
  <2> DEFINE v == n * p - q + h
  <2>1. (m - 2) * q = n * q - q
    OBVIOUS
  <2>2. v \in Int /\ (m - 2) * q <= v /\ v < (m - 2) * q + q
    BY <2>1, <1>0, <1>1, <1>2
  <2> HIDE DEF v
  <2>3. v \div q = m - 2
    BY <2>2, Quotient
  <2> QED BY <2>3, <1>4 DEF v, h
<1> QED BY <1>3, <1>4

(* absorb_until counts n bits of the sender as n, from a change of level.   *)
LEMMA CountFromChange ==
  ASSUME NEW p \in Nat \ {0}, NEW q \in Nat \ {0}, NEW n \in Nat, NEW k \in Nat, n < k,
         k * (p - q) <= q \div 2, k * (q - p) <= q \div 2
  PROVE  (n * p + q \div 2) \div q = n
<1>1. n * q <= n * p + q \div 2 /\ n * p + q \div 2 < n * q + q
  BY Rounds
<1>2. n * p + q \div 2 \in Int
  BY Half
<1> QED BY <1>1, <1>2, Quotient

(* absorb_until at the end of a frame has room for no more than is left.    *)
LEMMA CountToEnd ==
  ASSUME NEW p \in Nat \ {0}, NEW q \in Nat \ {0}, NEW i \in Nat, NEW k \in Nat, i < k,
         k * (p - q) <= q \div 2, k * (q - p) <= q \div 2
  PROVE  /\ i * p < k * q - q \div 2
         /\ (k * q - i * p + q \div 2) \div q >= k - i
         /\ (k * q - i * p + q \div 2) \div q \in Int
<1> DEFINE h == q \div 2
<1>0. h \in Nat /\ 2 * h <= q
  BY Half
<1>1. i * q <= i * p + h /\ i * p + h < i * q + q
  BY Rounds
<1>2. i * p \in Nat /\ i * q \in Nat /\ k * q \in Nat /\ i * q + q = (i + 1) * q
  OBVIOUS
<1>3. (i + 1) * q <= k * q
  BY i + 1 <= k
<1> HIDE DEF h
<1>4. i * p < k * q - h
  BY <1>0, <1>1, <1>2, <1>3
<1>5. k * (p - q) <= h
  BY DEF h
<1>6. i * (p - q) <= h
  BY <1>0, <1>5, Scaled
<1>7. i * (p - q) = i * p - i * q /\ (k - i) * q = k * q - i * q
  OBVIOUS
<1> DEFINE v == k * q - i * p + h
<1>8. v \in Int /\ (k - i) * q <= v
  BY <1>0, <1>2, <1>6, <1>7
<1> HIDE DEF v
<1>9. v \div q >= k - i /\ v \div q \in Int
  BY <1>8, QuotientAtLeast
<1> QED BY <1>4, <1>9 DEF v, h

(* The next start bit of a fast sender finds the stop bit sampled.          *)
LEMMA NextInTime ==
  ASSUME NEW p \in Nat \ {0}, NEW q \in Nat \ {0}, NEW k \in Nat, k * (q - p) <= q \div 2
  PROVE  k * q - q \div 2 <= k * p
<1>1. k * (q - p) = k * q - k * p
  OBVIOUS
<1>2. k * q \in Nat /\ k * p \in Nat /\ q \div 2 \in Nat
  BY Half
<1> QED BY <1>1, <1>2

(* Frames. *)
RxState == [level : Bits, start : Nat \cup {None}, bits : Seq(Bits), since : Nat, done : {<<>>}]
TxState == [enabled : BOOLEAN, pending : Seq(Byte), bits : Seq(Bits), due : Nat \cup {None}]
OneFrame == {<<>>} \cup {<<f>> : f \in Byte \cup {Bad}}

(* No frame, no byte.                                                       *)
LEMMA GoodNone == Good(<<>>) = <<>>
<1> DEFINE K(g) == [i \in 0..0 |-> IF i = 0 THEN <<>> ELSE IF <<>>[i] = Bad THEN g[i - 1] ELSE Append(g[i - 1], <<>>[i])]
           k == CHOOSE g : g = K(g)
<1>1. Good(<<>>) = k[0]
  BY DEF Good
<1>2. K([i \in 0..0 |-> <<>>]) = [i \in 0..0 |-> <<>>]
  OBVIOUS
<1>3. k = K(k)
  BY <1>2, Zenon
<1> QED BY <1>1, <1>3

(* One frame is one byte, or none when it is bad.                           *)
LEMMA GoodOne == ASSUME NEW f PROVE Good(<<f>>) = IF f = Bad THEN <<>> ELSE <<f>>
<1> DEFINE K(g) == [i \in 0..1 |-> IF i = 0 THEN <<>> ELSE IF <<f>>[i] = Bad THEN g[i - 1] ELSE Append(g[i - 1], <<f>>[i])]
           k == CHOOSE g : g = K(g)
           w == [i \in 0..1 |-> IF i = 0 THEN <<>> ELSE IF f = Bad THEN <<>> ELSE <<f>>]
<1>1. Good(<<f>>) = k[1]
  BY DEF Good
<1>2. K(w) = w
  OBVIOUS
<1> HIDE DEF w
<1>3. k = K(k)
  BY <1>2, Zenon
<1> HIDE DEF k
<1>4. k[0] = <<>>
  BY <1>3
<1>5. k[1] = IF f = Bad THEN k[0] ELSE Append(k[0], f)
  <2>1. k[1] = K(k)[1]
    BY <1>3
  <2> QED BY <2>1
<1>6. Append(<<>>, f) = <<f>>
  OBVIOUS
<1> QED BY <1>1, <1>4, <1>5, <1>6

(* A byte is no framing error.                                              *)
LEMMA ByteNotBad == ASSUME NEW f \in Byte PROVE f # Bad
<1>1. DOMAIN f = 1..DataBits /\ DOMAIN Bad = {} /\ 1 \in 1..DataBits
  BY Constants DEF Byte, Bad
<1> QED BY <1>1

(* What deliver takes of a step's frames is bytes.                          *)
LEMMA GoodType == ASSUME NEW d \in OneFrame PROVE Good(d) \in Seq(Byte)
<1>0. <<>> \in Seq(Byte) /\ \A f \in Byte : <<f>> \in Seq(Byte)
  OBVIOUS
<1>1. ASSUME d = <<>> PROVE Good(d) \in Seq(Byte)
  <2> Good(d) = <<>>
    BY <1>1, GoodNone
  <2> QED BY <1>0
<1>2. ASSUME NEW f \in Byte \cup {Bad}, d = <<f>> PROVE Good(d) \in Seq(Byte)
  <2> Good(d) = IF f = Bad THEN <<>> ELSE <<f>>
    BY <1>2, GoodOne
  <2> QED BY <1>0
<1> QED BY <1>1, <1>2 DEF OneFrame

Bit(c, k) == IF k = 1 THEN 0 ELSE IF k = FrameBits THEN 1 ELSE c[k - 1]

(* The bits of a frame are bits.                                            *)
LEMMA BitType == ASSUME NEW c \in Byte, NEW k \in 1..FrameBits PROVE Bit(c, k) \in Bits
  BY Constants DEF Bit, Byte, Bits

(* encode gives the bits of a frame, in their order.                        *)
LEMMA EncodeBits ==
  ASSUME NEW c \in Byte
  PROVE  /\ Encode(c) \in Seq(Bits) /\ Len(Encode(c)) = FrameBits
         /\ \A k \in 1..FrameBits : Encode(c)[k] = Bit(c, k)
<1> DEFINE q == [i \in 1..DataBits |-> c[i]]
           z == <<0>>
           o == <<1>>
<1>1. q \in Seq(Bits) /\ Len(q) = DataBits
  BY Constants DEF Byte, Bits
<1>2. \A i \in 1..DataBits : q[i] = c[i]
  OBVIOUS
<1>3. z \in Seq(Bits) /\ Len(z) = 1 /\ z[1] = 0 /\ o \in Seq(Bits) /\ Len(o) = 1 /\ o[1] = 1
  BY DEF Bits
<1>4. Encode(c) = (z \o q) \o o
  BY DEF Encode
<1> HIDE DEF q, z, o
<1>5. /\ z \o q \in Seq(Bits) /\ Len(z \o q) = DataBits + 1
      /\ \A i \in 1..DataBits + 1 : (z \o q)[i] = IF i = 1 THEN 0 ELSE c[i - 1]
  <2>1. /\ z \o q \in Seq(Bits) /\ Len(z \o q) = Len(z) + Len(q)
        /\ \A i \in 1..Len(z) + Len(q) : (z \o q)[i] = IF i <= Len(z) THEN z[i] ELSE q[i - Len(z)]
    BY <1>1, <1>3, ConcatProperties
  <2> QED BY <2>1, <1>1, <1>2, <1>3, Constants
<1> DEFINE w == z \o q
<1> HIDE DEF w
<1>6. /\ w \o o \in Seq(Bits) /\ Len(w \o o) = Len(w) + Len(o)
      /\ \A i \in 1..Len(w) + Len(o) : (w \o o)[i] = IF i <= Len(w) THEN w[i] ELSE o[i - Len(w)]
  BY <1>3, <1>5, ConcatProperties DEF w
<1> QED BY <1>3, <1>4, <1>5, <1>6, Constants DEF w, Bit

(* assemble gives a byte or an error.                                       *)
LEMMA AssembledType ==
  ASSUME NEW z \in Seq(Bits) PROVE Assembled(z) \in Byte \cup {Bad}
<1>1. \A i \in 1..Len(z) : z[i] \in Bits
  BY ElementOfSeq
<1> QED BY <1>1, LenProperties, Constants DEF Assembled, Byte, Bits

(* assemble gives the byte back from all its bits and the stop bit.         *)
LEMMA AssembledWhole ==
  ASSUME NEW c \in Byte, NEW z \in Seq(Bits), Len(z) = DataBits + 1,
         \A i \in 1..Len(z) : z[i] = Bit(c, i + 1)
  PROVE  Assembled(z) = c
<1>1. z[DataBits + 1] = 1
  BY Constants DEF Bit
<1>2. Assembled(z) = [i \in 1..DataBits |-> IF i <= Len(z) THEN z[i] ELSE 0]
  BY <1>1 DEF Assembled
<1>3. \A i \in 1..DataBits : z[i] = c[i]
  BY Constants DEF Bit
<1>4. \A i \in 1..DataBits : (IF i <= Len(z) THEN z[i] ELSE 0) = c[i]
  BY <1>3, Constants
<1>5. c = [i \in 1..DataBits |-> c[i]]
  BY DEF Byte
<1> QED BY <1>2, <1>4, <1>5

(* A receiver's record, and one with a field replaced. *)
RxRec(l, s, b, n, d) == [level |-> l, start |-> s, bits |-> b, since |-> n, done |-> d]
WithLevel(r, v) == [r EXCEPT !.level = v]
WithStart(r, v) == [r EXCEPT !.start = v]
WithBits(r, v)  == [r EXCEPT !.bits = v]
WithSince(r, v) == [r EXCEPT !.since = v]
WithDone(r, v)  == [r EXCEPT !.done = v]

(* The fields of a decoder's record.                                        *)
LEMMA RxFieldsOf ==
  ASSUME NEW l, NEW s, NEW b, NEW n, NEW d
  PROVE  /\ RxRec(l, s, b, n, d).level = l /\ RxRec(l, s, b, n, d).start = s
         /\ RxRec(l, s, b, n, d).bits = b /\ RxRec(l, s, b, n, d).since = n
         /\ RxRec(l, s, b, n, d).done = d
  BY DEF RxRec

(* The decoder's record, field by field.                                    *)
LEMMA RxRecs ==
  ASSUME NEW l, NEW s, NEW b, NEW n, NEW d, NEW v
  PROVE  /\ WithLevel(RxRec(l, s, b, n, d), v) = RxRec(v, s, b, n, d)
         /\ WithStart(RxRec(l, s, b, n, d), v) = RxRec(l, v, b, n, d)
         /\ WithBits(RxRec(l, s, b, n, d), v) = RxRec(l, s, v, n, d)
         /\ WithSince(RxRec(l, s, b, n, d), v) = RxRec(l, s, b, v, d)
         /\ WithDone(RxRec(l, s, b, n, d), v) = RxRec(l, s, b, n, v)
<1> DEFINE r == RxRec(l, s, b, n, d)
<1>1. r = [level |-> l, start |-> s, bits |-> b, since |-> n, done |-> d]
  BY DEF RxRec
<1> HIDE DEF r
<1>2. [r EXCEPT !.level = v] = RxRec(v, s, b, n, d)
  BY <1>1 DEF RxRec
<1>3. [r EXCEPT !.start = v] = RxRec(l, v, b, n, d)
  BY <1>1 DEF RxRec
<1>4. [r EXCEPT !.bits = v] = RxRec(l, s, v, n, d)
  BY <1>1 DEF RxRec
<1>5. [r EXCEPT !.since = v] = RxRec(l, s, b, v, d)
  BY <1>1 DEF RxRec
<1>6. [r EXCEPT !.done = v] = RxRec(l, s, b, n, v)
  BY <1>1 DEF RxRec
<1> QED BY <1>2, <1>3, <1>4, <1>5, <1>6, Zenon DEF WithLevel, WithStart, WithBits, WithSince, WithDone, r

(* Absorbing. *)
Count(y, r, t) == IF t < r.since THEN 0 ELSE (t - r.since + Period[y] \div 2) \div Period[y]
Room(r) == FrameBits - 1 - Len(r.bits)

(* A run of one level.                                                      *)
LEMMA Repeated ==
  ASSUME NEW n \in Int, NEW v \in Bits, NEW e, e = [i \in 1..n |-> v]
  PROVE  /\ e \in Seq(Bits)
         /\ Len(e) = IF n >= 0 THEN n ELSE 0
         /\ \A i \in 1..n : e[i] = v
<1>1. CASE n >= 0
  <2>1. n \in Nat
    BY <1>1
  <2>2. e \in Seq(Bits)
    BY <2>1, SeqDef
  <2>3. Len(e) = n
    BY <2>1
  <2> QED BY <2>2, <2>3, <1>1
<1>2. CASE n < 0
  <2>0. 1..n = {}
    BY <1>2
  <2>1. e = <<>>
    BY <2>0
  <2>2. e \in Seq(Bits) /\ Len(e) = 0
    BY <2>1, EmptySeq
  <2>3. ~(n >= 0)
    BY <1>2
  <2>4. \A i \in 1..n : e[i] = v
    BY <2>0
  <2> QED BY <2>2, <2>3, <2>4, Zenon
<1>3. n >= 0 \/ n < 0
  OBVIOUS
<1> QED BY <1>1, <1>2, <1>3, Zenon

Extended(y, r, t, n) ==
  \E z \in Seq(Bits) :
    /\ Absorb(y, r, t) = WithSince(WithBits(r, z), t)
    /\ Len(z) = Len(r.bits) + n
    /\ \A i \in 1..Len(z) : z[i] = IF i <= Len(r.bits) THEN r.bits[i] ELSE r.level

(* absorb_until adds a run of the level held, and nothing else.             *)
LEMMA AbsorbIs ==
  ASSUME NEW y \in Ends, NEW r, NEW t, NEW n \in Int, r.bits \in Seq(Bits), r.level \in Bits,
         Lesser(Count(y, r, t), Room(r)) = n
  PROVE  Extended(y, r, t, IF n >= 0 THEN n ELSE 0)
<1> DEFINE e == [i \in 1..n |-> r.level]
           z == r.bits \o e
<1>1. Absorb(y, r, t) = WithSince(WithBits(r, z), t)
  BY DEF Absorb, Count, Room, WithSince, WithBits
<1>2. e \in Seq(Bits) /\ Len(e) = (IF n >= 0 THEN n ELSE 0) /\ \A i \in 1..n : e[i] = r.level
  BY Repeated
<1> HIDE DEF e
<1>3. /\ z \in Seq(Bits) /\ Len(z) = Len(r.bits) + Len(e)
      /\ \A i \in 1..Len(r.bits) + Len(e) : z[i] = IF i <= Len(r.bits) THEN r.bits[i] ELSE e[i - Len(r.bits)]
  BY <1>2, ConcatProperties
<1>4. Len(r.bits) \in Nat
  BY LenProperties
<1>5. Len(z) = Len(r.bits) + (IF n >= 0 THEN n ELSE 0)
  BY <1>2, <1>3
<1>6. \A i \in 1..Len(z) : z[i] = IF i <= Len(r.bits) THEN r.bits[i] ELSE r.level
  <2> SUFFICES ASSUME NEW i \in 1..Len(z) PROVE z[i] = IF i <= Len(r.bits) THEN r.bits[i] ELSE r.level
    OBVIOUS
  <2>1. i \in 1..Len(r.bits) + Len(e)
    BY <1>3
  <2>2. i > Len(r.bits) => i - Len(r.bits) \in 1..n
    BY <2>1, <1>2, <1>4
  <2>3. z[i] = IF i <= Len(r.bits) THEN r.bits[i] ELSE e[i - Len(r.bits)]
    BY <2>1, <1>3
  <2>4. i > Len(r.bits) => e[i - Len(r.bits)] = r.level
    BY <2>2, <1>2
  <2>5. i \in Nat
    BY <2>1
  <2> HIDE DEF z
  <2> QED BY <2>3, <2>4, <2>5, <1>4
<1> HIDE DEF z
<1> QED BY <1>1, <1>3, <1>5, <1>6 DEF Extended

(* The first frame of a step.                                               *)
LEMMA AppendEmpty == ASSUME NEW f PROVE Append(<<>>, f) = <<f>>
<1>1. <<>> \in Seq({f}) /\ <<f>> \in Seq({f}) /\ Len(<<>>) = 0 /\ Len(<<f>>) = 1
  OBVIOUS
<1>2. /\ Append(<<>>, f) \in Seq({f}) /\ Len(Append(<<>>, f)) = 1 /\ Append(<<>>, f)[1] = f
  BY <1>1, AppendProperties
<1> QED BY <1>1, <1>2, SeqEqual

(* What a receiver has seen of the frame of c, m bits of which have begun:  *)
(* the level changed last at bit j.                                         *)
SeenFrom(x, R, c, m, j) ==
  /\ \A i \in j..m : Bit(c, i) = R.level
  /\ R.since = R.start + (IF j = 1 THEN Period[Far(x)] ELSE (j - 1) * Period[x])
  /\ Len(R.bits) = (IF j = 1 THEN 0 ELSE j - 2)
  /\ \A i \in 1..Len(R.bits) : R.bits[i] = Bit(c, i + 1)
Seen(x, R, c, m) == \E j \in 1..m : SeenFrom(x, R, c, m, j)

(* The fields of a decoder, typed.                                          *)
LEMMA RxFields ==
  ASSUME NEW R \in RxState
  PROVE  /\ R.level \in Bits /\ R.start \in Nat \cup {None} /\ R.bits \in Seq(Bits)
         /\ R.since \in Nat /\ R.done = <<>> /\ Len(R.bits) \in Nat
  BY LenProperties DEF RxState

(* Nothing is counted inside the start bit.                                 *)
LEMMA CountBefore == ASSUME NEW y, NEW R, NEW t, t < R.since PROVE Count(y, R, t) = 0
  BY DEF Count

(* Elsewhere whole bits are, to the nearest.                                *)
LEMMA CountIs ==
  ASSUME NEW y, NEW R, NEW t, ~(t < R.since), NEW v, t - R.since = v
  PROVE  Count(y, R, t) = (v + Period[y] \div 2) \div Period[y]
  BY Zenon DEF Count

(* Bits are counted in whole numbers.                                       *)
LEMMA DivType == ASSUME NEW v \in Int, NEW q \in Nat \ {0} PROVE (v + q \div 2) \div q \in Int
<1>1. v + q \div 2 \in Int
  BY Half
<1> QED BY <1>1

(* The count is a number, whatever the room.                                *)
LEMMA CountType ==
  ASSUME NEW y \in Ends, NEW R \in RxState, NEW t \in Nat
  PROVE  Lesser(Count(y, R, t), Room(R)) \in Int
<1>1. t - R.since \in Int /\ Period[y] \in Nat \ {0}
  BY RxFields, Constants
<1>2. (t - R.since + Period[y] \div 2) \div Period[y] \in Int
  BY <1>1, DivType
<1>3. Count(y, R, t) \in Int
  BY <1>2, CountBefore, CountIs
<1>4. Room(R) \in Int
  BY RxFields, Constants DEF Room
<1> QED BY <1>3, <1>4 DEF Lesser

(* The bits a receiver has when the level changes at bit m, or ends.        *)
LEMMA SeenCount ==
  ASSUME Tolerable, NEW x \in Ends, NEW R \in RxState, R.start # None, NEW c \in Byte,
         NEW m \in 2..FrameBits, NEW j \in 1..(m - 1), SeenFrom(x, R, c, m - 1, j),
         NEW t, t = R.start + (m - 1) * Period[x]
  PROVE  Lesser(Count(Far(x), R, t), Room(R)) = (m - 2) - Len(R.bits)
<1> DEFINE p == Period[x]
           q == Period[Far(x)]
           k == FrameBits
<1>1. p \in Nat \ {0} /\ q \in Nat \ {0} /\ k \in Nat
  BY Constants
<1>2. k * (p - q) <= q \div 2 /\ k * (q - p) <= q \div 2
  BY Clocks
<1>3. R.start \in Nat /\ R.since = R.start + (IF j = 1 THEN q ELSE (j - 1) * p)
      /\ Len(R.bits) = (IF j = 1 THEN 0 ELSE j - 2)
  BY RxFields, Known DEF SeenFrom
<1>4. m \in Nat /\ 2 <= m /\ m <= k /\ j \in Nat /\ 1 <= j /\ j < m
  OBVIOUS
<1> HIDE DEF p, q, k
<1>5. CASE j = 1
  <2>1. (IF (m - 1) * p < q THEN 0 ELSE ((m - 1) * p - q + q \div 2) \div q) = m - 2
    BY <1>1, <1>2, <1>4, CountFromStart
  <2>2. (m - 1) * p \in Nat
    BY <1>1, <1>4
  <2>3. t - R.since = (m - 1) * p - q /\ (t < R.since <=> (m - 1) * p < q)
    BY <2>2, <1>1, <1>3, <1>5 DEF p
  <2>4. Count(Far(x), R, t) = m - 2
    <3>1. CASE t < R.since
      BY <3>1, <2>1, <2>3, CountBefore
    <3>2. CASE ~(t < R.since)
      <4>1. Count(Far(x), R, t) = ((m - 1) * p - q + q \div 2) \div q
        BY <3>2, <2>3, CountIs DEF q
      <4> QED BY <4>1, <3>2, <2>1, <2>3
    <3> QED BY <3>1, <3>2
  <2> QED BY <2>4, <1>1, <1>3, <1>4, <1>5 DEF Room, Lesser, k
<1>6. CASE j # 1
  <2> DEFINE n == m - j
  <2>1. n \in Nat /\ n < k
    BY <1>4, <1>1
  <2>2. (n * p + q \div 2) \div q = n
    BY <2>1, <1>1, <1>2, CountFromChange
  <2>3. (m - 1) * p - (j - 1) * p = n * p /\ (m - 1) * p \in Nat /\ (j - 1) * p \in Nat /\ n * p \in Nat
    BY <1>1, <1>4
  <2>4. t - R.since = n * p /\ ~(t < R.since)
    BY <2>3, <1>3, <1>6 DEF p
  <2>5. Count(Far(x), R, t) = n
    BY <2>2, <2>4, CountIs DEF q
  <2> QED BY <2>5, <1>1, <1>3, <1>4, <1>6 DEF Room, Lesser, k
<1> QED BY <1>5, <1>6

(* At the end of a frame all bits but the stop bit are counted.             *)
LEMMA WholeCount ==
  ASSUME Tolerable, NEW x \in Ends, NEW R \in RxState, R.start # None, NEW c \in Byte,
         NEW j \in 1..FrameBits, SeenFrom(x, R, c, FrameBits, j),
         NEW t, t = R.start + FrameNs(Far(x))
  PROVE  Lesser(Count(Far(x), R, t), Room(R)) = (FrameBits - 1) - Len(R.bits)
<1> DEFINE p == Period[x]
           q == Period[Far(x)]
           k == FrameBits
<1>1. p \in Nat \ {0} /\ q \in Nat \ {0} /\ k \in Nat /\ k >= 3
  BY Constants
<1>2. k * (p - q) <= q \div 2 /\ k * (q - p) <= q \div 2
  BY Clocks
<1>3. R.start \in Nat /\ R.since = R.start + (IF j = 1 THEN q ELSE (j - 1) * p)
      /\ Len(R.bits) = (IF j = 1 THEN 0 ELSE j - 2)
  BY RxFields, Known DEF SeenFrom
<1>4. t = R.start + k * q /\ j \in Nat /\ 1 <= j /\ j <= k
  BY Constants
<1> HIDE DEF p, q, k
<1>5. CASE j = 1
  <2>1. 1 \in Nat /\ 1 < k /\ k * (q - q) <= q \div 2
    BY <1>1, Half
  <2>2. /\ 1 * q < k * q - q \div 2
        /\ (k * q - 1 * q + q \div 2) \div q >= k - 1
        /\ (k * q - 1 * q + q \div 2) \div q \in Int
    BY <2>1, <1>1, CountToEnd
  <2>3. 1 * q = q /\ k * q \in Nat /\ q \div 2 \in Nat
    BY <1>1, Half
  <2>4. t - R.since = k * q - 1 * q /\ ~(t < R.since)
    BY <2>2, <2>3, <1>1, <1>3, <1>4, <1>5
  <2>5. Count(Far(x), R, t) >= k - 1 /\ Count(Far(x), R, t) \in Int
    BY <2>2, <2>4, CountIs DEF q
  <2> QED BY <2>5, <1>1, <1>3, <1>4, <1>5 DEF Room, Lesser, k
<1>6. CASE j # 1
  <2> DEFINE i == j - 1
  <2>1. i \in Nat /\ i < k
    BY <1>4, <1>1
  <2>2. /\ i * p < k * q - q \div 2
        /\ (k * q - i * p + q \div 2) \div q >= k - i
        /\ (k * q - i * p + q \div 2) \div q \in Int
    BY <2>1, <1>1, <1>2, CountToEnd
  <2>3. i * p \in Nat /\ k * q \in Nat /\ q \div 2 \in Nat
    BY <2>1, <1>1, Half
  <2>4. t - R.since = k * q - i * p /\ ~(t < R.since)
    BY <2>2, <2>3, <1>1, <1>3, <1>4, <1>6
  <2>5. Count(Far(x), R, t) >= k - i /\ Count(Far(x), R, t) \in Int
    BY <2>2, <2>4, CountIs DEF q
  <2> QED BY <2>5, <1>1, <1>3, <1>4, <1>6 DEF Room, Lesser, k
<1> QED BY <1>5, <1>6

(* So the bits absorbed are the frame's, as far as it has come.             *)
UpTo(x, R, c, m, t) ==
  \E z \in Seq(Bits) : /\ Absorb(Far(x), R, t) = WithSince(WithBits(R, z), t)
                       /\ Len(z) = m - 1 /\ \A i \in 1..Len(z) : z[i] = Bit(c, i + 1)

(* Bits counted right are the bits of the byte.                             *)
LEMMA SeenBits ==
  ASSUME NEW x \in Ends, NEW R \in RxState, NEW c \in Byte, NEW m \in 1..FrameBits,
         NEW j \in 1..m, SeenFrom(x, R, c, m, j), NEW t,
         Lesser(Count(Far(x), R, t), Room(R)) = (m - 1) - Len(R.bits)
  PROVE  UpTo(x, R, c, m, t)
<1>0. R.bits \in Seq(Bits) /\ R.level \in Bits
  BY RxFields
<1>f. Far(x) \in Ends
  BY Constants
<1>1. Len(R.bits) = (IF j = 1 THEN 0 ELSE j - 2) /\ m \in Nat /\ j \in Nat /\ 1 <= j /\ j <= m
  BY Constants DEF SeenFrom
<1> DEFINE n == (m - 1) - Len(R.bits)
<1>2. n \in Nat /\ Lesser(Count(Far(x), R, t), Room(R)) = n
  BY <1>1
<1> HIDE DEF n
<1>a. Extended(Far(x), R, t, n)
  <2>1. Extended(Far(x), R, t, IF n >= 0 THEN n ELSE 0)
    BY <1>0, <1>f, <1>2, AbsorbIs
  <2>2. (IF n >= 0 THEN n ELSE 0) = n
    BY <1>2
  <2> QED BY <2>1, <2>2
<1>3. PICK z \in Seq(Bits) :
        /\ Absorb(Far(x), R, t) = WithSince(WithBits(R, z), t)
        /\ Len(z) = Len(R.bits) + n
        /\ \A i \in 1..Len(z) : z[i] = IF i <= Len(R.bits) THEN R.bits[i] ELSE R.level
  BY <1>a DEF Extended
<1>4. Len(z) = m - 1
  BY <1>1, <1>2, <1>3 DEF n
<1>5. \A i \in 1..Len(z) : z[i] = Bit(c, i + 1)
  <2> SUFFICES ASSUME NEW i \in 1..Len(z) PROVE z[i] = Bit(c, i + 1)
    OBVIOUS
  <2>1. i \in Nat /\ 1 <= i /\ i <= m - 1
    BY <1>1, <1>4
  <2>2. CASE i <= Len(R.bits)
    <3>1. i \in 1..Len(R.bits)
      BY <2>1, <2>2, <1>1
    <3> QED BY <3>1, <2>2, <1>3 DEF SeenFrom
  <2>3. CASE ~(i <= Len(R.bits))
    <3>1. i + 1 \in j..m
      BY <2>1, <2>3, <1>1
    <3>2. Bit(c, i + 1) = R.level
      BY <3>1 DEF SeenFrom
    <3> QED BY <3>2, <2>3, <1>3
  <2> QED BY <2>2, <2>3
<1> QED BY <1>3, <1>4, <1>5 DEF UpTo

(* Closing a frame. *)
Closed(R, f, t) == RxRec(R.level, None, <<>>, t, <<f>>)
ClosedAs(y, R) == \E f \in Byte \cup {Bad} : CloseFrame(y, R) = Closed(R, f, R.start + FrameNs(y))

(* A decoder's record is its fields.                                        *)
LEMMA RxIs ==
  ASSUME NEW R \in RxState
  PROVE  R = RxRec(R.level, R.start, R.bits, R.since, <<>>)
  BY DEF RxState, RxRec

(* close_frame, from what absorb_until gave.                                *)
LEMMA CloseIs ==
  ASSUME NEW y \in Ends, NEW R \in RxState, NEW z,
         Absorb(y, R, R.start + FrameNs(y)) = WithSince(WithBits(R, z), R.start + FrameNs(y))
  PROVE  CloseFrame(y, R) = Closed(R, Assembled(z), R.start + FrameNs(y))
<1> DEFINE t == R.start + FrameNs(y)
           a == Absorb(y, R, t)
<1>1. a = RxRec(R.level, R.start, z, t, <<>>)
  BY RxIs, RxRecs
<1>2. CloseFrame(y, R) = WithBits(WithStart(WithDone(a, Append(a.done, Assembled(a.bits))), None), <<>>)
  BY DEF CloseFrame, WithBits, WithStart, WithDone
<1> HIDE DEF a, t
<1>3. a.done = <<>> /\ a.bits = z
  BY <1>1, RxFieldsOf
<1>4. Append(a.done, Assembled(a.bits)) = <<Assembled(z)>>
  BY <1>3, AppendEmpty
<1>5. CloseFrame(y, R) = WithBits(WithStart(WithDone(a, <<Assembled(z)>>), None), <<>>)
  BY <1>2, <1>4
<1> QED BY <1>1, <1>5, RxRecs DEF Closed, t

(* close_frame leaves no frame open and one frame done, good or bad.        *)
LEMMA CloseTyped ==
  ASSUME NEW y \in Ends, NEW R \in RxState, R.start # None
  PROVE  ClosedAs(y, R)
<1> DEFINE t == R.start + FrameNs(y)
           n == Lesser(Count(y, R, t), Room(R))
<1>1. t \in Nat
  BY RxFields, EndFacts
<1> HIDE DEF t
<1>2. n \in Int
  BY <1>1, CountType
<1> HIDE DEF n
<1>3. Extended(y, R, t, IF n >= 0 THEN n ELSE 0)
  BY <1>2, RxFields, AbsorbIs DEF n
<1>4. PICK z \in Seq(Bits) : Absorb(y, R, t) = WithSince(WithBits(R, z), t)
  BY <1>3 DEF Extended
<1>5. CloseFrame(y, R) = Closed(R, Assembled(z), t)
  BY <1>4, CloseIs DEF t
<1>6. Assembled(z) \in Byte \cup {Bad}
  BY AssembledType
<1> QED BY <1>5, <1>6 DEF ClosedAs, t

(* close_frame of a byte seen whole is that byte.                           *)
LEMMA CloseWhole ==
  ASSUME Tolerable, NEW x \in Ends, NEW R \in RxState, R.start # None, NEW c \in Byte,
         Seen(x, R, c, FrameBits)
  PROVE  CloseFrame(Far(x), R) = Closed(R, c, R.start + FrameNs(Far(x)))
<1> DEFINE t == R.start + FrameNs(Far(x))
           m == FrameBits
<1>0. m \in 1..FrameBits /\ Far(x) \in Ends
  BY Constants
<1>1. PICK j \in 1..m : SeenFrom(x, R, c, m, j)
  BY DEF Seen
<1>2. Lesser(Count(Far(x), R, t), Room(R)) = (m - 1) - Len(R.bits)
  BY <1>1, WholeCount
<1> HIDE DEF t, m
<1>3. PICK z \in Seq(Bits) : /\ Absorb(Far(x), R, t) = WithSince(WithBits(R, z), t)
                             /\ Len(z) = m - 1 /\ \A i \in 1..Len(z) : z[i] = Bit(c, i + 1)
  <2>1. UpTo(x, R, c, m, t)
    BY <1>0, <1>1, <1>2, SeenBits
  <2> QED BY <2>1 DEF UpTo
<1>4. Len(z) = DataBits + 1
  BY <1>3, Constants DEF m
<1>5. Assembled(z) = c
  BY <1>3, <1>4, AssembledWhole
<1>6. CloseFrame(Far(x), R) = Closed(R, Assembled(z), t)
  BY <1>0, <1>3, CloseIs DEF t
<1> QED BY <1>5, <1>6 DEF t

(* on_level, case by case. *)
LEMMA OnLevelSame == ASSUME NEW y, NEW R, NEW t PROVE OnLevel(y, R, R.level, t) = R
  BY DEF OnLevel

(* on_level inside a frame absorbs the level that ended.                    *)
LEMMA OnLevelInside ==
  ASSUME NEW y, NEW R, NEW v, NEW t, v # R.level, R.start # None, ~(t >= R.start + StopSampled(y))
  PROVE  OnLevel(y, R, v, t) = WithLevel(Absorb(y, R, t), v)
  BY Zenon DEF OnLevel, WithLevel

Opened(y, C, t) ==
  WithSince(WithBits(WithStart(WithSince(WithLevel(C, 0), t), t), <<>>), t + Period[y])

(* on_level of a start bit between frames opens one.                        *)
LEMMA OnLevelOpens ==
  ASSUME NEW y, NEW R, NEW t, 0 # R.level, R.start = None
  PROVE  OnLevel(y, R, 0, t) = Opened(y, R, t)
<1> DEFINE f == [R EXCEPT !.level = 0, !.since = t]
<1>1. OnLevel(y, R, 0, t) = [f EXCEPT !.start = t, !.bits = <<>>, !.since = t + Period[y]]
  BY Zenon DEF OnLevel
<1>2. f = WithSince(WithLevel(R, 0), t)
  BY DEF WithSince, WithLevel
<1> HIDE DEF f
<1>3. [f EXCEPT !.start = t, !.bits = <<>>, !.since = t + Period[y]]
        = WithSince(WithBits(WithStart(f, t), <<>>), t + Period[y])
  BY DEF WithSince, WithBits, WithStart
<1> QED BY <1>1, <1>2, <1>3, Zenon DEF Opened

(* on_level of a start bit after the stop bit was sampled closes the frame  *)
(* and opens the next.                                                      *)
LEMMA OnLevelReopens ==
  ASSUME NEW y, NEW R, NEW t, 0 # R.level, R.start # None, t >= R.start + StopSampled(y),
         CloseFrame(y, R).start = None
  PROVE  OnLevel(y, R, 0, t) = Opened(y, CloseFrame(y, R), t)
<1> DEFINE f == [CloseFrame(y, R) EXCEPT !.level = 0, !.since = t]
<1>1. OnLevel(y, R, 0, t) = [f EXCEPT !.start = t, !.bits = <<>>, !.since = t + Period[y]]
  BY Zenon DEF OnLevel
<1>2. f = WithSince(WithLevel(CloseFrame(y, R), 0), t)
  BY DEF WithSince, WithLevel
<1> HIDE DEF f
<1>3. [f EXCEPT !.start = t, !.bits = <<>>, !.since = t + Period[y]]
        = WithSince(WithBits(WithStart(f, t), <<>>), t + Period[y])
  BY DEF WithSince, WithBits, WithStart
<1> QED BY <1>1, <1>2, <1>3, Zenon DEF Opened

(* A change of level inside a frame.                                        *)
LEMMA Grows ==
  ASSUME Tolerable, NEW x \in Ends, NEW R \in RxState, R.start # None, NEW c \in Byte,
         NEW m \in 2..FrameBits, Seen(x, R, c, m - 1), R.level # Bit(c, m),
         NEW t, t = R.start + (m - 1) * Period[x],
         NEW r, r = OnLevel(Far(x), R, Bit(c, m), t)
  PROVE  /\ r \in RxState /\ r.level = Bit(c, m) /\ r.start = R.start /\ Seen(x, r, c, m)
         /\ t < R.start + FrameNs(Far(x))
<1> DEFINE y == Far(x)
           p == Period[x]
           q == Period[Far(x)]
           k == FrameBits
<1>0. /\ p \in Nat \ {0} /\ q \in Nat \ {0} /\ k \in Nat /\ y \in Ends /\ R.start \in Nat
      /\ k * (p - q) <= q \div 2 /\ k * (q - p) <= q \div 2
      /\ FrameNs(y) = k * q /\ StopSampled(y) = k * q - q \div 2
      /\ m \in Nat /\ 2 <= m /\ m <= k
  <2>1. p \in Nat \ {0} /\ q \in Nat \ {0} /\ y \in Ends /\ FrameNs(y) = k * q /\ StopSampled(y) = k * q - q \div 2
    BY EndFacts
  <2>2. k \in Nat /\ m \in Nat /\ 2 <= m /\ m <= k
    BY Constants
  <2>3. R.start \in Nat
    BY RxFields
  <2>4. k * (p - q) <= q \div 2 /\ k * (q - p) <= q \div 2
    BY Clocks
  <2> QED BY <2>1, <2>2, <2>3, <2>4
<1> HIDE DEF p, q, k
<1>1. (m - 1) * p < k * q - q \div 2 /\ (m - 1) * p \in Nat /\ k * q \in Nat /\ q \div 2 \in Nat
  <2>1. m - 1 \in Nat /\ m - 1 < k
    BY <1>0
  <2>2. (m - 1) * p < k * q - q \div 2
    BY <2>1, <1>0, CountToEnd
  <2> QED BY <2>1, <2>2, <1>0, Half
<1>2. t \in Nat /\ t < R.start + StopSampled(y) /\ t < R.start + FrameNs(y)
  BY <1>0, <1>1 DEF p
<1>3. PICK j \in 1..(m - 1) : SeenFrom(x, R, c, m - 1, j)
  BY DEF Seen
<1>4. Lesser(Count(y, R, t), Room(R)) = (m - 2) - Len(R.bits)
  BY <1>3, SeenCount
<1>5. m - 1 \in 1..FrameBits /\ m - 2 = (m - 1) - 1
  BY <1>0 DEF k
<1>6. PICK z \in Seq(Bits) : /\ Absorb(y, R, t) = WithSince(WithBits(R, z), t)
                             /\ Len(z) = m - 2 /\ \A i \in 1..Len(z) : z[i] = Bit(c, i + 1)
  <2> DEFINE n == m - 1
  <2>1. n \in 1..FrameBits /\ j \in 1..n /\ SeenFrom(x, R, c, n, j)
        /\ Lesser(Count(Far(x), R, t), Room(R)) = (n - 1) - Len(R.bits) /\ m - 2 = n - 1
    BY <1>3, <1>4, <1>5
  <2> HIDE DEF n
  <2>2. UpTo(x, R, c, n, t)
    BY <2>1, SeenBits
  <2> QED BY <2>1, <2>2 DEF UpTo
<1> DEFINE v == Bit(c, m)
<1>7. r = WithLevel(WithSince(WithBits(R, z), t), v)
  <2>1. ~(t >= R.start + StopSampled(y)) /\ v # R.level
    BY <1>0, <1>1, <1>2
  <2>2. OnLevel(y, R, v, t) = WithLevel(Absorb(y, R, t), v)
    BY <2>1, OnLevelInside
  <2> QED BY <2>2, <1>6
<1>8. v \in Bits
  BY <1>0, BitType DEF k
<1> HIDE DEF v
<1>9. r = RxRec(v, R.start, z, t, <<>>)
  BY <1>7, RxIs, RxRecs
<1>r. r.level = v /\ r.start = R.start /\ r.bits = z /\ r.since = t
  BY <1>9, RxFieldsOf
<1>10. r \in RxState
  BY <1>0, <1>2, <1>8, <1>9 DEF RxState, RxRec
<1>11. SeenFrom(x, r, c, m, m)
  <2>1. \A i \in m..m : Bit(c, i) = r.level
    BY <1>0, <1>r DEF v
  <2>2. r.since = r.start + (IF m = 1 THEN Period[Far(x)] ELSE (m - 1) * Period[x])
    BY <1>0, <1>r
  <2>3. Len(r.bits) = (IF m = 1 THEN 0 ELSE m - 2)
    BY <1>0, <1>6, <1>r
  <2>4. \A i \in 1..Len(r.bits) : r.bits[i] = Bit(c, i + 1)
    BY <1>6, <1>r
  <2> QED BY <2>1, <2>2, <2>3, <2>4 DEF SeenFrom
<1> QED BY <1>0, <1>2, <1>r, <1>10, <1>11 DEF Seen, v

(* A wire: its transmitter T, the receiver R at its far end, what it holds  *)
(* and the time.  b bytes of s have been started, a of them delivered.      *)
SeenWhole(x, R, c, t) ==
  R.start # None /\ Seen(x, R, c, FrameBits) /\ R.start + FrameNs(x) <= t

Quiet(x, T, R, W, t, a, b, s) ==
  /\ T.due = None /\ T.bits = <<>> /\ W \in {1, Open} /\ R.level = 1
  /\ \/ b = a /\ R.start = None
     \/ b = a + 1 /\ SeenWhole(x, R, s[b], t)

(* Bit m of c is on the wire until due.                                     *)
Driving(T, W, t, c, m) ==
  /\ T.due # None /\ t <= T.due /\ W = Bit(c, m)
  /\ Len(T.bits) = FrameBits - m /\ \A i \in 1..Len(T.bits) : T.bits[i] = Bit(c, m + i)

Received(x, T, R, a, b, s, m) ==
  \/ b = a + 1 /\ R.start # None /\ Seen(x, R, s[b], m) /\ T.due = R.start + m * Period[x]
  \/ b = a /\ R.start = None /\ m = FrameBits

Unreceived(x, T, R, t, a, b, s, m) ==
  /\ T.due = t + Period[x]
  /\ \/ /\ b = a + 1 /\ m > 1 /\ R.start # None /\ Seen(x, R, s[b], m - 1)
        /\ T.due = R.start + m * Period[x]
     \/ b = a + 1 /\ m = 1 /\ R.level = 1 /\ R.start = None
     \/ b = a + 2 /\ m = 1 /\ R.level = 1 /\ SeenWhole(x, R, s[b - 1], t)

SendingBit(x, T, R, W, t, a, b, s, m) ==
  /\ b > 0 /\ Driving(T, W, t, s[b], m)
  /\ IF R.level = W THEN Received(x, T, R, a, b, s, m) ELSE Unreceived(x, T, R, t, a, b, s, m)

Sending(x, T, R, W, t, a, b, s) ==
  \E m \in 1..FrameBits : SendingBit(x, T, R, W, t, a, b, s, m)

Link(x, T, R, W, t, a, b, s) ==
  Quiet(x, T, R, W, t, a, b, s) \/ Sending(x, T, R, W, t, a, b, s)

(* What the receiver's step makes of it: r, before its frame is taken.      *)
Delivered(x, T, r, W, t, a, b, s) ==
  /\ WithDone(r, <<>>) \in RxState
  /\ r.start # None => t < r.start + FrameNs(Far(x))
  /\ \/ r.done = <<>> /\ Link(x, T, WithDone(r, <<>>), W, t, a, b, s)
     \/ a < b /\ r.done = <<s[a + 1]>> /\ Link(x, T, WithDone(r, <<>>), W, t, a + 1, b, s)

(* Between steps no frame waits to be taken.                                *)
LEMMA DoneNone == ASSUME NEW R \in RxState PROVE WithDone(R, <<>>) = R /\ R.done = <<>>
<1>1. R = RxRec(R.level, R.start, R.bits, R.since, <<>>)
  BY RxIs
<1>2. WithDone(R, <<>>) = RxRec(R.level, R.start, R.bits, R.since, <<>>)
  BY <1>1, RxRecs
<1> QED BY <1>1, <1>2, RxFields

(* A record of typed fields is a decoder.                                   *)
LEMMA RxTyped ==
  ASSUME NEW l \in Bits, NEW u \in Nat \cup {None}, NEW z \in Seq(Bits), NEW n \in Nat
  PROVE  RxRec(l, u, z, n, <<>>) \in RxState
  BY DEF RxRec, RxState

(* The record of a frame just opened.                                       *)
LEMMA OpenedIs ==
  ASSUME NEW y \in Ends, NEW C, NEW l, NEW u, NEW z, NEW n, NEW d, C = RxRec(l, u, z, n, d), NEW t
  PROVE  Opened(y, C, t) = RxRec(0, t, <<>>, t + Period[y], d)
  BY RxRecs DEF Opened

(* A frame just opened has seen its start bit.                              *)
LEMMA SeenStart ==
  ASSUME NEW x \in Ends, NEW c, NEW t, NEW d
  PROVE  Seen(x, RxRec(0, t, <<>>, t + Period[Far(x)], d), c, 1)
<1> DEFINE r == RxRec(0, t, <<>>, t + Period[Far(x)], d)
<1>1. r.level = 0 /\ r.start = t /\ r.bits = <<>> /\ r.since = t + Period[Far(x)]
  BY RxFieldsOf
<1> HIDE DEF r
<1>2. SeenFrom(x, r, c, 1, 1)
  <2>1. \A i \in 1..1 : Bit(c, i) = r.level
    BY <1>1 DEF Bit
  <2>2. Len(r.bits) = 0 /\ \A i \in 1..Len(r.bits) : r.bits[i] = Bit(c, i + 1)
    BY <1>1
  <2> QED BY <1>1, <2>1, <2>2 DEF SeenFrom
<1> QED BY <1>2 DEF Seen, r

(* poll before the end of the frame does nothing.                           *)
LEMMA PollKeeps ==
  ASSUME NEW y, NEW r, NEW t, ~(r.start # None /\ t - r.start >= FrameNs(y))
  PROVE  Poll(y, r, t) = r
  BY DEF Poll

(* poll at the end of the frame closes it.                                  *)
LEMMA PollCloses ==
  ASSUME NEW y, NEW r, NEW t, r.start # None, t - r.start >= FrameNs(y)
  PROVE  Poll(y, r, t) = CloseFrame(y, r)
  BY DEF Poll

(* The bit on the wire is one of the frame's, until an instant to come.     *)
LEMMA DrivingFacts ==
  ASSUME NEW T \in TxState, NEW W, NEW t \in Nat, NEW c, NEW m \in 1..FrameBits, Driving(T, W, t, c, m)
  PROVE  T.due \in Nat /\ t <= T.due /\ m \in Nat /\ m <= FrameBits /\ 1 <= m
  BY Constants DEF Driving, TxState

(* The instant of the bit before.                                           *)
LEMMA PeriodBack ==
  ASSUME NEW m \in Nat, NEW p \in Nat, NEW u \in Nat, NEW t \in Nat, NEW d,
         d = t + p, d = u + m * p
  PROVE  t = u + (m - 1) * p
<1> DEFINE v == m * p
           w == (m - 1) * p
<1>1. v = w + p /\ w \in Int
  OBVIOUS
<1>2. d = u + v
  BY DEF v
<1> HIDE DEF v, w
<1>3. t = u + w
  BY <1>1, <1>2
<1> QED BY <1>3 DEF w

(* receive_sense: a level that differs moves its wire on, and delivers the  *)
(* byte due or none.                                                        *)
LEMMA LinkReceives ==
  ASSUME Tolerable, NEW x \in Ends, NEW T \in TxState, NEW R \in RxState, NEW W \in Bits,
         NEW t \in Nat, NEW a \in Nat, NEW b \in Nat, NEW s \in Seq(Byte), b <= Len(s),
         Link(x, T, R, W, t, a, b, s), W # R.level,
         NEW r, r = Poll(Far(x), OnLevel(Far(x), R, W, t), t)
  PROVE  Delivered(x, T, r, W, t, a, b, s)
<1> DEFINE y == Far(x)
           o == OnLevel(y, R, W, t)
<1>0. /\ y \in Ends /\ Period[y] \in Nat \ {0} /\ Period[x] \in Nat \ {0} /\ FrameNs(y) \in Nat
      /\ FrameNs(y) > 0 /\ FrameBits \in Nat /\ Len(s) \in Nat
  <2>1. FrameNs(y) = FrameBits * Period[y] /\ FrameBits \in Nat /\ FrameBits >= 3
    BY EndFacts, Constants
  <2>2. y \in Ends /\ Period[y] \in Nat \ {0} /\ Period[x] \in Nat \ {0}
    BY EndFacts
  <2>3. FrameBits * Period[y] > 0
    BY <2>1, <2>2
  <2> QED BY <2>1, <2>2, <2>3, EndFacts, LenProperties
<1>1. ~Quiet(x, T, R, W, t, a, b, s)
  BY Known DEF Quiet, Bits
<1>2. PICK m \in 1..FrameBits : SendingBit(x, T, R, W, t, a, b, s, m)
  BY <1>1 DEF Link, Sending
<1>3. b > 0 /\ Driving(T, W, t, s[b], m) /\ Unreceived(x, T, R, t, a, b, s, m)
  BY <1>2 DEF SendingBit
<1>4. T.due \in Nat /\ t <= T.due /\ m \in Nat /\ m <= FrameBits /\ 1 <= m /\ W = Bit(s[b], m)
  BY <1>3, DrivingFacts DEF Driving
<1>5. b \in 1..Len(s) /\ s[b] \in Byte
  <2>1. b \in 1..Len(s)
    BY <1>0, <1>3
  <2> QED BY <2>1, ElementOfSeq
<1>6. ASSUME NEW Q \in RxState, NEW e \in Nat, Q.level = W, Q.start # None, b = e + 1,
             Seen(x, Q, s[b], m), T.due = Q.start + m * Period[x]
      PROVE  Link(x, T, Q, W, t, e, b, s)
  <2>1. Received(x, T, Q, e, b, s, m)
    BY <1>6 DEF Received
  <2>2. SendingBit(x, T, Q, W, t, e, b, s, m)
    BY <2>1, <1>3, <1>6 DEF SendingBit
  <2> QED BY <2>2 DEF Link, Sending
<1>7. CASE /\ b = a + 1 /\ m > 1 /\ R.start # None /\ Seen(x, R, s[b], m - 1)
           /\ T.due = R.start + m * Period[x]
  <2>1. m \in 2..FrameBits
    BY <1>4, <1>7
  <2>2. R.start \in Nat
    BY <1>7, RxFields
  <2>3. t = R.start + (m - 1) * Period[x]
    <3>1. T.due = t + Period[x] /\ T.due = R.start + m * Period[x]
      BY <1>3, <1>7 DEF Unreceived
    <3> DEFINE p == Period[x]
               u == R.start
               d == T.due
    <3>2. p \in Nat /\ u \in Nat /\ m \in Nat /\ d = t + p /\ d = u + m * p
      BY <3>1, <2>2, <1>0, <1>4
    <3> HIDE DEF p, u, d
    <3>3. t = u + (m - 1) * p
      BY ONLY <3>2, PeriodBack, t \in Nat
    <3> QED BY <3>3 DEF p, u
  <2>4. /\ o \in RxState /\ o.level = W /\ o.start = R.start /\ Seen(x, o, s[b], m)
        /\ t < R.start + FrameNs(y)
    <3>1. R.level # Bit(s[b], m) /\ o = OnLevel(Far(x), R, Bit(s[b], m), t)
      BY <1>4
    <3> HIDE DEF o
    <3> QED BY <3>1, <2>1, <2>3, <1>4, <1>5, <1>7, Grows
  <2> HIDE DEF o
  <2>5. ~(t - o.start >= FrameNs(y))
    BY <2>2, <2>4, <1>0
  <2>6. r = o
    BY <2>5, PollKeeps DEF o
  <2>7. WithDone(r, <<>>) = r /\ r.done = <<>>
    BY <2>4, <2>6, DoneNone
  <2>8. Link(x, T, r, W, t, a, b, s)
    BY <2>4, <2>6, <1>6, <1>7
  <2> QED BY <2>4, <2>6, <2>7, <2>8, <1>7 DEF Delivered
<1>8. ASSUME m = 1, NEW d, NEW e \in Nat, b = e + 1, o = RxRec(0, t, <<>>, t + Period[y], d)
      PROVE  /\ r = o /\ r.start = t /\ r.done = d /\ WithDone(r, <<>>) \in RxState
             /\ t < r.start + FrameNs(y) /\ Link(x, T, WithDone(r, <<>>), W, t, e, b, s)
  <2>1. o.start = t /\ o.done = d
    BY <1>8, RxFieldsOf
  <2>2. ~(t - o.start >= FrameNs(y))
    BY <2>1, <1>0
  <2>3. r = o
    BY <2>2, PollKeeps
  <2> DEFINE Q == RxRec(0, t, <<>>, t + Period[y], <<>>)
  <2>4. WithDone(r, <<>>) = Q
    BY <2>3, <1>8, RxRecs
  <2>5. Q \in RxState
    <3>1. 0 \in Bits /\ t \in Nat \cup {None} /\ <<>> \in Seq(Bits) /\ t + Period[y] \in Nat
      BY <1>0 DEF Bits
    <3> QED BY <3>1, RxTyped
  <2>6. Q.level = 0 /\ Q.start = t
    BY RxFieldsOf
  <2>7. Seen(x, Q, s[b], 1)
    BY SeenStart
  <2> HIDE DEF Q, o
  <2>8. W = 0
    BY <1>4, <1>8 DEF Bit
  <2>9. T.due = Q.start + m * Period[x] /\ Q.start # None
    <3>1. T.due = t + Period[x]
      BY <1>3 DEF Unreceived
    <3> QED BY <3>1, <2>6, <1>0, <1>8, Known
  <2>10. Link(x, T, Q, W, t, e, b, s)
    BY <2>5, <2>6, <2>7, <2>8, <2>9, <1>6, <1>8
  <2>11. t < t + FrameNs(y)
    BY <1>0
  <2> QED BY <2>1, <2>3, <2>4, <2>5, <2>10, <2>11
<1>9. CASE b = a + 1 /\ m = 1 /\ R.level = 1 /\ R.start = None
  <2>1. W = 0
    BY <1>4, <1>9 DEF Bit
  <2>2. o = Opened(y, R, t)
    BY <2>1, <1>9, OnLevelOpens
  <2>3. R = RxRec(R.level, R.start, R.bits, R.since, <<>>)
    BY RxIs
  <2>4. o = RxRec(0, t, <<>>, t + Period[y], <<>>)
    BY <2>2, <2>3, <1>0, OpenedIs
  <2> HIDE DEF o
  <2> QED BY <2>4, <1>8, <1>9 DEF Delivered
<1>10. CASE b = a + 2 /\ m = 1 /\ R.level = 1 /\ SeenWhole(x, R, s[b - 1], t)
  <2>1. W = 0
    BY <1>4, <1>10 DEF Bit
  <2>2. b - 1 \in 1..Len(s) /\ a + 1 = b - 1
    BY <1>5, <1>10, <1>0
  <2> DEFINE c == s[b - 1]
  <2>3. c \in Byte
    BY <2>2, ElementOfSeq
  <2> HIDE DEF c
  <2>4. R.start # None /\ Seen(x, R, c, FrameBits) /\ R.start + FrameNs(x) <= t /\ R.start \in Nat
    BY <1>10, RxFields DEF SeenWhole, c
  <2>5. CloseFrame(y, R) = Closed(R, c, R.start + FrameNs(y))
    BY <2>3, <2>4, CloseWhole
  <2>6. CloseFrame(y, R).start = None
    BY <2>5, RxFieldsOf DEF Closed
  <2>7. t >= R.start + StopSampled(y)
    <3>1. FrameBits * (Period[y] - Period[x]) <= Period[y] \div 2
      BY Clocks
    <3>2. FrameBits * Period[y] - Period[y] \div 2 <= FrameBits * Period[x]
      BY <3>1, <1>0, NextInTime
    <3>3. /\ StopSampled(y) = FrameNs(y) - Period[y] \div 2 /\ FrameNs(y) = FrameBits * Period[y]
          /\ FrameNs(x) = FrameBits * Period[x] /\ FrameNs(x) \in Nat
      BY <1>0, EndFacts
    <3>4. StopSampled(y) <= FrameNs(x) /\ StopSampled(y) \in Int
      BY <3>2, <3>3, <1>0, Half
    <3> QED BY <3>3, <3>4, <2>4
  <2>8. o = Opened(y, CloseFrame(y, R), t)
    BY <2>1, <2>4, <2>6, <2>7, <1>10, OnLevelReopens
  <2>9. o = RxRec(0, t, <<>>, t + Period[y], <<c>>)
    BY <2>5, <2>8, <1>0, OpenedIs DEF Closed
  <2> HIDE DEF o
  <2>10. a + 1 \in Nat /\ b = (a + 1) + 1 /\ a < b
    BY <1>10
  <2>11. /\ r.start = t /\ r.done = <<c>> /\ WithDone(r, <<>>) \in RxState
         /\ t < r.start + FrameNs(y) /\ Link(x, T, WithDone(r, <<>>), W, t, a + 1, b, s)
    BY <2>9, <2>10, <1>8, <1>10
  <2>12. c = s[a + 1]
    BY <2>2 DEF c
  <2> QED BY <2>10, <2>11, <2>12 DEF Delivered
<1> QED BY <1>3, <1>7, <1>9, <1>10 DEF Unreceived

(* The instant of the bit after.                                            *)
LEMMA PeriodOn ==
  ASSUME NEW m \in Nat, NEW p \in Nat, NEW u \in Nat, NEW t, t = u + m * p
  PROVE  t + p = u + (m + 1) * p
<1> DEFINE v == m * p
           w == (m + 1) * p
<1>1. w = v + p /\ v \in Int
  OBVIOUS
<1>2. t = u + v
  BY DEF v
<1> HIDE DEF v, w
<1>3. t + p = u + w
  BY <1>1, <1>2
<1> QED BY <1>3 DEF w

(* A poll: a frame is closed when its last bit is over, and no sooner.      *)
LEMMA LinkPolls ==
  ASSUME Tolerable, NEW x \in Ends, NEW T \in TxState, NEW R \in RxState, NEW W,
         NEW t \in Nat, NEW a \in Nat, NEW b \in Nat, NEW s \in Seq(Byte), b <= Len(s),
         Link(x, T, R, W, t, a, b, s), W \in {Open, R.level},
         NEW r, r = Poll(Far(x), R, t)
  PROVE  Delivered(x, T, r, W, t, a, b, s)
<1> DEFINE y == Far(x)
<1>0. /\ y \in Ends /\ Period[y] \in Nat \ {0} /\ Period[x] \in Nat \ {0} /\ FrameNs(y) \in Nat
      /\ FrameNs(y) = FrameBits * Period[y] /\ FrameBits \in Nat /\ FrameBits >= 3 /\ Len(s) \in Nat
  BY EndFacts, Constants, LenProperties
<1>1. R.start \in Nat \cup {None} /\ R.level \in Bits
  BY RxFields
<1>2. CASE ~(R.start # None /\ t - R.start >= FrameNs(y))
  <2>1. r = R
    BY <1>2, PollKeeps
  <2>2. WithDone(r, <<>>) = r /\ r.done = <<>>
    BY <2>1, DoneNone
  <2>3. r.start # None => t < r.start + FrameNs(y)
    BY <2>1, <1>0, <1>1, <1>2
  <2> QED BY <2>1, <2>2, <2>3 DEF Delivered
<1>3. CASE R.start # None /\ t - R.start >= FrameNs(y)
  <2>1. r = CloseFrame(y, R)
    BY <1>3, PollCloses
  <2>2. R.start \in Nat /\ R.start + FrameNs(y) <= t
    BY <1>0, <1>1, <1>3
  <2> DEFINE n == R.start + FrameNs(y)
             Q == RxRec(R.level, None, <<>>, n, <<>>)
  <2>3. Q \in RxState /\ Q.level = R.level /\ Q.start = None
    <3>1. n \in Nat /\ <<>> \in Seq(Bits) /\ None \in Nat \cup {None}
      BY <1>0, <2>2
    <3> HIDE DEF n
    <3>2. Q \in RxState
      BY <3>1, <1>1, RxTyped
    <3> QED BY <3>2, RxFieldsOf
  <2>4. ASSUME b = a + 1, Seen(x, R, s[b], FrameBits), Link(x, T, Q, W, t, a + 1, b, s)
        PROVE  Delivered(x, T, r, W, t, a, b, s)
    <3>1. b \in 1..Len(s)
      BY <2>4, <1>0
    <3> DEFINE c == s[b]
    <3>2. c \in Byte
      BY <3>1, ElementOfSeq
    <3>3. Seen(x, R, c, FrameBits)
      BY <2>4
    <3> HIDE DEF c
    <3>4. r = Closed(R, c, n)
      BY <2>1, <3>2, <3>3, <1>3, CloseWhole
    <3>5. r.start = None /\ r.done = <<c>> /\ WithDone(r, <<>>) = Q
      BY <3>4, RxRecs, RxFieldsOf DEF Closed
    <3> HIDE DEF Q, n
    <3>6. a < b /\ c = s[a + 1]
      BY <2>4 DEF c
    <3> QED BY <2>3, <2>4, <3>5, <3>6 DEF Delivered
  <2>5. CASE Quiet(x, T, R, W, t, a, b, s)
    <3>1. b = a + 1 /\ SeenWhole(x, R, s[b], t)
      BY <2>5, <1>3 DEF Quiet
    <3> HIDE DEF Q
    <3>2. Quiet(x, T, Q, W, t, a + 1, b, s)
      BY <3>1, <2>3, <2>5 DEF Quiet
    <3> QED BY <3>1, <3>2, <2>4 DEF SeenWhole, Link
  <2>6. CASE Sending(x, T, R, W, t, a, b, s)
    <3>1. PICK m \in 1..FrameBits : SendingBit(x, T, R, W, t, a, b, s, m)
      BY <2>6 DEF Sending
    <3>2. b > 0 /\ Driving(T, W, t, s[b], m)
      BY <3>1 DEF SendingBit
    <3>3. T.due \in Nat /\ t <= T.due /\ m \in Nat /\ m <= FrameBits /\ 1 <= m /\ W = Bit(s[b], m)
      BY <3>2, DrivingFacts DEF Driving
    <3>4. b \in 1..Len(s) /\ s[b] \in Byte
      <4>1. b \in 1..Len(s)
        BY <1>0, <3>2
      <4> QED BY <4>1, ElementOfSeq
    <3>5. W \in Bits
      BY <3>3, <3>4, BitType
    <3>6. W = R.level
      BY <3>5, Known DEF Bits
    <3>7. b = a + 1 /\ Seen(x, R, s[b], m) /\ T.due = R.start + m * Period[x]
      BY <3>1, <3>6, <1>3 DEF SendingBit, Received
    <3>8. m = FrameBits
      <4> SUFFICES ASSUME m < FrameBits PROVE FALSE
        BY <3>3, <1>0
      <4> DEFINE p == Period[x]
                 q == Period[y]
                 k == FrameBits
      <4>1. k * (p - q) <= q \div 2 /\ k * (q - p) <= q \div 2
        BY Clocks
      <4>2. p \in Nat \ {0} /\ q \in Nat \ {0} /\ m \in Nat /\ k \in Nat /\ m < k
        BY <1>0, <3>3
      <4> HIDE DEF p, q, k
      <4>3. m * p < k * q - q \div 2
        BY <4>1, <4>2, CountToEnd
      <4>4. q \div 2 \in Nat /\ k * q \in Nat /\ m * p \in Nat
        BY <4>2, Half
      <4>5. FrameNs(y) = k * q /\ T.due = R.start + m * p
        BY <1>0, <3>7 DEF k, p, q
      <4> QED BY <4>3, <4>4, <4>5, <2>2, <3>3
    <3> HIDE DEF Q
    <3>9. Received(x, T, Q, a + 1, b, s, m)
      BY <3>7, <3>8, <2>3 DEF Received
    <3>10. SendingBit(x, T, Q, W, t, a + 1, b, s, m)
      BY <3>2, <3>6, <3>9, <2>3 DEF SendingBit
    <3>11. Link(x, T, Q, W, t, a + 1, b, s)
      BY <3>10 DEF Link, Sending
    <3> QED BY <3>7, <3>8, <3>11, <2>4
  <2> QED BY <2>5, <2>6 DEF Link
<1> QED BY <1>2, <1>3

(* The link sees only when the next bit is due and what is left of a frame. *)
LEMMA LinkTx ==
  ASSUME NEW x, NEW T, NEW U, U.due = T.due, U.bits = T.bits, NEW R, NEW W, NEW t, NEW a, NEW b, NEW s,
         Link(x, T, R, W, t, a, b, s)
  PROVE  Link(x, U, R, W, t, a, b, s)
<1>1. CASE Quiet(x, T, R, W, t, a, b, s)
  BY <1>1 DEF Quiet, Link
<1>2. ASSUME NEW m \in 1..FrameBits, SendingBit(x, T, R, W, t, a, b, s, m)
      PROVE  SendingBit(x, U, R, W, t, a, b, s, m)
  BY <1>2 DEF SendingBit, Driving, Received, Unreceived
<1> QED BY <1>1, <1>2 DEF Link, Sending

(* An idle wire may start or stop being driven high.                        *)
LEMMA LinkOpens ==
  ASSUME NEW x, NEW T, T.due = None, NEW R, NEW W, NEW V, V \in {1, Open}, NEW t, NEW a, NEW b, NEW s,
         Link(x, T, R, W, t, a, b, s)
  PROVE  Link(x, T, R, V, t, a, b, s)
<1>1. Quiet(x, T, R, W, t, a, b, s)
  BY DEF Link, Sending, SendingBit, Driving
<1> QED BY <1>1 DEF Link, Quiet

(* Time passes, while the levels are those received and no bit is over.     *)
LEMMA LinkTime ==
  ASSUME NEW x \in Ends, NEW T \in TxState, NEW R \in RxState, NEW W, NEW t \in Nat, NEW u \in Nat, t <= u,
         T.due # None => u <= T.due, NEW a \in Nat, NEW b \in Nat, NEW s \in Seq(Byte), b <= Len(s),
         W \in {Open, R.level}, Link(x, T, R, W, t, a, b, s)
  PROVE  Link(x, T, R, W, u, a, b, s)
<1>1. CASE Quiet(x, T, R, W, t, a, b, s)
  <2>1. ASSUME SeenWhole(x, R, s[b], t) PROVE SeenWhole(x, R, s[b], u)
    BY <2>1, RxFields, EndFacts DEF SeenWhole
  <2> QED BY <1>1, <2>1 DEF Quiet, Link
<1>2. ASSUME NEW m \in 1..FrameBits, SendingBit(x, T, R, W, t, a, b, s, m)
      PROVE  SendingBit(x, T, R, W, u, a, b, s, m)
  <2>1. b \in 1..Len(s) /\ s[b] \in Byte
    <3>1. b \in 1..Len(s)
      BY <1>2, LenProperties DEF SendingBit
    <3> QED BY <3>1, ElementOfSeq
  <2>2. W = R.level
    BY <1>2, <2>1, BitType, Known DEF SendingBit, Driving, Bits
  <2> QED BY <1>2, <2>2 DEF SendingBit, Driving
<1> QED BY <1>1, <1>2 DEF Link, Sending

(* A transmitter's record, and one with a field replaced.                   *)
TxRec(e, p, b, d) == [enabled |-> e, pending |-> p, bits |-> b, due |-> d]
WithPending(r, v) == [r EXCEPT !.pending = v]
WithDue(r, v) == [r EXCEPT !.due = v]

(* The fields of a transmitter's record.                                    *)
LEMMA TxFieldsOf ==
  ASSUME NEW e, NEW p, NEW b, NEW d
  PROVE  /\ TxRec(e, p, b, d).enabled = e /\ TxRec(e, p, b, d).pending = p
         /\ TxRec(e, p, b, d).bits = b /\ TxRec(e, p, b, d).due = d
  BY DEF TxRec

(* The transmitter's record, field by field.                                *)
LEMMA TxRecs ==
  ASSUME NEW e, NEW p, NEW b, NEW d, NEW v
  PROVE  /\ WithPending(TxRec(e, p, b, d), v) = TxRec(e, v, b, d)
         /\ WithBits(TxRec(e, p, b, d), v) = TxRec(e, p, v, d)
         /\ WithDue(TxRec(e, p, b, d), v) = TxRec(e, p, b, v)
<1> DEFINE r == TxRec(e, p, b, d)
<1>1. r = [enabled |-> e, pending |-> p, bits |-> b, due |-> d]
  BY DEF TxRec
<1> HIDE DEF r
<1>2. [r EXCEPT !.pending = v] = TxRec(e, v, b, d)
  BY <1>1 DEF TxRec
<1>3. [r EXCEPT !.bits = v] = TxRec(e, p, v, d)
  BY <1>1 DEF TxRec
<1>4. [r EXCEPT !.due = v] = TxRec(e, p, b, v)
  BY <1>1 DEF TxRec
<1> QED BY <1>2, <1>3, <1>4, Zenon DEF WithPending, WithBits, WithDue, r

(* A transmitter's record is its fields, typed.                             *)
LEMMA TxIs ==
  ASSUME NEW T \in TxState
  PROVE  /\ T = TxRec(T.enabled, T.pending, T.bits, T.due)
         /\ T.enabled \in BOOLEAN /\ T.pending \in Seq(Byte) /\ T.bits \in Seq(Bits)
         /\ T.due \in Nat \cup {None} /\ Len(T.pending) \in Nat /\ Len(T.bits) \in Nat
  BY LenProperties DEF TxState, TxRec

(* A record of typed fields is a transmitter.                               *)
LEMMA TxTyped ==
  ASSUME NEW e \in BOOLEAN, NEW p \in Seq(Byte), NEW b \in Seq(Bits), NEW d \in Nat \cup {None}
  PROVE  TxRec(e, p, b, d) \in TxState
  BY DEF TxRec, TxState

(* service_tx, case by case.                                                *)
Nothing(T, t) == ~T.enabled \/ T.due > t \/ (T.due = None /\ T.pending = <<>>)
Served(T, v) == [tx |-> T, level |-> v]

(* What service_tx returns, field by field.                                 *)
LEMMA ServedFields == ASSUME NEW T, NEW v PROVE Served(T, v).tx = T /\ Served(T, v).level = v
  BY DEF Served

(* service_tx with nothing due does nothing.                                *)
LEMMA ServeNothing ==
  ASSUME NEW x, NEW T, NEW t, Nothing(T, t)
  PROVE  ServiceTx(x, T, t) = Served(T, None)
  BY Zenon DEF ServiceTx, Nothing, Served

(* service_tx after the last stop bit goes idle.                            *)
LEMMA ServeEnd ==
  ASSUME NEW x, NEW T, NEW t, ~Nothing(T, t), T.bits = <<>>, T.pending = <<>>
  PROVE  ServiceTx(x, T, t) = Served(WithDue(T, None), 1)
  BY Zenon DEF ServiceTx, Nothing, Served, WithDue

(* service_tx inside a frame drives the next bit.                           *)
LEMMA ServeBit ==
  ASSUME NEW x, NEW T, NEW t, ~Nothing(T, t), T.bits # <<>>, NEW u, (IF T.due = None THEN t ELSE T.due) = u
  PROVE  ServiceTx(x, T, t)
           = Served(WithDue(WithPending(WithBits(T, Tail(T.bits)), T.pending), u + Period[x]), Head(T.bits))
<1>1. ServiceTx(x, T, t)
        = [tx |-> [T EXCEPT !.bits = Tail(T.bits), !.pending = T.pending,
                            !.due = (IF T.due = None THEN t ELSE T.due) + Period[x]],
           level |-> Head(T.bits)]
  BY Zenon DEF ServiceTx, Nothing
<1>2. [T EXCEPT !.bits = Tail(T.bits), !.pending = T.pending, !.due = u + Period[x]]
        = WithDue(WithPending(WithBits(T, Tail(T.bits)), T.pending), u + Period[x])
  BY DEF WithDue, WithPending, WithBits
<1> QED BY <1>1, <1>2, Zenon DEF Served

(* service_tx between frames starts the next byte.                          *)
LEMMA ServeByte ==
  ASSUME NEW x, NEW T, NEW t, ~Nothing(T, t), T.bits = <<>>, T.pending # <<>>,
         NEW u, (IF T.due = None THEN t ELSE T.due) = u, NEW e, e = Encode(Head(T.pending)), e # <<>>
  PROVE  ServiceTx(x, T, t)
           = Served(WithDue(WithPending(WithBits(T, Tail(e)), Tail(T.pending)), u + Period[x]), Head(e))
<1>1. ServiceTx(x, T, t)
        = [tx |-> [T EXCEPT !.bits = Tail(e), !.pending = Tail(T.pending),
                            !.due = (IF T.due = None THEN t ELSE T.due) + Period[x]],
           level |-> Head(e)]
  BY Zenon DEF ServiceTx, Nothing
<1>2. [T EXCEPT !.bits = Tail(e), !.pending = Tail(T.pending), !.due = u + Period[x]]
        = WithDue(WithPending(WithBits(T, Tail(e)), Tail(T.pending)), u + Period[x])
  BY DEF WithDue, WithPending, WithBits
<1> QED BY <1>1, <1>2, Zenon DEF Served

(* The last bit of a frame is over, or none was begun.                      *)
LEMMA Ended ==
  ASSUME NEW x \in Ends, NEW T \in TxState, NEW R \in RxState, NEW W, W = R.level,
         NEW t \in Nat, NEW a \in Nat, NEW b \in Nat, NEW s \in Seq(Byte),
         Link(x, T, R, W, t, a, b, s), T.bits = <<>>, ~(T.due > t)
  PROVE  /\ R.level = 1
         /\ \/ b = a /\ R.start = None
            \/ b = a + 1 /\ SeenWhole(x, R, s[b], t)
<1>1. CASE Quiet(x, T, R, W, t, a, b, s)
  BY <1>1 DEF Quiet
<1>2. ASSUME NEW m \in 1..FrameBits, SendingBit(x, T, R, W, t, a, b, s, m)
      PROVE  R.level = 1 /\ ((b = a /\ R.start = None) \/ (b = a + 1 /\ SeenWhole(x, R, s[b], t)))
  <2>1. Driving(T, W, t, s[b], m) /\ Received(x, T, R, a, b, s, m)
    BY <1>2 DEF SendingBit
  <2>2. T.due \in Nat /\ t <= T.due /\ m \in Nat /\ FrameBits \in Nat /\ FrameBits >= 3
    BY <2>1, DrivingFacts, Constants
  <2>3. m = FrameBits
    <3>1. Len(T.bits) = 0 /\ Len(T.bits) = FrameBits - m
      BY <2>1 DEF Driving
    <3> QED BY <3>1, <2>2
  <2>4. R.level = 1
    BY <2>1, <2>2, <2>3 DEF Driving, Bit
  <2>5. T.due = t
    BY <2>2
  <2>6. ASSUME b = a + 1, R.start # None, Seen(x, R, s[b], m), T.due = R.start + m * Period[x]
        PROVE  SeenWhole(x, R, s[b], t)
    <3>1. FrameNs(x) = FrameBits * Period[x]
      BY EndFacts
    <3>2. R.start + FrameNs(x) = t
      BY <3>1, <2>3, <2>5, <2>6
    <3> QED BY <3>2, <2>2, <2>3, <2>6 DEF SeenWhole
  <2> QED BY <2>1, <2>4, <2>6 DEF Received
<1> QED BY <1>1, <1>2 DEF Link, Sending

Part(q, s, a) == \A i \in 1..Len(q) : q[i] = s[a + i]

(* k bytes of the queue have been started.                                  *)
Serviced(x, T, R, W, t, a, b, s, out, k) ==
  /\ out.tx \in TxState /\ out.tx.enabled = T.enabled
  /\ k <= Len(T.pending) /\ out.tx.pending = (IF k = 0 THEN T.pending ELSE Tail(T.pending))
  /\ out.level \in Bits \cup {None}
  /\ Link(x, out.tx, R, IF out.level = None THEN W ELSE out.level, t, a, b + k, s)
  /\ T.enabled => /\ out.tx.due # None => out.tx.due > t
                  /\ out.tx.due = None => out.tx.pending = <<>>

(* A level that does not change is the next bit too.                        *)
LEMMA SeenOn ==
  ASSUME NEW x, NEW R, NEW c, NEW m \in Nat \ {0}, Seen(x, R, c, m), R.level = Bit(c, m + 1)
  PROVE  Seen(x, R, c, m + 1)
<1>1. PICK j \in 1..m : SeenFrom(x, R, c, m, j)
  BY DEF Seen
<1>2. \A i \in j..(m + 1) : Bit(c, i) = R.level
  <2> SUFFICES ASSUME NEW i \in j..(m + 1) PROVE Bit(c, i) = R.level
    OBVIOUS
  <2>1. i \in j..m \/ i = m + 1
    BY <1>1
  <2> QED BY <2>1, <1>1 DEF SeenFrom
<1>3. SeenFrom(x, R, c, m + 1, j)
  BY <1>1, <1>2 DEF SeenFrom
<1>4. j \in 1..(m + 1)
  BY <1>1
<1> QED BY <1>3, <1>4 DEF Seen

(* The head and the tail of a sequence.                                     *)
LEMMA TailFacts ==
  ASSUME NEW S, NEW q \in Seq(S), q # <<>>
  PROVE  /\ Tail(q) \in Seq(S) /\ Len(Tail(q)) = Len(q) - 1 /\ Head(q) \in S /\ Head(q) = q[1] /\ Len(q) > 0
         /\ \A i \in 1..Len(Tail(q)) : Tail(q)[i] = q[i + 1]
  BY HeadTailProperties, EmptySeq, LenProperties

(* The next bit of a frame is on its grid, and keeps the wire as it should  *)
(* be.                                                                      *)
LEMMA NextBit ==
  ASSUME Tolerable, NEW x \in Ends, NEW T \in TxState, NEW R \in RxState, NEW W, W = R.level,
         NEW t \in Nat, NEW a \in Nat, NEW b \in Nat, NEW s \in Seq(Byte), b <= Len(s),
         Link(x, T, R, W, t, a, b, s), T.bits # <<>>, ~(T.due > t)
  PROVE  /\ T.due = t /\ Head(T.bits) \in Bits
         /\ Link(x, TxRec(T.enabled, T.pending, Tail(T.bits), t + Period[x]), R, Head(T.bits), t, a, b, s)
<1>1. ~Quiet(x, T, R, W, t, a, b, s)
  BY DEF Quiet
<1>2. PICK m \in 1..FrameBits : SendingBit(x, T, R, W, t, a, b, s, m)
  BY <1>1 DEF Link, Sending
<1>3. Driving(T, W, t, s[b], m) /\ Received(x, T, R, a, b, s, m) /\ b > 0
  BY <1>2 DEF SendingBit
<1>4. T.due \in Nat /\ t <= T.due /\ m \in Nat /\ m <= FrameBits /\ 1 <= m /\ FrameBits \in Nat
  BY <1>3, DrivingFacts, Constants
<1>5. T.due = t
  BY <1>4
<1>6. /\ Tail(T.bits) \in Seq(Bits) /\ Len(Tail(T.bits)) = Len(T.bits) - 1 /\ Head(T.bits) \in Bits
      /\ Head(T.bits) = T.bits[1] /\ Len(T.bits) > 0
      /\ \A i \in 1..Len(Tail(T.bits)) : Tail(T.bits)[i] = T.bits[i + 1]
  BY TxIs, TailFacts
<1>7. Len(T.bits) = FrameBits - m /\ \A i \in 1..Len(T.bits) : T.bits[i] = Bit(s[b], m + i)
  BY <1>3 DEF Driving
<1>8. m < FrameBits
  BY <1>4, <1>6, <1>7
<1> DEFINE U == TxRec(T.enabled, T.pending, Tail(T.bits), t + Period[x])
           V == Head(T.bits)
<1>9. U.due = t + Period[x] /\ U.bits = Tail(T.bits)
  BY TxFieldsOf
<1>p. Period[x] \in Nat \ {0}
  BY EndFacts
<1>10. V = Bit(s[b], m + 1)
  BY <1>4, <1>6, <1>7, 1 \in 1..Len(T.bits)
<1> HIDE DEF U, V
<1>11. Driving(U, V, t, s[b], m + 1)
  <2>1. U.due # None /\ t <= U.due
    BY <1>9, <1>p, Known
  <2>2. Len(U.bits) = FrameBits - (m + 1)
    BY <1>4, <1>6, <1>7, <1>9
  <2>3. \A i \in 1..Len(U.bits) : U.bits[i] = Bit(s[b], (m + 1) + i)
    <3> SUFFICES ASSUME NEW i \in 1..Len(U.bits) PROVE U.bits[i] = Bit(s[b], (m + 1) + i)
      OBVIOUS
    <3>1. i + 1 \in 1..Len(T.bits) /\ m + (i + 1) = (m + 1) + i
      BY <1>4, <1>6, <1>7, <1>9
    <3>2. U.bits[i] = T.bits[i + 1]
      BY <1>6, <1>9
    <3>3. T.bits[i + 1] = Bit(s[b], m + (i + 1))
      BY <3>1, <1>7
    <3> QED BY <3>1, <3>2, <3>3
  <2> QED BY <2>1, <2>2, <2>3, <1>10 DEF Driving
<1>12. b = a + 1 /\ R.start # None /\ Seen(x, R, s[b], m) /\ t = R.start + m * Period[x]
  BY <1>3, <1>5, <1>8 DEF Received
<1>13. t + Period[x] = R.start + (m + 1) * Period[x]
  <2> DEFINE q == Period[x]
             u == R.start
  <2>1. m \in Nat /\ q \in Nat /\ u \in Nat /\ t = u + m * q
    BY <1>12, <1>4, <1>p, RxFields
  <2> HIDE DEF q, u
  <2>2. t + q = u + (m + 1) * q
    BY ONLY <2>1, PeriodOn
  <2> QED BY <2>2 DEF q, u
<1>14. IF R.level = V THEN Received(x, U, R, a, b, s, m + 1) ELSE Unreceived(x, U, R, t, a, b, s, m + 1)
  <2>1. CASE R.level = V
    <3>1. Seen(x, R, s[b], m + 1)
      BY <2>1, <1>4, <1>10, <1>12, SeenOn
    <3>2. Received(x, U, R, a, b, s, m + 1)
      BY <3>1, <1>9, <1>12, <1>13 DEF Received
    <3> QED BY <2>1, <3>2
  <2>2. CASE R.level # V
    <3>1. (m + 1) - 1 = m /\ m + 1 > 1
      BY <1>4
    <3>2. Unreceived(x, U, R, t, a, b, s, m + 1)
      BY <3>1, <1>9, <1>12, <1>13 DEF Unreceived
    <3> QED BY <2>2, <3>2
  <2> QED BY <2>1, <2>2
<1>15. SendingBit(x, U, R, V, t, a, b, s, m + 1)
  BY <1>3, <1>11, <1>14 DEF SendingBit
<1>16. m + 1 \in 1..FrameBits
  BY <1>4, <1>8
<1>17. Link(x, U, R, V, t, a, b, s)
  BY <1>15, <1>16 DEF Link, Sending
<1> QED BY <1>5, <1>6, <1>17 DEF U, V

(* The first bit of a byte finds the byte before it seen whole.             *)
LEMMA FirstBit ==
  ASSUME NEW x \in Ends, NEW T \in TxState, NEW R \in RxState, NEW W, W = R.level,
         NEW t \in Nat, NEW a \in Nat, NEW b \in Nat, NEW s \in Seq(Byte),
         Link(x, T, R, W, t, a, b, s), T.bits = <<>>, ~(T.due > t), b + 1 <= Len(s),
         NEW e, e = Encode(s[b + 1]), NEW p, NEW f
  PROVE  Link(x, TxRec(f, p, Tail(e), t + Period[x]), R, Head(e), t, a, b + 1, s)
<1>1. R.level = 1 /\ ((b = a /\ R.start = None) \/ (b = a + 1 /\ SeenWhole(x, R, s[b], t)))
  BY Ended
<1>2. b + 1 \in 1..Len(s) /\ s[b + 1] \in Byte
  <2>1. b + 1 \in 1..Len(s)
    BY LenProperties
  <2> QED BY <2>1, ElementOfSeq
<1> DEFINE c == s[b + 1]
<1>3. e \in Seq(Bits) /\ Len(e) = FrameBits /\ \A k \in 1..FrameBits : e[k] = Bit(c, k)
  BY <1>2, EncodeBits
<1>4. FrameBits \in Nat /\ FrameBits >= 3
  BY Constants
<1>5. e # <<>>
  BY <1>3, <1>4
<1>6. /\ Tail(e) \in Seq(Bits) /\ Len(Tail(e)) = Len(e) - 1 /\ Head(e) = e[1]
      /\ \A i \in 1..Len(Tail(e)) : Tail(e)[i] = e[i + 1]
  BY <1>3, <1>5, TailFacts
<1> DEFINE U == TxRec(f, p, Tail(e), t + Period[x])
           V == Head(e)
<1>7. U.due = t + Period[x] /\ U.bits = Tail(e)
  BY DEF TxRec
<1>8. V = Bit(c, 1) /\ V = 0
  <2>1. 1 \in 1..FrameBits
    BY <1>4
  <2>2. V = Bit(c, 1)
    BY <2>1, <1>3, <1>6
  <2> QED BY <2>2 DEF Bit
<1>p. Period[x] \in Nat \ {0}
  BY EndFacts
<1> HIDE DEF U, V
<1>9. Driving(U, V, t, c, 1)
  <2>1. U.due # None /\ t <= U.due
    BY <1>7, <1>p, Known
  <2>2. Len(U.bits) = FrameBits - 1
    BY <1>3, <1>6, <1>7
  <2>3. \A i \in 1..Len(U.bits) : U.bits[i] = Bit(c, 1 + i)
    <3> SUFFICES ASSUME NEW i \in 1..Len(U.bits) PROVE U.bits[i] = Bit(c, 1 + i)
      OBVIOUS
    <3>1. i + 1 \in 1..FrameBits /\ i + 1 = 1 + i
      BY <2>2, <1>4
    <3> QED BY <3>1, <1>3, <1>6, <1>7
  <2> QED BY <2>1, <2>2, <2>3, <1>8 DEF Driving
<1>10. Unreceived(x, U, R, t, a, b + 1, s, 1)
  <2>1. (b + 1) - 1 = b
    OBVIOUS
  <2> QED BY <2>1, <1>1, <1>7 DEF Unreceived
<1>11. SendingBit(x, U, R, V, t, a, b + 1, s, 1)
  BY <1>1, <1>8, <1>9, <1>10 DEF SendingBit
<1>12. 1 \in 1..FrameBits
  BY <1>4
<1> QED BY <1>11, <1>12 DEF Link, Sending, U, V

(* The service of a transmitter, whose level the far end has taken: the     *)
(* frames of its queue go out one after the other.                          *)
LEMMA LinkServes ==
  ASSUME Tolerable, NEW x \in Ends, NEW T \in TxState, NEW R \in RxState, NEW W, W = R.level,
         NEW t \in Nat, NEW a \in Nat, NEW b \in Nat, NEW s \in Seq(Byte),
         b + Len(T.pending) <= Len(s), Part(T.pending, s, b),
         Link(x, T, R, W, t, a, b, s), NEW out, out = ServiceTx(x, T, t)
  PROVE  \/ Serviced(x, T, R, W, t, a, b, s, out, 0)
         \/ T.pending # <<>> /\ Serviced(x, T, R, W, t, a, b, s, out, 1)
<1>0. /\ T = TxRec(T.enabled, T.pending, T.bits, T.due) /\ T.enabled \in BOOLEAN
      /\ T.pending \in Seq(Byte) /\ T.bits \in Seq(Bits) /\ T.due \in Nat \cup {None}
      /\ Len(T.pending) \in Nat
  BY TxIs
<1>p. Period[x] \in Nat \ {0} /\ t + Period[x] \in Nat /\ t + Period[x] > t /\ t + Period[x] # None
  <2>1. Period[x] \in Nat \ {0}
    BY EndFacts
  <2> QED BY <2>1, Known
<1>b. b <= Len(s) /\ Len(s) \in Nat /\ b + 0 = b
  BY <1>0, LenProperties
<1>1. CASE Nothing(T, t)
  <2>1. out.tx = T /\ out.level = None
    BY <1>1, ServeNothing, ServedFields
  <2>2. T.enabled => /\ T.due # None => T.due > t
                     /\ T.due = None => T.pending = <<>>
    BY <1>1, Known DEF Nothing
  <2> QED BY <2>1, <2>2, <1>0, <1>b DEF Serviced
<1>2. CASE ~Nothing(T, t)
  <2>0. T.enabled /\ ~(T.due > t)
    BY <1>2 DEF Nothing
  <2>1. CASE T.bits = <<>> /\ T.pending = <<>>
    <3> DEFINE U == WithDue(T, None)
    <3>1. out.tx = U /\ out.level = 1
      BY <1>2, <2>1, ServeEnd, ServedFields
    <3>2. U = TxRec(T.enabled, T.pending, T.bits, None)
      BY <1>0, TxRecs
    <3> HIDE DEF U
    <3>3. U.enabled = T.enabled /\ U.pending = T.pending /\ U.bits = T.bits /\ U.due = None
      BY <3>2, TxFieldsOf
    <3>4. U \in TxState
      BY <3>2, <1>0, TxTyped
    <3>5. R.level = 1 /\ ((b = a /\ R.start = None) \/ (b = a + 1 /\ SeenWhole(x, R, s[b], t)))
      BY <2>0, <2>1, Ended
    <3>6. Quiet(x, U, R, 1, t, a, b, s)
      BY <2>1, <3>3, <3>5 DEF Quiet
    <3>7. 1 # None /\ 1 \in Bits
      BY Known DEF Bits
    <3> QED BY <2>1, <3>1, <3>3, <3>4, <3>6, <3>7, <1>0, <1>b DEF Serviced, Link
  <2>2. CASE T.bits # <<>>
    <3> DEFINE U == TxRec(T.enabled, T.pending, Tail(T.bits), t + Period[x])
               V == Head(T.bits)
    <3>1. T.due = t /\ V \in Bits /\ Link(x, U, R, V, t, a, b, s)
      BY <2>0, <2>2, <1>b, NextBit
    <3>2. (IF T.due = None THEN t ELSE T.due) = t
      BY <3>1
    <3>3. out = Served(WithDue(WithPending(WithBits(T, Tail(T.bits)), T.pending), t + Period[x]), V)
      BY <1>2, <2>2, <3>2, ServeBit
    <3>4. WithDue(WithPending(WithBits(T, Tail(T.bits)), T.pending), t + Period[x]) = U
      BY <1>0, TxRecs
    <3>5. out.tx = U /\ out.level = V
      BY <3>3, <3>4, ServedFields
    <3>6. U.enabled = T.enabled /\ U.pending = T.pending /\ U.due = t + Period[x]
      BY TxFieldsOf
    <3>7. U \in TxState
      BY <2>2, <1>0, <1>p, TailFacts, TxTyped
    <3> HIDE DEF U, V
    <3>8. V # None
      BY <3>1, Known DEF Bits
    <3> QED BY <3>1, <3>5, <3>6, <3>7, <3>8, <1>0, <1>b, <1>p DEF Serviced
  <2>3. CASE T.bits = <<>> /\ T.pending # <<>>
    <3> DEFINE e == Encode(s[b + 1])
               U == TxRec(T.enabled, Tail(T.pending), Tail(e), t + Period[x])
               V == Head(e)
    <3>0. /\ Tail(T.pending) \in Seq(Byte) /\ Head(T.pending) = T.pending[1] /\ Len(T.pending) > 0
      BY <2>3, <1>0, TailFacts
    <3>1. b + 1 <= Len(s) /\ Head(T.pending) = s[b + 1] /\ 1 <= Len(T.pending)
      <4>1. 1 \in 1..Len(T.pending)
        BY <3>0, <1>0
      <4>2. T.pending[1] = s[b + 1]
        BY <4>1 DEF Part
      <4> QED BY <4>2, <3>0, <1>0, <1>b
    <3>2. e \in Seq(Bits) /\ e # <<>>
      <4>1. s[b + 1] \in Byte
        BY <3>1, <1>b, ElementOfSeq, b + 1 \in 1..Len(s)
      <4>2. e \in Seq(Bits) /\ Len(e) = FrameBits
        BY <4>1, EncodeBits
      <4> QED BY <4>2, Constants
    <3>3. (IF T.due = None THEN t ELSE T.due) = t
      <4>1. T.due # None => T.due = t
        <5>1. ASSUME Sending(x, T, R, W, t, a, b, s) PROVE t <= T.due
          BY <5>1 DEF Sending, SendingBit, Driving
        <5>2. ASSUME Quiet(x, T, R, W, t, a, b, s) PROVE T.due = None
          BY <5>2 DEF Quiet
        <5> QED BY <5>1, <5>2, <2>0, <1>0 DEF Link
      <4> QED BY <4>1
    <3>4. Link(x, U, R, V, t, a, b + 1, s)
      <4> HIDE DEF e
      <4>1. e = Encode(s[b + 1])
        BY DEF e
      <4> QED BY <4>1, <3>1, <2>0, <2>3, FirstBit
    <3>5. e = Encode(Head(T.pending))
      BY <3>1
    <3>6. V \in Bits /\ Tail(e) \in Seq(Bits)
      BY <3>2, TailFacts
    <3> HIDE DEF e
    <3>7. out = Served(WithDue(WithPending(WithBits(T, Tail(e)), Tail(T.pending)), t + Period[x]), V)
      BY <1>2, <2>3, <3>2, <3>3, <3>5, ServeByte
    <3>8. WithDue(WithPending(WithBits(T, Tail(e)), Tail(T.pending)), t + Period[x]) = U
      BY <1>0, TxRecs
    <3>9. out.tx = U /\ out.level = V
      BY <3>7, <3>8, ServedFields
    <3>10. U.enabled = T.enabled /\ U.pending = Tail(T.pending) /\ U.due = t + Period[x]
      BY TxFieldsOf
    <3>11. U \in TxState
      BY <3>0, <3>6, <1>0, <1>p, TxTyped
    <3> HIDE DEF U, V
    <3>12. V # None
      BY <3>6, Known DEF Bits
    <3>13. Serviced(x, T, R, W, t, a, b, s, out, 1)
      BY <3>1, <3>4, <3>6, <3>9, <3>10, <3>11, <3>12, <1>p DEF Serviced
    <3> QED BY <2>3, <3>13
  <2> QED BY <2>1, <2>2, <2>3
<1> QED BY <1>1, <1>2

(* Bytes in their places: q is what s holds after its first a.              *)
LEMMA PartTail ==
  ASSUME NEW q \in Seq(Byte), q # <<>>, NEW s, NEW a \in Nat, Part(q, s, a)
  PROVE  Part(Tail(q), s, a + 1)
<1> SUFFICES ASSUME NEW i \in 1..Len(Tail(q)) PROVE Tail(q)[i] = s[(a + 1) + i]
  BY DEF Part
<1>1. Len(Tail(q)) = Len(q) - 1 /\ Tail(q)[i] = q[i + 1]
  BY TailFacts
<1>2. i + 1 \in 1..Len(q) /\ a + (i + 1) = (a + 1) + i
  BY <1>1, LenProperties
<1>3. q[i + 1] = s[a + (i + 1)]
  BY <1>2 DEF Part
<1> QED BY <1>1, <1>2, <1>3

(* The head of a part is the byte it starts at.                             *)
LEMMA PartHead ==
  ASSUME NEW q \in Seq(Byte), q # <<>>, NEW s, NEW a \in Nat, Part(q, s, a)
  PROVE  Head(q) = s[a + 1]
<1>1. Head(q) = q[1] /\ Len(q) > 0 /\ Len(q) \in Nat
  BY TailFacts, LenProperties
<1>2. 1 \in 1..Len(q)
  BY <1>1
<1> QED BY <1>1, <1>2 DEF Part

(* Two parts that meet are one.                                             *)
LEMMA PartConcat ==
  ASSUME NEW q \in Seq(Byte), NEW u \in Seq(Byte), NEW s, NEW a \in Nat,
         Part(q, s, a), Part(u, s, a + Len(q))
  PROVE  Part(q \o u, s, a)
<1>1. /\ Len(q \o u) = Len(q) + Len(u)
      /\ \A i \in 1 .. Len(q) + Len(u) : (q \o u)[i] = IF i <= Len(q) THEN q[i] ELSE u[i - Len(q)]
  BY ConcatProperties
<1>2. Len(q) \in Nat /\ Len(u) \in Nat
  BY LenProperties
<1> SUFFICES ASSUME NEW i \in 1..Len(q) + Len(u) PROVE (q \o u)[i] = s[a + i]
  BY <1>1 DEF Part
<1>3. CASE i <= Len(q)
  <2>1. i \in 1..Len(q)
    BY <1>2, <1>3
  <2> QED BY <2>1, <1>1, <1>3 DEF Part
<1>4. CASE ~(i <= Len(q))
  <2>1. i - Len(q) \in 1..Len(u) /\ (a + Len(q)) + (i - Len(q)) = a + i
    BY <1>2, <1>4
  <2>2. u[i - Len(q)] = s[(a + Len(q)) + (i - Len(q))]
    BY <2>1 DEF Part
  <2> QED BY <2>1, <2>2, <1>1, <1>4
<1> QED BY <1>3, <1>4

(* One byte is a part.                                                      *)
LEMMA PartOne ==
  ASSUME NEW f \in Byte, NEW s, NEW a \in Nat, f = s[a + 1]
  PROVE  Part(<<f>>, s, a)
<1>1. Len(<<f>>) = 1 /\ <<f>>[1] = f
  OBVIOUS
<1> SUFFICES ASSUME NEW i \in 1..1 PROVE <<f>>[i] = s[a + i]
  BY <1>1 DEF Part
<1> QED BY <1>1

(* No byte is a part anywhere.                                              *)
LEMMA PartNone == ASSUME NEW s, NEW a PROVE Part(<<>>, s, a) /\ Len(<<>>) = 0
  BY DEF Part

(* A part and the byte after it are one.                                    *)
LEMMA PartAppend ==
  ASSUME NEW q \in Seq(Byte), NEW f \in Byte, NEW s, NEW a \in Nat, Part(q, s, a), f = s[(a + Len(q)) + 1]
  PROVE  /\ Part(Append(q, f), s, a) /\ Append(q, f) \in Seq(Byte) /\ Len(Append(q, f)) = Len(q) + 1
<1> DEFINE z == Append(q, f)
<1>1. /\ z \in Seq(Byte) /\ Len(z) = Len(q) + 1 /\ z[Len(q) + 1] = f
      /\ \A i \in 1..Len(q) : z[i] = q[i]
  BY AppendProperties
<1>2. Len(q) \in Nat
  BY LenProperties
<1> HIDE DEF z
<1>3. \A i \in 1..Len(z) : z[i] = s[a + i]
  <2> SUFFICES ASSUME NEW i \in 1..Len(z) PROVE z[i] = s[a + i]
    OBVIOUS
  <2>1. CASE i = Len(q) + 1
    BY <2>1, <1>1, <1>2
  <2>2. CASE i # Len(q) + 1
    <3>1. i \in 1..Len(q)
      BY <2>2, <1>1, <1>2
    <3> QED BY <3>1, <1>1 DEF Part
  <2> QED BY <2>1, <2>2
<1> QED BY <1>1, <1>3 DEF Part, z

(* A part of a part is one, further on.                                     *)
LEMMA PartSub ==
  ASSUME NEW q \in Seq(Byte), NEW m \in Nat \ {0}, NEW n \in Nat, n <= Len(q), m <= n + 1,
         NEW s, NEW a \in Nat, Part(q, s, a)
  PROVE  /\ SubSeq(q, m, n) \in Seq(Byte) /\ Len(SubSeq(q, m, n)) = (n + 1) - m
         /\ Part(SubSeq(q, m, n), s, (a + m) - 1)
<1> DEFINE z == SubSeq(q, m, n)
<1>0. Len(q) \in Nat
  BY LenProperties
<1>1. \A i \in m..n : q[i] \in Byte
  <2> SUFFICES ASSUME NEW i \in m..n PROVE q[i] \in Byte
    OBVIOUS
  <2>1. i \in 1..Len(q)
    BY <1>0
  <2> QED BY <2>1, ElementOfSeq
<1>2. /\ z \in Seq(Byte) /\ Len(z) = (IF m <= n THEN n - m + 1 ELSE 0)
      /\ \A i \in 1..(n - m + 1) : z[i] = q[m + i - 1]
  BY <1>1, SubSeqProperties
<1> HIDE DEF z
<1>3. Len(z) = (n + 1) - m
  BY <1>2
<1>4. \A i \in 1..Len(z) : z[i] = s[((a + m) - 1) + i]
  <2> SUFFICES ASSUME NEW i \in 1..Len(z) PROVE z[i] = s[((a + m) - 1) + i]
    OBVIOUS
  <2>1. i \in 1..(n - m + 1) /\ m + i - 1 \in 1..Len(q) /\ a + (m + i - 1) = ((a + m) - 1) + i
    BY <1>0, <1>3
  <2>2. z[i] = q[m + i - 1] /\ q[m + i - 1] = s[a + (m + i - 1)]
    BY <2>1, <1>2 DEF Part
  <2> QED BY <2>1, <2>2
<1> QED BY <1>2, <1>3, <1>4 DEF Part, z

(* The host's record. *)
HostState == [sent : Seq(Byte), unsent : Seq(Byte), inbox : Seq(Byte), outbound : Seq(Byte),
              pty : Seq(Byte), got : Seq(Byte), dropped : Nat, shed : Nat]

(* The fields of the host's record, typed.                                  *)
LEMMA HostFields ==
  ASSUME NEW h \in HostState
  PROVE  /\ h.sent \in Seq(Byte) /\ h.unsent \in Seq(Byte) /\ h.inbox \in Seq(Byte)
         /\ h.outbound \in Seq(Byte) /\ h.pty \in Seq(Byte) /\ h.got \in Seq(Byte)
         /\ h.dropped \in Nat /\ h.shed \in Nat
         /\ Len(h.sent) \in Nat /\ Len(h.unsent) \in Nat /\ Len(h.inbox) \in Nat
         /\ Len(h.outbound) \in Nat /\ Len(h.pty) \in Nat /\ Len(h.got) \in Nat
<1>1. /\ h.sent \in Seq(Byte) /\ h.unsent \in Seq(Byte) /\ h.inbox \in Seq(Byte)
      /\ h.outbound \in Seq(Byte) /\ h.pty \in Seq(Byte) /\ h.got \in Seq(Byte)
      /\ h.dropped \in Nat /\ h.shed \in Nat
  BY DEF HostState
<1> QED BY <1>1, LenProperties

(* drain_outbound, field by field.                                          *)
Drained(h, f, g, Q, w, k, e) ==
  /\ Q = h.outbound \o Good(f)
  /\ w = Lesser(Len(Q), PtyRoom - Len(h.pty))
  /\ k = SubSeq(Q, w + 1, Len(Q))
  /\ e = IF Len(k) > OutboundMax THEN Len(k) - OutboundMax ELSE 0
  /\ g.sent = h.sent /\ g.unsent = h.unsent /\ g.inbox = h.inbox /\ g.got = h.got /\ g.shed = h.shed
  /\ g.pty = h.pty \o SubSeq(Q, 1, w)
  /\ g.outbound = SubSeq(k, e + 1, Len(k))
  /\ g.dropped = h.dropped + e
  /\ g = [h EXCEPT !.pty = g.pty, !.outbound = g.outbound, !.dropped = g.dropped]
IsDrained(h, f, g) == \E Q, w, k, e : Drained(h, f, g, Q, w, k, e)

(* drain_outbound is its four quantities and what it leaves.                *)
LEMMA DrainFields ==
  ASSUME NEW h \in HostState, NEW f, NEW g, g = Drain(h, f)
  PROVE  IsDrained(h, f, g)
<1> DEFINE Q == h.outbound \o Good(f)
           w == Lesser(Len(Q), PtyRoom - Len(h.pty))
           k == SubSeq(Q, w + 1, Len(Q))
           e == IF Len(k) > OutboundMax THEN Len(k) - OutboundMax ELSE 0
           p == h.pty \o SubSeq(Q, 1, w)
           o == SubSeq(k, e + 1, Len(k))
           d == h.dropped + e
<1>1. g = [h EXCEPT !.pty = p, !.outbound = o, !.dropped = d]
  BY Zenon DEF Drain
<1> HIDE DEF p, o, d
<1>2. g.pty = p /\ g.outbound = o /\ g.dropped = d
  BY <1>1 DEF HostState
<1>3. g.sent = h.sent /\ g.unsent = h.unsent /\ g.inbox = h.inbox /\ g.got = h.got /\ g.shed = h.shed
  BY <1>1 DEF HostState
<1>4. Drained(h, f, g, Q, w, k, e)
  BY <1>1, <1>2, <1>3, Zenon DEF p, o, d, Drained
<1> HIDE DEF Q, w, k, e
<1> QED BY <1>4 DEF IsDrained

(* What fits is no more than there is, nor than there is room for.          *)
LEMMA LesserFacts ==
  ASSUME NEW a \in Nat, NEW b \in Int, b >= 0
  PROVE  Lesser(a, b) \in Nat /\ Lesser(a, b) <= a /\ Lesser(a, b) <= b
  BY DEF Lesser

(* What is beyond the limit is no more than there is.                       *)
LEMMA ExcessFacts ==
  ASSUME NEW a \in Nat, NEW b \in Nat, NEW e, e = IF a > b THEN a - b ELSE 0
  PROVE  e \in Nat /\ e <= a
  OBVIOUS

(* A part of a sequence is one.                                             *)
LEMMA SubTyped ==
  ASSUME NEW q \in Seq(Byte), NEW m \in Nat \ {0}, NEW n \in Nat, n <= Len(q), m <= n + 1
  PROVE  SubSeq(q, m, n) \in Seq(Byte) /\ Len(SubSeq(q, m, n)) = (n + 1) - m
<1>1. Part(q, q, 0)
  <2>1. \A i \in 1..Len(q) : 0 + i = i
    OBVIOUS
  <2> QED BY <2>1 DEF Part
<1> QED BY <1>1, PartSub

(* The pieces of a drain.                                                   *)
LEMMA DrainedPieces ==
  ASSUME NEW h \in HostState, Len(h.pty) <= PtyRoom, NEW f, Good(f) \in Seq(Byte), NEW g,
         NEW Q, NEW w, NEW k, NEW e, Drained(h, f, g, Q, w, k, e)
  PROVE  /\ Q \in Seq(Byte) /\ Len(Q) \in Nat /\ Len(Q) = Len(h.outbound) + Len(Good(f))
         /\ w \in Nat /\ w <= Len(Q) /\ w + Len(h.pty) <= PtyRoom
         /\ SubSeq(Q, 1, w) \in Seq(Byte) /\ Len(SubSeq(Q, 1, w)) = w
         /\ k \in Seq(Byte) /\ Len(k) \in Nat /\ Len(k) = Len(Q) - w
         /\ e \in Nat /\ e <= Len(k)
<1>0. h.outbound \in Seq(Byte) /\ h.pty \in Seq(Byte) /\ Len(h.pty) \in Nat
      /\ PtyRoom \in Nat /\ OutboundMax \in Nat
  BY HostFields, Constants
<1>d. /\ Q = h.outbound \o Good(f) /\ w = Lesser(Len(Q), PtyRoom - Len(h.pty))
      /\ k = SubSeq(Q, w + 1, Len(Q)) /\ e = IF Len(k) > OutboundMax THEN Len(k) - OutboundMax ELSE 0
  BY DEF Drained
<1>1. Q \in Seq(Byte) /\ Len(Q) \in Nat /\ Len(Q) = Len(h.outbound) + Len(Good(f))
  BY <1>0, <1>d, ConcatProperties, LenProperties
<1>2. w \in Nat /\ w <= Len(Q) /\ w + Len(h.pty) <= PtyRoom
  <2> DEFINE m == Len(Q)
             n == PtyRoom - Len(h.pty)
  <2>1. m \in Nat /\ n \in Int /\ n >= 0 /\ w = Lesser(m, n)
    BY <1>0, <1>1, <1>d
  <2> HIDE DEF m, n
  <2>2. w \in Nat /\ w <= m /\ w <= n
    BY <2>1, LesserFacts
  <2> QED BY <2>2, <1>0 DEF m, n
<1>3. SubSeq(Q, 1, w) \in Seq(Byte) /\ Len(SubSeq(Q, 1, w)) = w
  <2>1. 1 \in Nat \ {0} /\ 1 <= w + 1 /\ (w + 1) - 1 = w
    BY <1>2
  <2> QED BY <2>1, <1>1, <1>2, SubTyped
<1>4. k \in Seq(Byte) /\ Len(k) \in Nat /\ Len(k) = Len(Q) - w
  <2> DEFINE m == w + 1
             n == Len(Q)
  <2>0. k = SubSeq(Q, m, n)
    BY <1>d
  <2>1. m \in Nat \ {0} /\ n \in Nat /\ n <= Len(Q) /\ m <= n + 1 /\ (n + 1) - m = Len(Q) - w
    BY <1>1, <1>2
  <2> HIDE DEF m, n
  <2>2. k \in Seq(Byte) /\ Len(k) = (n + 1) - m
    BY <2>0, <2>1, <1>1, SubTyped
  <2> QED BY <2>1, <2>2, LenProperties
<1>5. e \in Nat /\ e <= Len(k)
  BY <1>0, <1>4, <1>d, ExcessFacts
<1> QED BY <1>1, <1>2, <1>3, <1>4, <1>5

(* What it keeps is typed, and in the PTY's room.                           *)
LEMMA DrainTyped ==
  ASSUME NEW h \in HostState, Len(h.pty) <= PtyRoom, NEW f, Good(f) \in Seq(Byte), NEW g, g = Drain(h, f)
  PROVE  /\ g \in HostState /\ Len(g.pty) <= PtyRoom /\ g.dropped >= h.dropped
         /\ g.sent = h.sent /\ g.unsent = h.unsent /\ g.inbox = h.inbox /\ g.got = h.got /\ g.shed = h.shed
<1>1. PICK Q, w, k, e : Drained(h, f, g, Q, w, k, e)
  BY DrainFields DEF IsDrained
<1>2. /\ w \in Nat /\ w + Len(h.pty) <= PtyRoom
      /\ SubSeq(Q, 1, w) \in Seq(Byte) /\ Len(SubSeq(Q, 1, w)) = w
      /\ k \in Seq(Byte) /\ Len(k) \in Nat /\ e \in Nat /\ e <= Len(k)
  BY <1>1, DrainedPieces
<1>3. h.pty \in Seq(Byte) /\ h.dropped \in Nat /\ Len(h.pty) \in Nat
  BY HostFields
<1>4. /\ g.pty = h.pty \o SubSeq(Q, 1, w) /\ g.outbound = SubSeq(k, e + 1, Len(k))
      /\ g.dropped = h.dropped + e
      /\ g = [h EXCEPT !.pty = g.pty, !.outbound = g.outbound, !.dropped = g.dropped]
      /\ g.sent = h.sent /\ g.unsent = h.unsent /\ g.inbox = h.inbox /\ g.got = h.got /\ g.shed = h.shed
  BY <1>1 DEF Drained
<1>5. g.outbound \in Seq(Byte)
  <2> DEFINE m == e + 1
             n == Len(k)
  <2>1. m \in Nat \ {0} /\ n \in Nat /\ n <= Len(k) /\ m <= n + 1 /\ g.outbound = SubSeq(k, m, n)
    BY <1>2, <1>4
  <2> HIDE DEF m, n
  <2> QED BY <2>1, <1>2, SubTyped
<1>6. g.pty \in Seq(Byte) /\ Len(g.pty) = Len(h.pty) + w
  BY <1>2, <1>3, <1>4, ConcatProperties
<1>7. g.dropped \in Nat /\ g.dropped >= h.dropped
  BY <1>2, <1>3, <1>4
<1>8. g \in HostState
  <2> DEFINE p == g.pty
             o == g.outbound
             d == g.dropped
  <2>1. p \in Seq(Byte) /\ o \in Seq(Byte) /\ d \in Nat /\ g = [h EXCEPT !.pty = p, !.outbound = o, !.dropped = d]
    BY <1>4, <1>5, <1>6, <1>7
  <2> HIDE DEF p, o, d
  <2> QED BY <2>1 DEF HostState
<1> QED BY <1>2, <1>3, <1>4, <1>6, <1>7, <1>8

(* What the host has, what the PTY holds and what waits for it.             *)
Behind(h) == Len(h.got) + Len(h.pty) + Len(h.outbound)
Front(h) ==
  /\ Part(h.got, h.sent, 0) /\ Part(h.pty, h.sent, Len(h.got))
  /\ Part(h.outbound, h.sent, Len(h.got) + Len(h.pty))

(* drain_outbound that drops nothing keeps the order, and puts the new      *)
(* bytes last.                                                              *)
LEMMA DrainFront ==
  ASSUME NEW h \in HostState, Len(h.pty) <= PtyRoom, NEW f, Good(f) \in Seq(Byte), NEW g, g = Drain(h, f),
         g.dropped = h.dropped, Front(h), Part(Good(f), h.sent, Behind(h))
  PROVE  Front(g) /\ Behind(g) = Behind(h) + Len(Good(f))
<1>1. PICK Q, w, k, e : Drained(h, f, g, Q, w, k, e)
  BY DrainFields DEF IsDrained
<1>2. /\ Q \in Seq(Byte) /\ Len(Q) \in Nat /\ Len(Q) = Len(h.outbound) + Len(Good(f))
      /\ w \in Nat /\ w <= Len(Q) /\ w + Len(h.pty) <= PtyRoom
      /\ SubSeq(Q, 1, w) \in Seq(Byte) /\ Len(SubSeq(Q, 1, w)) = w
      /\ k \in Seq(Byte) /\ Len(k) \in Nat /\ Len(k) = Len(Q) - w /\ e \in Nat
  BY <1>1, DrainedPieces
<1>3. /\ h.outbound \in Seq(Byte) /\ h.pty \in Seq(Byte) /\ h.dropped \in Nat /\ Len(h.pty) \in Nat
      /\ Len(h.outbound) \in Nat /\ Len(h.got) \in Nat
  BY HostFields
<1>l. Len(Good(f)) \in Nat
  BY LenProperties
<1>n. Len(h.pty) \in Nat /\ Len(h.outbound) \in Nat /\ Len(h.got) \in Nat
  BY <1>3
<1>a. g.pty = h.pty \o SubSeq(Q, 1, w)
  BY <1>1 DEF Drained
<1>b. g.outbound = SubSeq(k, e + 1, Len(k)) /\ g.dropped = h.dropped + e
  BY <1>1 DEF Drained
<1>c. Q = h.outbound \o Good(f)
  BY <1>1 DEF Drained
<1>d. k = SubSeq(Q, w + 1, Len(Q))
  BY <1>1 DEF Drained
<1>4. g.sent = h.sent /\ g.got = h.got
  BY <1>1 DEF Drained
<1>5. e = 0
  BY <1>2, <1>3, <1>b
<1>6. g.outbound = k
  <2>1. e + 1 = 1
    BY <1>5
  <2>2. g.outbound = SubSeq(k, 1, Len(k))
    BY <2>1, <1>b
  <2> QED BY <2>2, <1>2, SubSeqFull
<1>7. Len(g.pty) = Len(h.pty) + w
  <2> DEFINE z == SubSeq(Q, 1, w)
  <2>1. z \in Seq(Byte) /\ Len(z) = w /\ g.pty = h.pty \o z
    BY <1>2, <1>a
  <2> HIDE DEF z
  <2>2. Len(h.pty \o z) = Len(h.pty) + Len(z)
    BY <2>1, <1>3, ConcatProperties
  <2> QED BY <2>1, <2>2
<1> DEFINE i == Len(h.got)
           j == Len(h.got) + Len(h.pty)
<1>8. i \in Nat /\ j \in Nat /\ j = i + Len(h.pty) /\ i + Len(g.pty) = j + w
  <2>1. w \in Nat
    BY <1>2
  <2> DEFINE p == Len(h.pty)
             o == Len(g.pty)
             q == Len(h.got)
  <2>2. p \in Nat /\ q \in Nat /\ o = p + w
    BY <1>n, <1>7
  <2> HIDE DEF p, o, q
  <2>3. q + p \in Nat /\ q + o = (q + p) + w
    BY <2>1, <2>2
  <2> QED BY <2>2, <2>3 DEF p, o, q
<1>9. Part(h.got, h.sent, 0) /\ Part(h.pty, h.sent, i) /\ Part(h.outbound, h.sent, j)
      /\ Part(Good(f), h.sent, j + Len(h.outbound))
  BY DEF Front, Behind
<1> HIDE DEF i, j
<1>10. Part(Q, h.sent, j)
  BY <1>3, <1>c, <1>8, <1>9, PartConcat
<1>11. Part(SubSeq(Q, 1, w), h.sent, j)
  <2>1. 1 \in Nat \ {0} /\ 1 <= w + 1 /\ (j + 1) - 1 = j
    BY <1>2, <1>8
  <2>2. Part(SubSeq(Q, 1, w), h.sent, (j + 1) - 1)
    BY <2>1, <1>2, <1>8, <1>10, PartSub
  <2> QED BY <2>1, <2>2
<1>12. Part(k, h.sent, j + w)
  <2> DEFINE m == w + 1
             n == Len(Q)
  <2>0. k = SubSeq(Q, m, n)
    BY <1>d
  <2>1. m \in Nat \ {0} /\ n \in Nat /\ n <= Len(Q) /\ m <= n + 1 /\ (j + m) - 1 = j + w
    <3>1. w \in Nat /\ w <= Len(Q) /\ Len(Q) \in Nat
      BY <1>2
    <3>2. j \in Nat
      BY <1>8
    <3> DEFINE l == Len(Q)
    <3>3. l \in Nat /\ w <= l
      BY <3>1
    <3> HIDE DEF l
    <3>4. /\ w + 1 \in Nat \ {0} /\ l \in Nat /\ l <= l /\ w + 1 <= l + 1
          /\ (j + (w + 1)) - 1 = j + w
      BY <3>1, <3>2, <3>3
    <3> QED BY <3>4 DEF l
  <2> HIDE DEF m, n
  <2>2. Part(k, h.sent, (j + m) - 1)
    BY <2>0, <2>1, <1>2, <1>8, <1>10, PartSub
  <2> QED BY <2>1, <2>2
<1>13. Part(g.pty, h.sent, i)
  <2> DEFINE z == SubSeq(Q, 1, w)
  <2>1. z \in Seq(Byte) /\ g.pty = h.pty \o z /\ Part(z, h.sent, i + Len(h.pty))
    BY <1>2, <1>a, <1>8, <1>11
  <2> HIDE DEF z
  <2> QED BY <2>1, <1>3, <1>8, <1>9, PartConcat
<1>14. Front(g)
  <2>1. Part(g.got, g.sent, 0) /\ Part(g.pty, g.sent, Len(g.got))
    BY <1>4, <1>9, <1>13 DEF i
  <2>2. Len(g.got) + Len(g.pty) = j + w
    BY <1>4, <1>8 DEF i
  <2>3. Part(g.outbound, g.sent, Len(g.got) + Len(g.pty))
    BY <2>2, <1>4, <1>6, <1>12
  <2> QED BY <2>1, <2>3 DEF Front
<1>15. Behind(g) = Behind(h) + Len(Good(f))
  <2>1. Len(g.outbound) = Len(h.outbound) + Len(Good(f)) - w
    BY <1>2, <1>6
  <2>2. Len(g.got) = Len(h.got)
    BY <1>4
  <2>3. w \in Nat
    BY <1>2
  <2> HIDE DEF i, j
  <2>4. Len(g.got) + Len(g.pty) + Len(g.outbound)
          = Len(h.got) + Len(h.pty) + Len(h.outbound) + Len(Good(f))
    <3> DEFINE p == Len(h.pty)
               q == Len(h.got)
               o == Len(h.outbound)
               v == Len(Good(f))
               p2 == Len(g.pty)
               o2 == Len(g.outbound)
    <3>1. p \in Nat /\ q \in Nat /\ o \in Nat /\ v \in Nat /\ p2 = p + w /\ o2 = o + v - w
      BY <2>1, <1>n, <1>7, <1>l
    <3> HIDE DEF p, q, o, v, p2, o2
    <3>2. q + p2 + o2 = q + p + o + v
      BY <3>1, <2>3
    <3> QED BY <3>2, <2>2 DEF p, q, o, v, p2, o2
  <2> QED BY <2>4, <1>3, <1>l DEF Behind
<1> QED BY <1>14, <1>15

(* The bytes that have not been started: in the transmitter's queue, with   *)
(* the pump, in the PTY, and not written yet.                               *)
Back(h, q, p, d) ==
  /\ Part(p, h.sent, d) /\ Part(q, h.sent, d + Len(p))
  /\ Part(h.inbox, h.sent, d + Len(p) + Len(q))
  /\ Part(h.unsent, h.sent, d + Len(p) + Len(q) + Len(h.inbox))
  /\ d + Len(p) + Len(q) + Len(h.inbox) + Len(h.unsent) = Len(h.sent)

(* The whole way: host -> dev with d bytes started, dev -> host with b.     *)
Carried(h, TH, TD, RH, RD, WH, WD, q, t, b, d) ==
  /\ b \in Nat /\ d \in Nat
  /\ Front(h) /\ Back(h, q, TH.pending, d) /\ Part(TD.pending, h.sent, b)
  /\ Link("dev", TD, RH, WD, t, Behind(h), b, h.sent)
  /\ Link("host", TH, RD, WH, t, b + Len(TD.pending), d, h.sent)

(* Arithmetic of the lengths along the way.                                 *)
LEMMA NatSum == ASSUME NEW a \in Nat, NEW b \in Nat PROVE a + b \in Nat /\ a <= a + b
  OBVIOUS

(* What is ahead of the device's wire is no more than was sent.             *)
LEMMA NatRest ==
  ASSUME NEW d \in Nat, NEW l \in Nat, NEW q \in Nat, NEW i \in Nat, NEW u \in Nat, NEW n \in Nat,
         d + l + q + i + u = n
  PROVE  d <= d + l /\ d + l <= n
  OBVIOUS

(* One byte fewer waits, and one more was started.                          *)
LEMMA NatShift ==
  ASSUME NEW b \in Nat, NEW l \in Nat, NEW m, m = l - 1
  PROVE  (b + 1) + m = b + l /\ b + 1 \in Nat /\ m <= l
  OBVIOUS

(* What was waiting and what joins it.                                      *)
LEMMA NatAssoc ==
  ASSUME NEW b \in Nat, NEW l \in Nat, NEW g \in Nat, NEW u, u = l + g
  PROVE  (b + l) + g = b + u
  OBVIOUS

(* The bytes back at the host are a number.                                 *)
LEMMA BehindType == ASSUME NEW h \in HostState PROVE Behind(h) \in Nat
<1>1. Len(h.got) \in Nat /\ Len(h.pty) \in Nat /\ Len(h.outbound) \in Nat
  BY HostFields
<1> DEFINE p == Len(h.got) + Len(h.pty)
<1>2. p \in Nat
  BY <1>1, NatSum
<1> HIDE DEF p
<1>3. p + Len(h.outbound) \in Nat
  BY <1>1, <1>2, NatSum
<1> QED BY <1>3 DEF Behind, p

(* A wire delivers no more than was started on it.                          *)
LEMMA LinkOrder ==
  ASSUME NEW x, NEW T, NEW R, NEW W, NEW t, NEW a \in Nat, NEW b, NEW s, Link(x, T, R, W, t, a, b, s)
  PROVE  a <= b
<1>1. b = a \/ b = a + 1 \/ b = a + 2
  <2>1. ASSUME NEW m \in 1..FrameBits, SendingBit(x, T, R, W, t, a, b, s, m)
        PROVE  b = a \/ b = a + 1 \/ b = a + 2
    BY <2>1 DEF SendingBit, Received, Unreceived
  <2> QED BY <2>1 DEF Link, Quiet, Sending
<1> QED BY <1>1

(* Every place along the way is at or behind the one before it.             *)
LEMMA CarriedBounds ==
  ASSUME NEW h \in HostState, NEW TH \in TxState, NEW TD \in TxState, NEW RH, NEW RD, NEW WH, NEW WD,
         NEW q \in Seq(Byte), NEW t, NEW b, NEW d, Carried(h, TH, TD, RH, RD, WH, WD, q, t, b, d)
  PROVE  /\ b \in Nat /\ d \in Nat /\ Behind(h) \in Nat /\ Behind(h) <= b
         /\ Len(TD.pending) \in Nat /\ Len(TH.pending) \in Nat /\ Len(h.sent) \in Nat
         /\ b + Len(TD.pending) \in Nat /\ b <= b + Len(TD.pending)
         /\ b + Len(TD.pending) <= d /\ d <= d + Len(TH.pending) /\ d + Len(TH.pending) <= Len(h.sent)
         /\ b <= Len(h.sent) /\ d <= Len(h.sent) /\ b + Len(TD.pending) <= Len(h.sent)
<1>1. Len(TD.pending) \in Nat /\ Len(TH.pending) \in Nat /\ Len(q) \in Nat
  BY TxIs, LenProperties
<1>2. Len(h.sent) \in Nat /\ Len(h.inbox) \in Nat /\ Len(h.unsent) \in Nat
  BY HostFields
<1>3. Behind(h) \in Nat
  BY BehindType
<1>4. b \in Nat /\ d \in Nat
  BY DEF Carried
<1>5. d + Len(TH.pending) + Len(q) + Len(h.inbox) + Len(h.unsent) = Len(h.sent)
  BY DEF Carried, Back
<1> DEFINE c == b + Len(TD.pending)
<1>6. c \in Nat /\ b <= c
  BY <1>1, <1>4
<1>7. Behind(h) <= b
  BY <1>3, LinkOrder DEF Carried
<1>8. c <= d
  <2>1. Link("host", TH, RD, WH, t, c, d, h.sent)
    BY DEF Carried
  <2> HIDE DEF c
  <2> QED BY <1>6, <2>1, LinkOrder
<1> DEFINE l == Len(TH.pending)
           n == Len(h.sent)
<1>9. l \in Nat /\ n \in Nat /\ d <= d + l /\ d + l <= n
  <2>1. d + l + Len(q) + Len(h.inbox) + Len(h.unsent) = n
    BY <1>5
  <2>2. l \in Nat /\ n \in Nat /\ Len(q) \in Nat /\ Len(h.inbox) \in Nat /\ Len(h.unsent) \in Nat
    BY <1>1, <1>2
  <2> HIDE DEF l, n
  <2> QED BY <2>1, <2>2, <1>4, NatRest
<1>10. b <= n /\ d <= n /\ c <= n
  <2> HIDE DEF c, l, n
  <2> QED BY <1>4, <1>6, <1>8, <1>9
<1> QED BY <1>1, <1>2, <1>3, <1>4, <1>6, <1>7, <1>8, <1>9, <1>10

(* What a receiver hands over: nothing, or the next byte.                   *)
LEMMA HandedOver ==
  ASSUME NEW x, NEW T, NEW r, NEW W, NEW t, NEW a \in Nat, NEW b \in Nat, NEW s \in Seq(Byte), b <= Len(s),
         Delivered(x, T, r, W, t, a, b, s)
  PROVE  /\ WithDone(r, <<>>) \in RxState /\ r.done \in OneFrame /\ Good(r.done) \in Seq(Byte)
         /\ Part(Good(r.done), s, a)
         /\ Link(x, T, WithDone(r, <<>>), W, t, a + Len(Good(r.done)), b, s)
<1>1. CASE r.done = <<>> /\ Link(x, T, WithDone(r, <<>>), W, t, a, b, s)
  <2>1. Good(r.done) = <<>> /\ Len(<<>>) = 0 /\ a + 0 = a
    BY <1>1, GoodNone
  <2>2. <<>> \in Seq(Byte)
    BY EmptySeq
  <2>3. r.done \in OneFrame
    BY <1>1 DEF OneFrame
  <2> QED BY <1>1, <2>1, <2>2, <2>3, PartNone DEF Delivered
<1>2. CASE a < b /\ r.done = <<s[a + 1]>> /\ Link(x, T, WithDone(r, <<>>), W, t, a + 1, b, s)
  <2> DEFINE f == s[a + 1]
  <2>1. f \in Byte
    <3>1. a + 1 \in 1..Len(s)
      BY <1>2, LenProperties
    <3> QED BY <3>1, ElementOfSeq
  <2>2. f = s[a + 1]
    OBVIOUS
  <2> HIDE DEF f
  <2>3. r.done = <<f>>
    BY <1>2 DEF f
  <2>4. Good(r.done) = <<f>>
    BY <2>1, <2>3, GoodOne, ByteNotBad
  <2>5. <<f>> \in Seq(Byte) /\ Len(<<f>>) = 1
    BY <2>1
  <2>6. Part(<<f>>, s, a)
    BY <2>1, <2>2, PartOne
  <2>7. r.done \in OneFrame
    BY <2>1, <2>3 DEF OneFrame
  <2>8. WithDone(r, <<>>) \in RxState
    BY DEF Delivered
  <2> QED BY <1>2, <2>4, <2>5, <2>6, <2>7, <2>8
<1> QED BY <1>1, <1>2 DEF Delivered

(* A byte reaches the host's PTY.                                           *)
LEMMA CarriedToHost ==
  ASSUME NEW h \in HostState, Len(h.pty) <= PtyRoom, NEW TH \in TxState, NEW TD \in TxState,
         NEW RH, NEW RD, NEW WH, NEW WD,
         NEW q \in Seq(Byte), NEW t, NEW b, NEW d, Carried(h, TH, TD, RH, RD, WH, WD, q, t, b, d),
         NEW r, Delivered("dev", TD, r, WD, t, Behind(h), b, h.sent),
         NEW g, g = Drain(h, r.done), g.dropped = h.dropped
  PROVE  Carried(g, TH, TD, WithDone(r, <<>>), RD, WH, WD, q, t, b, d)
<1>1. b \in Nat /\ d \in Nat /\ Behind(h) \in Nat /\ b <= Len(h.sent)
  BY CarriedBounds
<1>2. h.sent \in Seq(Byte)
  BY HostFields
<1>3. /\ Good(r.done) \in Seq(Byte) /\ Part(Good(r.done), h.sent, Behind(h))
      /\ Link("dev", TD, WithDone(r, <<>>), WD, t, Behind(h) + Len(Good(r.done)), b, h.sent)
  BY <1>1, <1>2, HandedOver
<1>4. /\ g.sent = h.sent /\ g.unsent = h.unsent /\ g.inbox = h.inbox
  BY <1>3, DrainTyped
<1>5. Front(g) /\ Behind(g) = Behind(h) + Len(Good(r.done))
  BY <1>3, DrainFront DEF Carried
<1>6. Back(g, q, TH.pending, d)
  BY <1>4 DEF Carried, Back
<1> QED BY <1>1, <1>3, <1>4, <1>5, <1>6 DEF Carried

(* A byte reaches the device, which answers it.                             *)
LEMMA CarriedToDevice ==
  ASSUME NEW h \in HostState, NEW TH \in TxState, NEW TD \in TxState, NEW RH, NEW RD, NEW WH, NEW WD,
         NEW q \in Seq(Byte), NEW t, NEW b, NEW d, Carried(h, TH, TD, RH, RD, WH, WD, q, t, b, d),
         NEW r, Delivered("host", TH, r, WH, t, b + Len(TD.pending), d, h.sent),
         NEW U, U.due = TD.due, U.bits = TD.bits, U.pending = TD.pending \o Good(r.done)
  PROVE  Carried(h, TH, U, RH, WithDone(r, <<>>), WH, WD, q, t, b, d)
<1> DEFINE c == b + Len(TD.pending)
<1>1. b \in Nat /\ d \in Nat /\ c \in Nat /\ d <= Len(h.sent) /\ Len(TD.pending) \in Nat
  BY CarriedBounds
<1>2. h.sent \in Seq(Byte) /\ TD.pending \in Seq(Byte)
  BY HostFields, TxIs
<1>3. /\ Good(r.done) \in Seq(Byte) /\ Part(Good(r.done), h.sent, c)
      /\ Link("host", TH, WithDone(r, <<>>), WH, t, c + Len(Good(r.done)), d, h.sent)
  <2>1. Delivered("host", TH, r, WH, t, c, d, h.sent)
    OBVIOUS
  <2> HIDE DEF c
  <2> QED BY <2>1, <1>1, <1>2, HandedOver
<1>4. Part(U.pending, h.sent, b)
  BY <1>1, <1>2, <1>3, PartConcat DEF Carried
<1>5. Len(U.pending) = Len(TD.pending) + Len(Good(r.done)) /\ Len(Good(r.done)) \in Nat
  BY <1>2, <1>3, ConcatProperties, LenProperties
<1>6. c + Len(Good(r.done)) = b + Len(U.pending)
  <2> DEFINE l == Len(TD.pending)
             g == Len(Good(r.done))
             u == Len(U.pending)
  <2>1. b \in Nat /\ l \in Nat /\ g \in Nat /\ u = l + g
    BY <1>1, <1>5
  <2> HIDE DEF l, g, u
  <2>2. (b + l) + g = b + u
    BY ONLY <2>1, NatAssoc
  <2> QED BY <2>2 DEF l, g, u
<1>7. Link("dev", U, RH, WD, t, Behind(h), b, h.sent)
  BY LinkTx DEF Carried
<1>8. Link("host", TH, WithDone(r, <<>>), WH, t, b + Len(U.pending), d, h.sent)
  BY <1>3, <1>6
<1> QED BY <1>1, <1>4, <1>7, <1>8 DEF Carried

(* A transmitter of either end is served.                                   *)
CarriedOn(h, TH, TD, RH, RD, WH, WD, q, t) ==
  \E b, d \in Nat : Carried(h, TH, TD, RH, RD, WH, WD, q, t, b, d)

ServedAs(x, T, R, V, t, a, b, s, U) ==
  /\ U \in TxState /\ U.enabled = T.enabled
  /\ T.enabled => /\ U.due # None => U.due > t
                  /\ U.due = None => U.pending = <<>>
  /\ \/ U.pending = T.pending /\ Link(x, U, R, V, t, a, b, s)
     \/ T.pending # <<>> /\ U.pending = Tail(T.pending) /\ Link(x, U, R, V, t, a, b + 1, s)
OnWire(out, W) == IF out.level = None THEN W ELSE out.level

(* A transmitter served is typed, and drives a bit if anything.             *)
LEMMA ServedTyped ==
  ASSUME Tolerable, NEW x \in Ends, NEW T \in TxState, NEW R \in RxState, NEW W, W = R.level,
         NEW t \in Nat, NEW a \in Nat, NEW b \in Nat, NEW s \in Seq(Byte),
         b + Len(T.pending) <= Len(s), Part(T.pending, s, b),
         Link(x, T, R, W, t, a, b, s), NEW out, out = ServiceTx(x, T, t)
  PROVE  ServedAs(x, T, R, OnWire(out, W), t, a, b, s, out.tx)
<1>1. CASE Serviced(x, T, R, W, t, a, b, s, out, 0)
  <2>1. b + 0 = b
    OBVIOUS
  <2> QED BY <1>1, <2>1, Zenon DEF Serviced, ServedAs, OnWire
<1>2. CASE T.pending # <<>> /\ Serviced(x, T, R, W, t, a, b, s, out, 1)
  <2>1. ~(1 = 0)
    OBVIOUS
  <2> QED BY <1>2, <2>1, Zenon DEF Serviced, ServedAs, OnWire
<1> QED BY <1>1, <1>2, LinkServes

SentAs(h, TH, TD, RH, RD, WH, WD, q, t, T, O) ==
  /\ O \in TxState /\ O.enabled = T.enabled
  /\ T.enabled => /\ O.due # None => O.due > t
                  /\ O.due = None => O.pending = <<>>
  /\ Len(O.pending) <= Len(T.pending)
  /\ CarriedOn(h, TH, TD, RH, RD, WH, WD, q, t)

(* The device's service_tx keeps the way whole.                             *)
LEMMA CarriedServesDevice ==
  ASSUME Tolerable, NEW h \in HostState, NEW TH \in TxState, NEW TD \in TxState, NEW RH \in RxState,
         NEW RD, NEW WH, NEW WD, WD = RH.level,
         NEW q \in Seq(Byte), NEW t \in Nat, CarriedOn(h, TH, TD, RH, RD, WH, WD, q, t),
         NEW out, out = ServiceTx("dev", TD, t), NEW V, V = OnWire(out, WD)
  PROVE  SentAs(h, TH, out.tx, RH, RD, WH, V, q, t, TD, out.tx)
<1>1. PICK b, d \in Nat : Carried(h, TH, TD, RH, RD, WH, WD, q, t, b, d)
  BY DEF CarriedOn
<1>2. Behind(h) \in Nat /\ b + Len(TD.pending) <= Len(h.sent) /\ Len(TD.pending) \in Nat
  BY <1>1, CarriedBounds
<1>3. h.sent \in Seq(Byte) /\ TD.pending \in Seq(Byte) /\ "dev" \in Ends
  BY HostFields, TxIs DEF Ends
<1>4. Part(TD.pending, h.sent, b) /\ Link("dev", TD, RH, WD, t, Behind(h), b, h.sent)
  BY <1>1 DEF Carried
<1>5. /\ out.tx \in TxState /\ out.tx.enabled = TD.enabled
      /\ TD.enabled => /\ out.tx.due # None => out.tx.due > t
                       /\ out.tx.due = None => out.tx.pending = <<>>
      /\ \/ out.tx.pending = TD.pending /\ Link("dev", out.tx, RH, V, t, Behind(h), b, h.sent)
         \/ TD.pending # <<>> /\ out.tx.pending = Tail(TD.pending)
            /\ Link("dev", out.tx, RH, V, t, Behind(h), b + 1, h.sent)
  <2>1. ServedAs("dev", TD, RH, OnWire(out, WD), t, Behind(h), b, h.sent, out.tx)
    BY <1>2, <1>3, <1>4, ServedTyped
  <2> QED BY <2>1, Zenon DEF ServedAs
<1>6. CASE out.tx.pending = TD.pending /\ Link("dev", out.tx, RH, V, t, Behind(h), b, h.sent)
  <2>1. Carried(h, TH, out.tx, RH, RD, WH, V, q, t, b, d)
    BY <1>1, <1>6 DEF Carried
  <2>2. Len(out.tx.pending) <= Len(TD.pending)
    BY <1>2, <1>6
  <2>3. CarriedOn(h, TH, out.tx, RH, RD, WH, V, q, t)
    BY <2>1 DEF CarriedOn
  <2> QED BY <2>2, <2>3, <1>5, Zenon DEF SentAs
<1>7. CASE TD.pending # <<>> /\ out.tx.pending = Tail(TD.pending)
           /\ Link("dev", out.tx, RH, V, t, Behind(h), b + 1, h.sent)
  <2>1. Part(out.tx.pending, h.sent, b + 1)
    BY <1>3, <1>4, <1>7, PartTail
  <2>2. Len(out.tx.pending) = Len(TD.pending) - 1
    BY <1>3, <1>7, TailFacts
  <2>3. (b + 1) + Len(out.tx.pending) = b + Len(TD.pending) /\ b + 1 \in Nat
        /\ Len(out.tx.pending) <= Len(TD.pending)
    <3> DEFINE l == Len(TD.pending)
               m == Len(out.tx.pending)
    <3>1. l \in Nat /\ m = l - 1 /\ b \in Nat
      BY <2>2, <1>2
    <3> HIDE DEF l, m
    <3>2. (b + 1) + m = b + l /\ b + 1 \in Nat /\ m <= l
      BY ONLY <3>1, NatShift
    <3> QED BY <3>2 DEF l, m
  <2>4. Carried(h, TH, out.tx, RH, RD, WH, V, q, t, b + 1, d)
    BY <1>1, <1>7, <2>1, <2>3 DEF Carried
  <2>5. CarriedOn(h, TH, out.tx, RH, RD, WH, V, q, t)
    BY <2>3, <2>4 DEF CarriedOn
  <2> QED BY <2>3, <2>5, <1>5, Zenon DEF SentAs
<1> QED BY <1>5, <1>6, <1>7

(* The host's service_tx keeps the way whole.                               *)
LEMMA CarriedServesHost ==
  ASSUME Tolerable, NEW h \in HostState, NEW TH \in TxState, NEW TD \in TxState, NEW RH,
         NEW RD \in RxState, NEW WH, NEW WD, WH = RD.level,
         NEW q \in Seq(Byte), NEW t \in Nat, CarriedOn(h, TH, TD, RH, RD, WH, WD, q, t),
         NEW out, out = ServiceTx("host", TH, t), NEW V, V = OnWire(out, WH)
  PROVE  SentAs(h, out.tx, TD, RH, RD, V, WD, q, t, TH, out.tx)
<1>1. PICK b, d \in Nat : Carried(h, TH, TD, RH, RD, WH, WD, q, t, b, d)
  BY DEF CarriedOn
<1> DEFINE c == b + Len(TD.pending)
<1>2. c \in Nat /\ d + Len(TH.pending) <= Len(h.sent) /\ Len(TH.pending) \in Nat
  BY <1>1, CarriedBounds
<1>3. h.sent \in Seq(Byte) /\ TH.pending \in Seq(Byte) /\ "host" \in Ends
  BY HostFields, TxIs DEF Ends
<1>4. Part(TH.pending, h.sent, d) /\ Link("host", TH, RD, WH, t, c, d, h.sent)
  BY <1>1 DEF Carried, Back
<1>5. /\ out.tx \in TxState /\ out.tx.enabled = TH.enabled
      /\ TH.enabled => /\ out.tx.due # None => out.tx.due > t
                       /\ out.tx.due = None => out.tx.pending = <<>>
      /\ \/ out.tx.pending = TH.pending /\ Link("host", out.tx, RD, V, t, c, d, h.sent)
         \/ TH.pending # <<>> /\ out.tx.pending = Tail(TH.pending)
            /\ Link("host", out.tx, RD, V, t, c, d + 1, h.sent)
  <2> HIDE DEF c
  <2>1. ServedAs("host", TH, RD, OnWire(out, WH), t, c, d, h.sent, out.tx)
    BY <1>2, <1>3, <1>4, ServedTyped
  <2> QED BY <2>1, Zenon DEF ServedAs
<1>6. CASE out.tx.pending = TH.pending /\ Link("host", out.tx, RD, V, t, c, d, h.sent)
  <2>1. Carried(h, out.tx, TD, RH, RD, V, WD, q, t, b, d)
    BY <1>1, <1>6 DEF Carried
  <2>2. Len(out.tx.pending) <= Len(TH.pending)
    BY <1>2, <1>6
  <2>3. CarriedOn(h, out.tx, TD, RH, RD, V, WD, q, t)
    BY <2>1 DEF CarriedOn
  <2> QED BY <2>2, <2>3, <1>5, Zenon DEF SentAs
<1>7. CASE TH.pending # <<>> /\ out.tx.pending = Tail(TH.pending)
           /\ Link("host", out.tx, RD, V, t, c, d + 1, h.sent)
  <2>1. Part(out.tx.pending, h.sent, d + 1)
    BY <1>3, <1>4, <1>7, PartTail
  <2>2. Len(out.tx.pending) = Len(TH.pending) - 1
    BY <1>3, <1>7, TailFacts
  <2>3. (d + 1) + Len(out.tx.pending) = d + Len(TH.pending) /\ d + 1 \in Nat
        /\ Len(out.tx.pending) <= Len(TH.pending)
    <3> DEFINE l == Len(TH.pending)
               m == Len(out.tx.pending)
    <3>1. l \in Nat /\ m = l - 1 /\ d \in Nat
      BY <2>2, <1>2
    <3> HIDE DEF l, m
    <3>2. (d + 1) + m = d + l /\ d + 1 \in Nat /\ m <= l
      BY ONLY <3>1, NatShift
    <3> QED BY <3>2 DEF l, m
  <2>4. Back(h, q, out.tx.pending, d + 1)
    BY <1>1, <2>1, <2>3 DEF Carried, Back
  <2>5. Carried(h, out.tx, TD, RH, RD, V, WD, q, t, b, d + 1)
    BY <1>1, <1>7, <2>3, <2>4 DEF Carried
  <2>6. CarriedOn(h, out.tx, TD, RH, RD, V, WD, q, t)
    BY <2>3, <2>5 DEF CarriedOn
  <2> QED BY <2>3, <2>6, <1>5, Zenon DEF SentAs
<1> QED BY <1>5, <1>6, <1>7

(* Time passing up to the next wake keeps the way whole.                    *)
LEMMA CarriedTime ==
  ASSUME NEW h \in HostState, NEW TH \in TxState, NEW TD \in TxState, NEW RH \in RxState, NEW RD \in RxState,
         NEW WH, NEW WD, WH \in {Open, RD.level}, WD \in {Open, RH.level}, NEW q \in Seq(Byte),
         NEW t \in Nat, CarriedOn(h, TH, TD, RH, RD, WH, WD, q, t), NEW u \in Nat, t <= u,
         TH.due # None => u <= TH.due, TD.due # None => u <= TD.due
  PROVE  CarriedOn(h, TH, TD, RH, RD, WH, WD, q, u)
<1>1. PICK b, d \in Nat : Carried(h, TH, TD, RH, RD, WH, WD, q, t, b, d)
  BY DEF CarriedOn
<1> DEFINE a == Behind(h)
           c == b + Len(TD.pending)
           s == h.sent
<1>2. a \in Nat /\ c \in Nat /\ b <= Len(s) /\ d <= Len(s) /\ s \in Seq(Byte)
  BY <1>1, CarriedBounds, HostFields
<1>3. Link("dev", TD, RH, WD, t, a, b, s) /\ Link("host", TH, RD, WH, t, c, d, s)
  BY <1>1 DEF Carried
<1>4. "dev" \in Ends /\ "host" \in Ends
  BY DEF Ends
<1> HIDE DEF a, c, s
<1>5. Link("dev", TD, RH, WD, u, a, b, s)
  BY <1>2, <1>3, <1>4, LinkTime
<1>6. Link("host", TH, RD, WH, u, c, d, s)
  BY <1>2, <1>3, <1>4, LinkTime
<1>7. Carried(h, TH, TD, RH, RD, WH, WD, q, u, b, d)
  BY <1>1, <1>5, <1>6 DEF Carried, a, c, s
<1> QED BY <1>7 DEF CarriedOn

(* The host's idle line is driven, or let go.                               *)
LEMMA CarriedOpens ==
  ASSUME NEW h, NEW TH, TH.due = None, NEW TD, NEW RH, NEW RD, NEW WH, NEW WD, NEW q, NEW t,
         CarriedOn(h, TH, TD, RH, RD, WH, WD, q, t), NEW V, V \in {1, Open},
         NEW U, U.pending = TH.pending, U.bits = TH.bits, U.due = TH.due
  PROVE  CarriedOn(h, U, TD, RH, RD, V, WD, q, t)
<1>1. PICK b, d \in Nat : Carried(h, TH, TD, RH, RD, WH, WD, q, t, b, d)
  BY DEF CarriedOn
<1> DEFINE c == b + Len(TD.pending)
           s == h.sent
<1>2. Link("host", TH, RD, WH, t, c, d, s)
  BY <1>1 DEF Carried
<1> HIDE DEF c, s
<1>3. Link("host", TH, RD, V, t, c, d, s)
  BY <1>2, LinkOpens
<1>4. Link("host", U, RD, V, t, c, d, s)
  BY <1>3, LinkTx
<1>5. Carried(h, U, TD, RH, RD, V, WD, q, t, b, d)
  BY <1>1, <1>4 DEF Carried, c, s
<1> QED BY <1>5 DEF CarriedOn

(* The program and the pump move bytes from one place to the next.          *)
LEMMA CarriedMoves ==
  ASSUME NEW h, NEW TH, NEW TD, NEW RH, NEW RD, NEW WH, NEW WD, NEW q, NEW t,
         CarriedOn(h, TH, TD, RH, RD, WH, WD, q, t), NEW g, g.sent = h.sent,
         Front(h) => Front(g), Behind(g) = Behind(h),
         NEW U, U.due = TH.due, U.bits = TH.bits, NEW p,
         \A d \in Nat : Back(h, q, TH.pending, d) => Back(g, p, U.pending, d)
  PROVE  CarriedOn(g, U, TD, RH, RD, WH, WD, p, t)
<1>1. PICK b, d \in Nat : Carried(h, TH, TD, RH, RD, WH, WD, q, t, b, d)
  BY DEF CarriedOn
<1> DEFINE c == b + Len(TD.pending)
           s == h.sent
<1>2. Link("host", TH, RD, WH, t, c, d, s)
  BY <1>1 DEF Carried
<1> HIDE DEF c, s
<1>3. Link("host", U, RD, WH, t, c, d, s)
  BY <1>2, LinkTx
<1>4. Carried(g, U, TD, RH, RD, WH, WD, p, t, b, d)
  BY <1>1, <1>3 DEF Carried, c, s
<1> QED BY <1>4 DEF CarriedOn

(* Five lengths and their sums.                                             *)
LEMMA NatSums ==
  ASSUME NEW d \in Nat, NEW a \in Nat, NEW b \in Nat, NEW c \in Nat
  PROVE  d + a \in Nat /\ d + a + b \in Nat /\ d + a + b + c \in Nat
  OBVIOUS

(* The lengths when a byte goes from the program to the PTY.                *)
LEMMA WriteSums ==
  ASSUME NEW e \in Nat, NEW i \in Nat, NEW j, j = i + 1, NEW u \in Nat, NEW v, v = u - 1
  PROVE  e + j = (e + i) + 1 /\ e + j + v = e + i + u /\ (e + i) + 1 = e + j
  OBVIOUS

(* A byte the program writes stays in its place.                            *)
LEMMA HostWritesBack ==
  ASSUME NEW h \in HostState, h.unsent # <<>>, NEW q \in Seq(Byte), NEW p \in Seq(Byte), NEW d \in Nat,
         NEW g, g.sent = h.sent, g.inbox = Append(h.inbox, Head(h.unsent)), g.unsent = Tail(h.unsent),
         Back(h, q, p, d)
  PROVE  Back(g, q, p, d)
<1>1. h.inbox \in Seq(Byte) /\ h.unsent \in Seq(Byte) /\ Len(h.inbox) \in Nat /\ Len(h.unsent) \in Nat
  BY HostFields
<1>2. Len(p) \in Nat /\ Len(q) \in Nat
  BY LenProperties
<1> DEFINE e == d + Len(p) + Len(q)
           f == d + Len(p) + Len(q) + Len(h.inbox)
<1>3. e \in Nat /\ f \in Nat
  BY <1>1, <1>2, NatSums
<1>4. Part(h.inbox, h.sent, e) /\ Part(h.unsent, h.sent, f) /\ f = e + Len(h.inbox)
      /\ f + Len(h.unsent) = Len(h.sent)
  BY DEF Back
<1>5. Part(p, h.sent, d) /\ Part(q, h.sent, d + Len(p))
  BY DEF Back
<1>6. Tail(h.unsent) \in Seq(Byte) /\ Len(Tail(h.unsent)) = Len(h.unsent) - 1 /\ Head(h.unsent) \in Byte
  BY <1>1, TailFacts
<1>g. e = d + Len(p) + Len(q)
  OBVIOUS
<1> HIDE DEF e, f
<1>7. Head(h.unsent) = h.sent[f + 1] /\ Part(Tail(h.unsent), h.sent, f + 1)
  BY <1>1, <1>3, <1>4, PartHead, PartTail
<1>8. /\ Part(g.inbox, h.sent, e) /\ Len(g.inbox) = Len(h.inbox) + 1
  BY <1>1, <1>3, <1>4, <1>6, <1>7, PartAppend
<1>9. e + Len(g.inbox) = f + 1 /\ e + Len(g.inbox) + Len(g.unsent) = Len(h.sent)
  <2> DEFINE i == Len(h.inbox)
             j == Len(g.inbox)
             u == Len(h.unsent)
             v == Len(g.unsent)
  <2>1. i \in Nat /\ u \in Nat /\ j = i + 1 /\ v = u - 1 /\ e \in Nat /\ f = e + i /\ f + u = Len(h.sent)
    BY <1>1, <1>3, <1>4, <1>6, <1>8
  <2> HIDE DEF i, j, u, v
  <2>2. e + j = (e + i) + 1 /\ e + j + v = e + i + u
    BY ONLY <2>1, WriteSums
  <2> QED BY <2>1, <2>2 DEF j, v
<1>10. Part(g.inbox, g.sent, d + Len(p) + Len(q))
  BY <1>8, <1>g
<1>11. Part(g.unsent, g.sent, d + Len(p) + Len(q) + Len(g.inbox))
  BY <1>7, <1>9, <1>g
<1>12. d + Len(p) + Len(q) + Len(g.inbox) + Len(g.unsent) = Len(g.sent)
  BY <1>9, <1>g
<1> QED BY <1>5, <1>10, <1>11, <1>12 DEF Back

(* A byte the program reads stays in its place.                             *)
LEMMA HostReadsFront ==
  ASSUME NEW h \in HostState, h.pty # <<>>, NEW g, g.sent = h.sent, g.outbound = h.outbound,
         g.got = Append(h.got, Head(h.pty)), g.pty = Tail(h.pty), Front(h)
  PROVE  Front(g) /\ Behind(g) = Behind(h)
<1>1. h.got \in Seq(Byte) /\ h.pty \in Seq(Byte) /\ Len(h.got) \in Nat /\ Len(h.pty) \in Nat
      /\ Len(h.outbound) \in Nat
  BY HostFields
<1>2. Tail(h.pty) \in Seq(Byte) /\ Len(Tail(h.pty)) = Len(h.pty) - 1 /\ Head(h.pty) \in Byte
  BY <1>1, TailFacts
<1> DEFINE i == Len(h.got)
<1>3. Part(h.got, h.sent, 0) /\ Part(h.pty, h.sent, i) /\ Part(h.outbound, h.sent, i + Len(h.pty)) /\ i \in Nat
  BY <1>1 DEF Front
<1>4. Head(h.pty) = h.sent[i + 1] /\ Part(Tail(h.pty), h.sent, i + 1)
  BY <1>1, <1>3, PartHead, PartTail
<1>5. Head(h.pty) = h.sent[(0 + i) + 1]
  BY <1>3, <1>4
<1>6. Part(g.got, h.sent, 0) /\ Len(g.got) = i + 1
  BY <1>1, <1>2, <1>3, <1>5, PartAppend
<1> HIDE DEF i
<1>7. Len(g.got) + Len(g.pty) = i + Len(h.pty)
  <2> DEFINE j == Len(g.got)
             u == Len(h.pty)
             v == Len(g.pty)
  <2>1. i \in Nat /\ u \in Nat /\ j = i + 1 /\ v = u - 1
    BY <1>1, <1>2, <1>3, <1>6
  <2> HIDE DEF j, u, v
  <2>2. j + v = i + u
    BY ONLY <2>1
  <2> QED BY <2>2 DEF j, u, v
<1>8. Part(g.pty, g.sent, Len(g.got)) /\ Part(g.got, g.sent, 0)
  BY <1>4, <1>6
<1>9. Part(g.outbound, g.sent, Len(g.got) + Len(g.pty))
  BY <1>3, <1>7
<1>10. Behind(g) = Behind(h)
  BY <1>7 DEF Behind, i
<1> QED BY <1>8, <1>9, <1>10 DEF Front

(* drain_outbound without a new byte moves nothing out of order.            *)
LEMMA DrainNothing ==
  ASSUME NEW h \in HostState, Len(h.pty) <= PtyRoom, NEW g, g = Drain(h, <<>>), g.dropped = h.dropped, Front(h)
  PROVE  Front(g) /\ Behind(g) = Behind(h)
<1>1. Good(<<>>) = <<>> /\ <<>> \in Seq(Byte) /\ Len(<<>>) = 0
  BY GoodNone, EmptySeq
<1>2. Good(<<>>) \in Seq(Byte) /\ Part(Good(<<>>), h.sent, Behind(h)) /\ Len(Good(<<>>)) = 0
  BY <1>1, PartNone
<1>3. Front(g) /\ Behind(g) = Behind(h) + Len(Good(<<>>))
  BY <1>2, DrainFront
<1> QED BY <1>2, <1>3, BehindType

(* As many bytes as the pump takes at a time.                               *)
HasRead(h, g, q, n) ==
  /\ n \in Nat /\ n <= Len(h.inbox) /\ q = SubSeq(h.inbox, 1, n)
  /\ g.sent = h.sent /\ g.unsent = h.unsent /\ g.inbox = SubSeq(h.inbox, n + 1, Len(h.inbox))

(* The bytes the pump reads stay in their place.                            *)
LEMMA PumpReadsBack ==
  ASSUME NEW h \in HostState, NEW p \in Seq(Byte), NEW d \in Nat, NEW n, NEW g, NEW q, HasRead(h, g, q, n),
         NEW u, Len(u) = 0, Back(h, u, p, d)
  PROVE  Back(g, q, p, d)
<1>0. /\ n \in Nat /\ n <= Len(h.inbox) /\ q = SubSeq(h.inbox, 1, n)
      /\ g.sent = h.sent /\ g.unsent = h.unsent /\ g.inbox = SubSeq(h.inbox, n + 1, Len(h.inbox))
  BY DEF HasRead
<1>1. h.inbox \in Seq(Byte) /\ h.unsent \in Seq(Byte) /\ Len(h.inbox) \in Nat /\ Len(h.unsent) \in Nat
  BY HostFields
<1>2. Len(p) \in Nat
  BY LenProperties
<1> DEFINE e == d + Len(p)
           l == Len(h.inbox)
<1>3. e \in Nat /\ l \in Nat /\ n <= l /\ n \in Nat
  BY <1>0, <1>1, <1>2, NatSum
<1>4. /\ Part(p, h.sent, d) /\ Part(h.inbox, h.sent, e + 0) /\ Part(h.unsent, h.sent, e + 0 + l)
      /\ e + 0 + l + Len(h.unsent) = Len(h.sent)
  BY Zenon DEF Back
<1>g. e = d + Len(p)
  OBVIOUS
<1> HIDE DEF e
<1>5. Part(h.inbox, h.sent, e) /\ Part(h.unsent, h.sent, e + l) /\ e + l + Len(h.unsent) = Len(h.sent)
  <2>1. e + 0 = e
    BY <1>3
  <2> QED BY <2>1, <1>4
<1>6. q \in Seq(Byte) /\ Len(q) = n /\ Part(q, h.sent, e)
  <2>1. 1 \in Nat \ {0} /\ 1 <= n + 1 /\ (n + 1) - 1 = n /\ (e + 1) - 1 = e
    BY <1>3
  <2>2. q \in Seq(Byte) /\ Len(q) = (n + 1) - 1 /\ Part(q, h.sent, (e + 1) - 1)
    BY <2>1, <1>0, <1>1, <1>3, <1>5, PartSub
  <2> QED BY <2>1, <2>2
<1>7. Len(g.inbox) = l - n /\ Part(g.inbox, h.sent, e + n)
  <2> DEFINE m == n + 1
  <2>1. m \in Nat \ {0} /\ m <= l + 1 /\ (l + 1) - m = l - n /\ (e + m) - 1 = e + n /\ l <= l
    <3> HIDE DEF l
    <3> QED BY <1>3
  <2>2. g.inbox = SubSeq(h.inbox, m, l) /\ l <= Len(h.inbox)
    BY <1>0, <1>3
  <2> HIDE DEF m, l
  <2> DEFINE z == h.inbox
  <2>3. /\ z \in Seq(Byte) /\ m \in Nat \ {0} /\ l \in Nat /\ l <= Len(z) /\ m <= l + 1
        /\ e \in Nat /\ Part(z, h.sent, e)
    BY <2>1, <2>2, <1>1, <1>3, <1>5
  <2> HIDE DEF z
  <2>4. Len(SubSeq(z, m, l)) = (l + 1) - m /\ Part(SubSeq(z, m, l), h.sent, (e + m) - 1)
    BY <2>3, PartSub
  <2> QED BY <2>1, <2>2, <2>4 DEF z
<1>8. e + Len(q) + Len(g.inbox) = e + l
  <2> DEFINE j == Len(g.inbox)
             k == Len(q)
  <2>1. e \in Nat /\ l \in Nat /\ n \in Nat /\ j = l - n /\ k = n
    BY <1>3, <1>6, <1>7
  <2> HIDE DEF j, k, l
  <2>2. e + k + j = e + l
    BY ONLY <2>1
  <2> QED BY <2>2 DEF j, k, l
<1>9. Part(q, g.sent, d + Len(p)) /\ Part(p, g.sent, d)
  BY <1>0, <1>4, <1>6, <1>g
<1>10. Part(g.inbox, g.sent, d + Len(p) + Len(q))
  BY <1>0, <1>6, <1>7, <1>g
<1>11. Part(g.unsent, g.sent, d + Len(p) + Len(q) + Len(g.inbox))
  BY <1>0, <1>5, <1>8, <1>g
<1>12. d + Len(p) + Len(q) + Len(g.inbox) + Len(g.unsent) = Len(g.sent)
  BY <1>0, <1>5, <1>8, <1>g
<1> QED BY <1>9, <1>10, <1>11, <1>12 DEF Back

(* The bytes the pump holds go to the end of the transmitter's queue.       *)
LEMMA PumpAppendsBack ==
  ASSUME NEW h, NEW p \in Seq(Byte), NEW q \in Seq(Byte), NEW d \in Nat,
         NEW g, g.sent = h.sent, g.unsent = h.unsent, g.inbox = h.inbox, Back(h, q, p, d)
  PROVE  Back(g, <<>>, p \o q, d)
<1>1. Len(p) \in Nat /\ Len(q) \in Nat
  BY LenProperties
<1>2. Part(p, h.sent, d) /\ Part(q, h.sent, d + Len(p))
  BY DEF Back
<1>3. Part(p \o q, h.sent, d)
  BY <1>2, PartConcat
<1>4. Len(p \o q) = Len(p) + Len(q)
  BY ConcatProperties
<1>5. d + Len(p \o q) + Len(<<>>) = d + Len(p) + Len(q) /\ d + Len(p \o q) \in Nat
  <2>1. Len(<<>>) = 0
    OBVIOUS
  <2> DEFINE a == Len(p)
             b == Len(q)
             c == Len(p \o q)
             z == Len(<<>>)
  <2>2. a \in Nat /\ b \in Nat /\ c = a + b /\ z = 0 /\ d \in Nat
    BY <2>1, <1>1, <1>4
  <2> HIDE DEF a, b, c, z
  <2>3. d + c + z = d + a + b /\ d + c \in Nat
    BY ONLY <2>2
  <2> QED BY <2>3 DEF a, b, c, z
<1>6. Part(g.inbox, g.sent, d + Len(p \o q) + Len(<<>>))
  BY <1>5 DEF Back
<1>7. Part(g.unsent, g.sent, d + Len(p \o q) + Len(<<>>) + Len(g.inbox))
  BY <1>5 DEF Back
<1>8. d + Len(p \o q) + Len(<<>>) + Len(g.inbox) + Len(g.unsent) = Len(g.sent)
  BY <1>5 DEF Back
<1>9. Part(<<>>, g.sent, d + Len(p \o q))
  BY PartNone
<1>10. Part(p \o q, g.sent, d)
  BY <1>3
<1> QED BY <1>6, <1>7, <1>8, <1>9, <1>10, Zenon DEF Back

(* The types. *)
PumpState == [pc : {"loop", "check", "append", "arm", "schedule"}, bytes : Seq(Byte), at : Nat \cup {None}]
RailState == [vio : {"unread", "on", "off"}, gnd : BOOLEAN]

TypeOK ==
  /\ tx \in [Ends -> TxState] /\ rx \in [Ends -> RxState]
  /\ armed \in [Ends -> Nat \cup {None}] /\ wheel \subseteq Ends \X Nat
  /\ wire \in [Ends -> Bits \cup {Open}] /\ rail \in RailState
  /\ pump \in PumpState /\ (pump.pc = "schedule" => pump.at # None)
  /\ host \in HostState /\ Len(host.pty) <= PtyRoom
  /\ engine \in {"loop", "tx", "rx"} /\ now \in Nat /\ cuts \in Nat

(* A frame takes time.                                                      *)
LEMMA FrameNsPositive == ASSUME NEW y \in Ends PROVE FrameNs(y) \in Nat /\ FrameNs(y) > 0
<1>1. FrameNs(y) = FrameBits * Period[y] /\ FrameBits \in Nat /\ FrameBits >= 3 /\ Period[y] \in Nat \ {0}
  BY EndFacts, Constants
<1>2. FrameBits * Period[y] > 0 /\ FrameBits * Period[y] \in Nat
  BY <1>1
<1> QED BY <1>1, <1>2

(* At most one frame is closed by a level and the poll after it.            *)
OneClosed(o, t) ==
  \E l \in Bits, u \in Nat \cup {None}, z \in Seq(Bits), n \in Nat, d \in OneFrame :
    o = RxRec(l, u, z, n, d) /\ (d = <<>> \/ u = None \/ u = t)

(* A record of typed fields with at most one frame done.                    *)
LEMMA OneClosedIs ==
  ASSUME NEW l \in Bits, NEW u \in Nat \cup {None}, NEW z \in Seq(Bits), NEW n \in Nat, NEW d \in OneFrame,
         NEW t, d = <<>> \/ u = None \/ u = t
  PROVE  OneClosed(RxRec(l, u, z, n, d), t)
  BY DEF OneClosed

(* on_level of an idle level between frames.                                *)
LEMMA OnLevelIdle ==
  ASSUME NEW y, NEW R, NEW v, NEW t, v # R.level, v # 0, NEW C,
         C = IF R.start # None /\ t >= R.start + StopSampled(y) THEN CloseFrame(y, R) ELSE R,
         C.start = None
  PROVE  OnLevel(y, R, v, t) = WithSince(WithLevel(C, v), t)
<1>1. OnLevel(y, R, v, t) = [C EXCEPT !.level = v, !.since = t]
  BY Zenon DEF OnLevel
<1>2. [C EXCEPT !.level = v, !.since = t] = WithSince(WithLevel(C, v), t)
  BY DEF WithSince, WithLevel
<1> QED BY <1>1, <1>2

(* on_level leaves a decoder with at most one frame done.                   *)
LEMMA OnLevelTyped ==
  ASSUME NEW y \in Ends, NEW R \in RxState, NEW v \in Bits, NEW t \in Nat
  PROVE  OneClosed(OnLevel(y, R, v, t), t)
<1>0. /\ R = RxRec(R.level, R.start, R.bits, R.since, <<>>) /\ R.level \in Bits /\ R.start \in Nat \cup {None}
      /\ R.bits \in Seq(Bits) /\ R.since \in Nat
  BY RxIs, RxFields
<1>f. <<>> \in OneFrame /\ <<>> \in Seq(Bits) /\ None \in Nat \cup {None} /\ 0 \in Bits /\ Period[y] \in Nat \ {0}
  BY EndFacts DEF OneFrame, Bits
<1>1. CASE v = R.level
  <2>1. OneClosed(RxRec(R.level, R.start, R.bits, R.since, <<>>), t)
    BY <1>0, <1>f, OneClosedIs
  <2>2. OnLevel(y, R, v, t) = R
    BY <1>1, OnLevelSame
  <2> QED BY <2>1, <2>2, <1>0
<1>2. CASE v # R.level /\ R.start # None /\ ~(t >= R.start + StopSampled(y))
  <2> DEFINE n == Lesser(Count(y, R, t), Room(R))
  <2>1. n \in Int
    BY CountType
  <2> HIDE DEF n
  <2>2. Extended(y, R, t, IF n >= 0 THEN n ELSE 0)
    BY <2>1, <1>0, AbsorbIs DEF n
  <2>3. PICK z \in Seq(Bits) : Absorb(y, R, t) = WithSince(WithBits(R, z), t)
    BY <2>2 DEF Extended
  <2>4. OnLevel(y, R, v, t) = WithLevel(WithSince(WithBits(R, z), t), v)
    BY <2>3, <1>2, OnLevelInside
  <2>5. OnLevel(y, R, v, t) = RxRec(v, R.start, z, t, <<>>)
    BY <2>4, <1>0, RxRecs
  <2> QED BY <2>5, <1>0, <1>f, OneClosedIs
<1>3. ASSUME v # R.level, NEW l \in Bits, NEW z \in Seq(Bits), NEW n \in Nat, NEW d \in OneFrame, NEW C,
             C = IF R.start # None /\ t >= R.start + StopSampled(y) THEN CloseFrame(y, R) ELSE R,
             C = RxRec(l, None, z, n, d)
      PROVE  OneClosed(OnLevel(y, R, v, t), t)
  <2>1. C.start = None
    BY <1>3, RxFieldsOf
  <2>2. CASE v = 0
    <3>1. OnLevel(y, R, 0, t) = Opened(y, C, t)
      <4>1. CASE R.start # None /\ t >= R.start + StopSampled(y)
        BY <4>1, <2>1, <2>2, <1>3, OnLevelReopens
      <4>2. CASE ~(R.start # None /\ t >= R.start + StopSampled(y))
        BY <4>2, <2>1, <2>2, <1>3, OnLevelOpens
      <4> QED BY <4>1, <4>2
    <3>2. OnLevel(y, R, v, t) = RxRec(0, t, <<>>, t + Period[y], d)
      BY <3>1, <2>2, <1>3, OpenedIs
    <3>3. t + Period[y] \in Nat /\ t \in Nat \cup {None}
      BY <1>f
    <3> QED BY <3>2, <3>3, <1>f, OneClosedIs
  <2>3. CASE v # 0
    <3>1. OnLevel(y, R, v, t) = WithSince(WithLevel(C, v), t)
      BY <2>1, <2>3, <1>3, OnLevelIdle
    <3>2. OnLevel(y, R, v, t) = RxRec(v, None, z, t, d)
      BY <3>1, <1>3, RxRecs
    <3> QED BY <3>2, <1>f, OneClosedIs
  <2> QED BY <2>2, <2>3
<1>4. CASE v # R.level /\ R.start = None
  <2> DEFINE C == IF R.start # None /\ t >= R.start + StopSampled(y) THEN CloseFrame(y, R) ELSE R
  <2>1. C = RxRec(R.level, None, R.bits, R.since, <<>>)
    BY <1>0, <1>4
  <2>2. C = IF R.start # None /\ t >= R.start + StopSampled(y) THEN CloseFrame(y, R) ELSE R
    OBVIOUS
  <2> HIDE DEF C
  <2> QED BY <2>1, <2>2, <1>0, <1>3, <1>4, <1>f
<1>5. CASE v # R.level /\ R.start # None /\ t >= R.start + StopSampled(y)
  <2>1. PICK f \in Byte \cup {Bad} : CloseFrame(y, R) = Closed(R, f, R.start + FrameNs(y))
    BY <1>5, CloseTyped DEF ClosedAs
  <2> DEFINE n == R.start + FrameNs(y)
             d == <<f>>
             C == CloseFrame(y, R)
  <2>2. C = IF R.start # None /\ t >= R.start + StopSampled(y) THEN CloseFrame(y, R) ELSE R
    BY <1>5
  <2>3. C = RxRec(R.level, None, <<>>, n, d)
    BY <2>1 DEF Closed
  <2>4. n \in Nat /\ d \in OneFrame
    BY <1>0, <1>5, EndFacts DEF OneFrame
  <2> HIDE DEF C, n, d
  <2> QED BY <2>2, <2>3, <2>4, <1>0, <1>3, <1>5, <1>f
<1> QED BY <1>1, <1>2, <1>4, <1>5

(* poll after it closes no second frame.                                    *)
LEMMA PollTyped ==
  ASSUME NEW y \in Ends, NEW t \in Nat, NEW o, OneClosed(o, t)
  PROVE  Poll(y, o, t).done \in OneFrame /\ WithDone(Poll(y, o, t), <<>>) \in RxState
<1>1. PICK l \in Bits, u \in Nat \cup {None}, z \in Seq(Bits), n \in Nat, d \in OneFrame :
        o = RxRec(l, u, z, n, d) /\ (d = <<>> \/ u = None \/ u = t)
  BY DEF OneClosed
<1>2. o.start = u /\ o.done = d
  BY <1>1, RxFieldsOf
<1>3. CASE ~(o.start # None /\ t - o.start >= FrameNs(y))
  <2>1. Poll(y, o, t) = o
    BY <1>3, PollKeeps
  <2>2. WithDone(o, <<>>) = RxRec(l, u, z, n, <<>>)
    BY <1>1, RxRecs
  <2> QED BY <2>1, <2>2, <1>2, RxTyped
<1>4. CASE o.start # None /\ t - o.start >= FrameNs(y)
  <2>1. d = <<>>
    BY <1>1, <1>2, <1>4, FrameNsPositive
  <2>2. o \in RxState
    BY <2>1, <1>1, RxTyped
  <2>3. PICK f \in Byte \cup {Bad} : CloseFrame(y, o) = Closed(o, f, o.start + FrameNs(y))
    BY <2>2, <1>4, CloseTyped DEF ClosedAs
  <2> DEFINE e == o.start + FrameNs(y)
             C == CloseFrame(y, o)
             v == o.level
  <2>4. e \in Nat /\ v \in Bits
    BY <2>2, <1>2, <1>4, FrameNsPositive, RxFields
  <2>5. C = RxRec(v, None, <<>>, e, <<f>>)
    BY <2>3 DEF Closed
  <2>p. Poll(y, o, t) = C
    BY <1>4, PollCloses
  <2> HIDE DEF e, C, v
  <2>6. C.done = <<f>> /\ WithDone(C, <<>>) = RxRec(v, None, <<>>, e, <<>>)
    BY <2>5, RxFieldsOf, RxRecs
  <2>7. <<f>> \in OneFrame
    BY DEF OneFrame
  <2>8. <<>> \in Seq(Bits) /\ None \in Nat \cup {None}
    BY EmptySeq
  <2>9. RxRec(v, None, <<>>, e, <<>>) \in RxState
    BY <2>4, <2>8, RxTyped
  <2> QED BY <2>p, <2>6, <2>7, <2>9
<1> QED BY <1>3, <1>4

(* A decoder between steps has closed none.                                 *)
LEMMA RxStateClosed == ASSUME NEW R \in RxState, NEW t PROVE OneClosed(R, t)
<1>1. /\ R = RxRec(R.level, R.start, R.bits, R.since, <<>>) /\ R.level \in Bits /\ R.start \in Nat \cup {None}
      /\ R.bits \in Seq(Bits) /\ R.since \in Nat /\ <<>> \in OneFrame
  BY RxIs, RxFields DEF OneFrame
<1>2. OneClosed(RxRec(R.level, R.start, R.bits, R.since, <<>>), t)
  BY <1>1, OneClosedIs
<1> QED BY <1>1, <1>2

(* service_tx returns a transmitter and a bit, if any.                      *)
LEMMA ServiceTyped ==
  ASSUME NEW x \in Ends, NEW T \in TxState, NEW t \in Nat, NEW out, out = ServiceTx(x, T, t)
  PROVE  out.tx \in TxState /\ out.level \in Bits \cup {None} /\ out.tx.enabled = T.enabled
<1>0. /\ T = TxRec(T.enabled, T.pending, T.bits, T.due) /\ T.enabled \in BOOLEAN
      /\ T.pending \in Seq(Byte) /\ T.bits \in Seq(Bits) /\ T.due \in Nat \cup {None}
  BY TxIs
<1>p. Period[x] \in Nat \ {0}
  BY EndFacts
<1> DEFINE u == IF T.due = None THEN t ELSE T.due
<1>u. u \in Nat /\ u + Period[x] \in Nat \cup {None} /\ (IF T.due = None THEN t ELSE T.due) = u
  BY <1>0, <1>p
<1> HIDE DEF u
<1>1. CASE Nothing(T, t)
  BY <1>1, ServeNothing, ServedFields
<1>2. CASE ~Nothing(T, t) /\ T.bits = <<>> /\ T.pending = <<>>
  <2>1. out.tx = WithDue(T, None) /\ out.level = 1
    BY <1>2, ServeEnd, ServedFields
  <2>2. WithDue(T, None) = TxRec(T.enabled, T.pending, T.bits, None)
    BY <1>0, TxRecs
  <2>3. TxRec(T.enabled, T.pending, T.bits, None) \in TxState /\ TxRec(T.enabled, T.pending, T.bits, None).enabled = T.enabled
    <3>1. None \in Nat \cup {None}
      OBVIOUS
    <3>2. TxRec(T.enabled, T.pending, T.bits, None) \in TxState
      BY <3>1, <1>0, TxTyped
    <3> QED BY <3>2, TxFieldsOf
  <2>4. 1 \in Bits
    BY DEF Bits
  <2> QED BY <2>1, <2>2, <2>3, <2>4
<1>3. ASSUME NEW b \in Seq(Bits), NEW p \in Seq(Byte), NEW v \in Bits,
             out = Served(WithDue(WithPending(WithBits(T, b), p), u + Period[x]), v)
      PROVE  out.tx \in TxState /\ out.level \in Bits \cup {None} /\ out.tx.enabled = T.enabled
  <2>1. WithDue(WithPending(WithBits(T, b), p), u + Period[x]) = TxRec(T.enabled, p, b, u + Period[x])
    BY <1>0, TxRecs
  <2>2. out.tx = TxRec(T.enabled, p, b, u + Period[x]) /\ out.level = v
    BY <2>1, <1>3, ServedFields
  <2>3. TxRec(T.enabled, p, b, u + Period[x]) \in TxState
        /\ TxRec(T.enabled, p, b, u + Period[x]).enabled = T.enabled
    <3>1. T.enabled \in BOOLEAN /\ u + Period[x] \in Nat \cup {None}
      BY <1>0, <1>u
    <3>2. TxRec(T.enabled, p, b, u + Period[x]) \in TxState
      BY <3>1, TxTyped
    <3> QED BY <3>2, TxFieldsOf
  <2> QED BY <2>2, <2>3
<1>4. CASE ~Nothing(T, t) /\ T.bits # <<>>
  <2>1. out = Served(WithDue(WithPending(WithBits(T, Tail(T.bits)), T.pending), u + Period[x]), Head(T.bits))
    BY <1>4, <1>u, ServeBit
  <2>2. Tail(T.bits) \in Seq(Bits) /\ Head(T.bits) \in Bits
    BY <1>0, <1>4, TailFacts
  <2> QED BY <2>1, <2>2, <1>0, <1>3
<1>5. CASE ~Nothing(T, t) /\ T.bits = <<>> /\ T.pending # <<>>
  <2> DEFINE e == Encode(Head(T.pending))
  <2>1. Tail(T.pending) \in Seq(Byte) /\ Head(T.pending) \in Byte
    BY <1>0, <1>5, TailFacts
  <2>2. e \in Seq(Bits) /\ Len(e) = FrameBits
    BY <2>1, EncodeBits
  <2>3. e # <<>>
    BY <2>2, Constants
  <2>4. e = Encode(Head(T.pending))
    OBVIOUS
  <2> HIDE DEF e
  <2>5. out = Served(WithDue(WithPending(WithBits(T, Tail(e)), Tail(T.pending)), u + Period[x]), Head(e))
    BY <2>3, <2>4, <1>5, <1>u, ServeByte
  <2>6. Tail(e) \in Seq(Bits) /\ Head(e) \in Bits
    BY <2>2, <2>3, TailFacts
  <2> QED BY <2>1, <2>5, <2>6, <1>3
<1> QED BY <1>1, <1>2, <1>4, <1>5

(* The next wake is the earlier of the two asked for, if any.               *)
Asked(s) == IF s.enabled THEN s.due ELSE None
Earliest(n, a, b) ==
  \/ n = None /\ a = None /\ b = None
  \/ n \in Nat /\ n \in {a, b} /\ (a # None => n <= a) /\ (b # None => n <= b)

(* The earlier of the two wakes is one of them, and no later than either.   *)
LEMMA NextWakeIs ==
  ASSUME NEW x, NEW T, NEW R, Asked(T) \in Nat \cup {None}, Deadline(x, R) \in Nat \cup {None}
  PROVE  Earliest(NextWake(x, T, R), Asked(T), Deadline(x, R))
<1> DEFINE a == Asked(T)
           b == Deadline(x, R)
           S == {a, b} \ {None}
<1>1. NextWake(x, T, R) = IF S = {} THEN None ELSE CHOOSE t \in S : \A u \in S : t <= u
  BY Zenon DEF NextWake, Asked
<1> HIDE DEF a, b
<1>2. a \in Nat \cup {None} /\ b \in Nat \cup {None}
  BY DEF a, b
<1>3. CASE S = {}
  BY <1>1, <1>3 DEF Earliest, a, b
<1>4. CASE S # {}
  <2>1. \E t \in S : \A u \in S : t <= u
    BY <1>2, <1>4, Known
  <2> DEFINE n == CHOOSE t \in S : \A u \in S : t <= u
  <2>2. n \in S /\ \A u \in S : n <= u
    BY <2>1
  <2>3. NextWake(x, T, R) = n
    BY <1>1, <1>4
  <2> HIDE DEF n
  <2> QED BY <2>2, <2>3, <1>2 DEF Earliest, a, b
<1> QED BY <1>3, <1>4

(* frame_deadline_ns is the end of the frame, if one is open.               *)
LEMMA DeadlineIs ==
  ASSUME NEW x \in Ends, NEW R \in RxState
  PROVE  Deadline(x, R) \in Nat \cup {None} /\ (R.start # None => Deadline(x, R) = R.start + FrameNs(x))
         /\ (R.start = None => Deadline(x, R) = None)
<1>1. R.start \in Nat \cup {None} /\ FrameNs(x) \in Nat
  BY RxFields, EndFacts
<1> QED BY <1>1 DEF Deadline

(* transmit takes all it is given.                                          *)
Took(s, z) == Accepted(s, z) = Len(z)

(* transmit takes no more than it is given, and the whole when it fits.     *)
LEMMA AcceptedIs ==
  ASSUME NEW s \in TxState, NEW z \in Seq(Byte)
  PROVE  /\ Accepted(s, z) \in Int /\ Accepted(s, z) <= Len(z)
         /\ SubSeq(z, 1, Accepted(s, z)) \in Seq(Byte)
         /\ Took(s, z) => SubSeq(z, 1, Accepted(s, z)) = z
         /\ Len(z) + Len(s.pending) <= QueueMax => Took(s, z)
<1> DEFINE l == Len(z)
           p == Len(s.pending)
           n == Accepted(s, z)
<1>1. s.pending \in Seq(Byte)
  BY TxIs
<1>2. l \in Nat /\ l = Len(z) /\ p \in Nat /\ QueueMax \in Nat
  BY <1>1, LenProperties, Constants
<1>3. n = Lesser(l, QueueMax - p) /\ (Took(s, z) <=> n = l)
  BY DEF Accepted, TxRoom, Took
<1> HIDE DEF l, p, n
<1>4. n \in Int /\ n <= l /\ (l + p <= QueueMax => n = l)
  BY <1>2, <1>3 DEF Lesser
<1>5. SubSeq(z, 1, n) \in Seq(Byte)
  <2>1. CASE n >= 0
    <3> DEFINE o == 1
    <3>1. n \in Nat /\ o \in Nat \ {0} /\ o <= n + 1 /\ n <= Len(z)
      BY <2>1, <1>2, <1>4
    <3> HIDE DEF o
    <3>2. SubSeq(z, o, n) \in Seq(Byte)
      BY <3>1, SubTyped
    <3> QED BY <3>2 DEF o
  <2>2. CASE n < 0
    <3>1. SubSeq(z, 1, n) = <<>>
      BY <2>2, <1>2, <1>4, SubSeqEmpty
    <3> QED BY <3>1, EmptySeq
  <2> QED BY <2>1, <2>2, <1>4
<1>6. n = l => SubSeq(z, 1, n) = z
  <2>1. SUFFICES ASSUME n = l PROVE SubSeq(z, 1, Len(z)) = z
    BY <1>2
  <2> QED BY SubSeqFull
<1> QED BY <1>3, <1>4, <1>5, <1>6 DEF l, p, n

(* The host with more bytes shed is typed.                                  *)
LEMMA WithShedTyped ==
  ASSUME NEW h \in HostState, NEW v \in Nat, NEW g, g = [h EXCEPT !.shed = v]
  PROVE  /\ g \in HostState /\ g.inbox = h.inbox /\ g.sent = h.sent /\ g.unsent = h.unsent /\ g.pty = h.pty
         /\ g.outbound = h.outbound /\ g.got = h.got /\ g.dropped = h.dropped /\ g.shed = v
         /\ v = h.shed => g = h
  BY DEF HostState

(* What transmit leaves of the bytes is counted.                            *)
LEMMA ShedIs ==
  ASSUME NEW h \in HostState, NEW s \in TxState, NEW z \in Seq(Byte), NEW g, g = Shed(h, s, z)
  PROVE  /\ g \in HostState /\ g.inbox = h.inbox /\ g.sent = h.sent /\ g.unsent = h.unsent /\ g.pty = h.pty
         /\ g.outbound = h.outbound /\ g.got = h.got /\ g.dropped = h.dropped /\ g.shed >= h.shed
         /\ g.shed = h.shed <=> Took(s, z)
         /\ Took(s, z) => g = h
<1> DEFINE l == Len(z)
           n == Accepted(s, z)
           v == h.shed + l - n
<1>1. l \in Nat /\ n \in Int /\ n <= l /\ h.shed \in Nat
  BY AcceptedIs, LenProperties, HostFields
<1>2. g = [h EXCEPT !.shed = v] /\ (Took(s, z) <=> n = l)
  BY DEF Shed, Took
<1> HIDE DEF l, n
<1>3. v \in Nat /\ v >= h.shed /\ (v = h.shed <=> n = l)
  BY <1>1
<1> HIDE DEF v
<1> QED BY <1>2, <1>3, WithShedTyped

(* Frames taken. *)
LEMMA TakenIs ==
  ASSUME TypeOK, NEW x \in Ends, NEW r, NEW s \in TxState, Taken(x, r, s), r.done \in OneFrame,
         WithDone(r, <<>>) \in RxState
  PROVE  /\ rx' \in [Ends -> RxState] /\ rx'[x] = WithDone(r, <<>>) /\ rx'[Far(x)] = rx[Far(x)]
         /\ x = "host" => host' = Drain(host, r.done)
         /\ x # "host" /\ host'.shed = host.shed => host' = host /\ Took(s, Good(r.done))
         /\ x = "host" \/ Took(s, Good(r.done)) => host'.shed = host.shed
         /\ host' \in HostState /\ Len(host'.pty) <= PtyRoom /\ host'.sent = host.sent
         /\ host'.dropped >= host.dropped /\ host'.shed >= host.shed
<1>1. rx' = [rx EXCEPT ![x] = WithDone(r, <<>>)]
      /\ host' = IF x = "host" THEN Drain(host, r.done) ELSE Shed(host, s, Good(r.done))
  BY Zenon DEF Taken, WithDone
<1>2. rx \in [Ends -> RxState] /\ host \in HostState /\ Len(host.pty) <= PtyRoom
      /\ host.dropped \in Nat /\ host.shed \in Nat
  BY HostFields DEF TypeOK
<1>3. Far(x) \in Ends /\ Far(x) # x
  BY EndFacts
<1>4. Good(r.done) \in Seq(Byte)
  BY GoodType
<1>5. ASSUME NEW g, g = Drain(host, r.done)
      PROVE  g \in HostState /\ Len(g.pty) <= PtyRoom /\ g.dropped >= host.dropped /\ g.shed = host.shed
             /\ g.sent = host.sent
  BY <1>2, <1>4, <1>5, DrainTyped
<1>6. ASSUME NEW g, g = Shed(host, s, Good(r.done))
      PROVE  /\ g \in HostState /\ g.pty = host.pty /\ g.dropped = host.dropped /\ g.shed >= host.shed
             /\ g.sent = host.sent /\ (g.shed = host.shed <=> Took(s, Good(r.done)))
             /\ Took(s, Good(r.done)) => g = host
  BY <1>2, <1>4, <1>6, ShedIs
<1>7. CASE x = "host"
  <2>1. host' = Drain(host, r.done)
    BY <1>1, <1>7
  <2>2. host' \in HostState /\ Len(host'.pty) <= PtyRoom /\ host'.dropped >= host.dropped
        /\ host'.shed = host.shed /\ host'.sent = host.sent
    BY <2>1, <1>5
  <2> QED BY <1>1, <1>2, <1>3, <1>7, <2>1, <2>2
<1>8. CASE x # "host"
  <2>1. host' = Shed(host, s, Good(r.done))
    BY <1>1, <1>8
  <2>2. /\ host' \in HostState /\ host'.pty = host.pty /\ host'.dropped = host.dropped
        /\ host'.shed >= host.shed /\ (host'.shed = host.shed <=> Took(s, Good(r.done)))
        /\ host'.sent = host.sent /\ (Took(s, Good(r.done)) => host' = host)
    BY <2>1, <1>6
  <2> QED BY <1>1, <1>2, <1>3, <1>8, <2>2
<1> QED BY <1>7, <1>8

(* The answers join the queue, all of them when they are taken.             *)
LEMMA AnswerIs ==
  ASSUME NEW T \in TxState, NEW f, Good(f) \in Seq(Byte)
  PROVE  /\ Answer(T, f) \in TxState /\ Answer(T, f).due = T.due
         /\ Answer(T, f).bits = T.bits /\ Answer(T, f).enabled = T.enabled
         /\ Took(T, Good(f)) => Answer(T, f).pending = T.pending \o Good(f)
<1>0. /\ T = TxRec(T.enabled, T.pending, T.bits, T.due) /\ T.enabled \in BOOLEAN
      /\ T.pending \in Seq(Byte) /\ T.bits \in Seq(Bits) /\ T.due \in Nat \cup {None}
  BY TxIs
<1> DEFINE z == SubSeq(Good(f), 1, Accepted(T, Good(f)))
           p == T.pending \o z
<1>1. z \in Seq(Byte) /\ (Took(T, Good(f)) => z = Good(f))
  BY AcceptedIs
<1>2. Answer(T, f) = WithPending(T, p)
  BY DEF Answer, Transmit, WithPending
<1> HIDE DEF z
<1>3. p \in Seq(Byte)
  BY <1>0, <1>1, ConcatProperties
<1>4. Took(T, Good(f)) => p = T.pending \o Good(f)
  BY <1>1
<1> HIDE DEF p
<1>5. WithPending(T, p) = TxRec(T.enabled, p, T.bits, T.due)
  BY <1>0, TxRecs
<1>6. TxRec(T.enabled, p, T.bits, T.due) \in TxState
  BY <1>0, <1>3, TxTyped
<1>7. Answer(T, f) = TxRec(T.enabled, p, T.bits, T.due)
  BY <1>2, <1>5
<1>8. Answer(T, f).pending = p /\ Answer(T, f).due = T.due /\ Answer(T, f).bits = T.bits
      /\ Answer(T, f).enabled = T.enabled
  BY <1>7, TxFieldsOf
<1> QED BY <1>4, <1>6, <1>7, <1>8

(* Wakes asked for. *)
LEMMA ArmIs ==
  ASSUME TypeOK, NEW x \in Ends, NEW at \in Nat \cup {None}, Arm(x, at)
  PROVE  /\ armed' \in [Ends -> Nat \cup {None}] /\ wheel' \subseteq Ends \X Nat /\ wheel \subseteq wheel'
         /\ armed'[Far(x)] = armed[Far(x)]
         /\ \/ armed' = armed /\ wheel' = wheel /\ (at = None \/ armed[x] = at)
            \/ armed'[x] = at /\ <<x, at>> \in wheel'
<1>1. armed \in [Ends -> Nat \cup {None}] /\ wheel \subseteq Ends \X Nat
  BY DEF TypeOK
<1>2. Far(x) \in Ends /\ Far(x) # x
  BY EndFacts
<1>3. CASE at = None \/ armed[x] = at
  <2>1. armed' = armed /\ wheel' = wheel
    BY <1>3 DEF Arm
  <2> QED BY <2>1, <1>1, <1>3
<1>4. CASE ~(at = None \/ armed[x] = at)
  <2>1. armed' = [armed EXCEPT ![x] = at] /\ wheel' = wheel \cup {<<x, at>>}
    BY <1>4 DEF Arm
  <2>2. at \in Nat
    BY <1>4
  <2>3. armed' \in [Ends -> Nat \cup {None}] /\ armed'[x] = at /\ armed'[Far(x)] = armed[Far(x)]
    BY <2>1, <1>1, <1>2
  <2>4. wheel' \subseteq Ends \X Nat /\ wheel \subseteq wheel' /\ <<x, at>> \in wheel'
    BY <2>1, <2>2, <1>1
  <2> QED BY <2>3, <2>4
<1> QED BY <1>3, <1>4

(* What the device's step puts on the wheel.                                *)
LEMMA ArmDeviceIs ==
  ASSUME TypeOK, NEW left, left \subseteq wheel, NEW next \in Nat \cup {None}, NEW kick \in BOOLEAN,
         ArmDevice(left, next, kick)
  PROVE  /\ armed' \in [Ends -> Nat \cup {None}] /\ wheel' \subseteq Ends \X Nat /\ left \subseteq wheel'
         /\ armed'["host"] = armed["host"]
         /\ kick => <<"dev", now>> \in wheel'
         /\ next # None => <<"dev", next>> \in wheel'
<1>1. armed \in [Ends -> Nat \cup {None}] /\ wheel \subseteq Ends \X Nat /\ now \in Nat
  BY DEF TypeOK
<1>2. "dev" \in Ends /\ "host" \in Ends /\ "dev" # "host"
  BY DEF Ends
<1>3. wheel' = left \cup (IF kick THEN {<<"dev", now>>} ELSE {})
                    \cup (IF next # None THEN {<<"dev", next>>} ELSE {})
  BY DEF ArmDevice
<1>4. PICK v : v \in Nat \cup {None} /\ armed' = [armed EXCEPT !["dev"] = v]
  <2> DEFINE v == IF kick THEN now ELSE IF next # None THEN next
                  ELSE IF armed["dev"] # None /\ armed["dev"] <= now THEN None ELSE armed["dev"]
  <2>1. armed' = [armed EXCEPT !["dev"] = v]
    BY DEF ArmDevice
  <2>2. v \in Nat \cup {None}
    BY <1>1, <1>2
  <2> QED BY <2>1, <2>2
<1>5. armed' \in [Ends -> Nat \cup {None}] /\ armed'["host"] = armed["host"]
  BY <1>1, <1>2, <1>4
<1>6. wheel' \subseteq Ends \X Nat
  <2>1. next # None => next \in Nat
    OBVIOUS
  <2> QED BY <2>1, <1>1, <1>2, <1>3
<1> QED BY <1>3, <1>5, <1>6

(* The types, end by end.                                                   *)
LEMMA EndsTyped ==
  ASSUME TypeOK
  PROVE  /\ tx["host"] \in TxState /\ tx["dev"] \in TxState /\ rx["host"] \in RxState /\ rx["dev"] \in RxState
         /\ wire["host"] \in Bits \cup {Open} /\ wire["dev"] \in Bits \cup {Open}
         /\ armed["host"] \in Nat \cup {None} /\ now \in Nat /\ host \in HostState
         /\ "host" \in Ends /\ "dev" \in Ends /\ Far("host") = "dev" /\ Far("dev") = "host"
         /\ pump.bytes \in Seq(Byte) /\ Len(host.pty) <= PtyRoom
  BY DEF TypeOK, Ends, Far, PumpState

(* A level received by the host, by the device.                             *)
ReceivedAt(x) == Poll(x, OnLevel(x, rx[x], wire[Far(x)], now), now)

(* What receive_sense leaves is typed.                                      *)
LEMMA ReceivedAtTyped ==
  ASSUME TypeOK, NEW x \in Ends, wire[Far(x)] # Open
  PROVE  /\ ReceivedAt(x).done \in OneFrame /\ WithDone(ReceivedAt(x), <<>>) \in RxState
         /\ Good(ReceivedAt(x).done) \in Seq(Byte)
<1>1. rx[x] \in RxState /\ wire[Far(x)] \in Bits /\ now \in Nat
  BY EndFacts DEF TypeOK
<1>2. OneClosed(OnLevel(x, rx[x], wire[Far(x)], now), now)
  BY <1>1, OnLevelTyped
<1>3. ReceivedAt(x).done \in OneFrame /\ WithDone(ReceivedAt(x), <<>>) \in RxState
  BY <1>1, <1>2, PollTyped DEF ReceivedAt
<1> QED BY <1>3, GoodType

(* Taking the frames leaves the open frame alone.                           *)
LEMMA WithDoneStart == ASSUME NEW r, WithDone(r, <<>>) \in RxState PROVE WithDone(r, <<>>).start = r.start
  BY DEF WithDone

(* So it leaves its deadline alone.                                         *)
LEMMA DeadlineOfDone ==
  ASSUME NEW x \in Ends, NEW r, WithDone(r, <<>>) \in RxState
  PROVE  Deadline(x, r) = Deadline(x, WithDone(r, <<>>)) /\ Deadline(x, r) \in Nat \cup {None}
<1>1. WithDone(r, <<>>).start = r.start
  BY WithDoneStart
<1>2. Deadline(x, r) = Deadline(x, WithDone(r, <<>>))
  BY <1>1 DEF Deadline
<1> QED BY <1>2, DeadlineIs

(* receive_sense at the host, taken apart.                                  *)
LEMMA ReceiveHostIs ==
  ASSUME TypeOK, Receive("host")
  PROVE  /\ engine = "loop" /\ wire["dev"] # Open /\ wire["dev"] # rx["host"].level
         /\ Taken("host", ReceivedAt("host"), tx["host"]) /\ Arm("host", Deadline("host", ReceivedAt("host")))
         /\ tx' = tx /\ UNCHANGED <<wire, rail, pump, engine, now, cuts>>
<1>1. Far("host") = "dev" /\ "host" # "dev" /\ "host" \in Ends
  BY DEF Far, Ends
<1>2. tx' = [tx EXCEPT !["host"] = tx["host"]]
  BY <1>1 DEF Receive
<1>3. tx \in [Ends -> TxState]
  BY DEF TypeOK
<1>4. tx' = tx
  BY <1>1, <1>2, <1>3
<1>5. engine = "loop" /\ wire["dev"] \notin {Open, rx["host"].level}
  BY <1>1 DEF Receive
<1>6. Taken("host", ReceivedAt("host"), tx["host"]) /\ Arm("host", Deadline("host", ReceivedAt("host")))
  BY <1>1, Zenon DEF Receive, ReceivedAt
<1> QED BY <1>4, <1>5, <1>6 DEF Receive

(* receive_sense at the device, taken apart.                                *)
LEMMA ReceiveDevIs ==
  ASSUME TypeOK, Receive("dev")
  PROVE  /\ engine = "loop" /\ wire["host"] # Open /\ wire["host"] # rx["dev"].level
         /\ Taken("dev", ReceivedAt("dev"), tx["dev"])
         /\ tx' = [tx EXCEPT !["dev"] = Answer(tx["dev"], ReceivedAt("dev").done)]
         /\ ArmDevice(wheel, Deadline("dev", ReceivedAt("dev")),
                      Answer(tx["dev"], ReceivedAt("dev").done) # tx["dev"] /\ TxIdle(tx["dev"]))
         /\ UNCHANGED <<wire, rail, pump, engine, now, cuts>>
<1>1. Far("dev") = "host" /\ "host" # "dev" /\ "dev" \in Ends
  BY DEF Far, Ends
<1>2. engine = "loop" /\ wire["host"] \notin {Open, rx["dev"].level}
  BY <1>1 DEF Receive
<1>3. /\ Taken("dev", ReceivedAt("dev"), tx["dev"])
      /\ tx' = [tx EXCEPT !["dev"] = Answer(tx["dev"], ReceivedAt("dev").done)]
      /\ ArmDevice(wheel, Deadline("dev", ReceivedAt("dev")),
                   Answer(tx["dev"], ReceivedAt("dev").done) # tx["dev"] /\ TxIdle(tx["dev"]))
  BY <1>1, Zenon DEF Receive, ReceivedAt
<1> QED BY <1>2, <1>3 DEF Receive

(* receive_sense keeps the types.                                           *)
LEMMA ReceiveTyped ==
  ASSUME TypeOK, NEW x \in Ends, Receive(x)
  PROVE  TypeOK'
<1>0. "host" \in Ends /\ "dev" \in Ends /\ Far("host") = "dev" /\ Far("dev") = "host"
      /\ (x = "host" \/ x = "dev")
  BY DEF Ends, Far
<1>1. CASE x = "host"
  <2>1. /\ wire["dev"] # Open /\ Taken("host", ReceivedAt("host"), tx["host"])
        /\ Arm("host", Deadline("host", ReceivedAt("host")))
        /\ tx' = tx /\ UNCHANGED <<wire, rail, pump, engine, now, cuts>>
    BY <1>1, ReceiveHostIs
  <2>2. ReceivedAt("host").done \in OneFrame /\ WithDone(ReceivedAt("host"), <<>>) \in RxState
    BY <1>0, <2>1, ReceivedAtTyped
  <2>3. rx' \in [Ends -> RxState] /\ host' \in HostState /\ Len(host'.pty) <= PtyRoom
    BY <2>1, <2>2, EndsTyped, TakenIs
  <2>4. Deadline("host", ReceivedAt("host")) \in Nat \cup {None}
    BY <1>0, <2>2, DeadlineOfDone
  <2>5. armed' \in [Ends -> Nat \cup {None}] /\ wheel' \subseteq Ends \X Nat
    BY <1>0, <2>1, <2>4, ArmIs
  <2> QED BY <2>1, <2>3, <2>5 DEF TypeOK
<1>2. CASE x = "dev"
  <2>1. /\ wire["host"] # Open /\ Taken("dev", ReceivedAt("dev"), tx["dev"])
        /\ tx' = [tx EXCEPT !["dev"] = Answer(tx["dev"], ReceivedAt("dev").done)]
        /\ ArmDevice(wheel, Deadline("dev", ReceivedAt("dev")),
                     Answer(tx["dev"], ReceivedAt("dev").done) # tx["dev"] /\ TxIdle(tx["dev"]))
        /\ UNCHANGED <<wire, rail, pump, engine, now, cuts>>
    BY <1>2, ReceiveDevIs
  <2>2. ReceivedAt("dev").done \in OneFrame /\ WithDone(ReceivedAt("dev"), <<>>) \in RxState
        /\ Good(ReceivedAt("dev").done) \in Seq(Byte)
    BY <1>0, <2>1, ReceivedAtTyped
  <2>3. rx' \in [Ends -> RxState] /\ host' \in HostState /\ Len(host'.pty) <= PtyRoom
    BY <2>1, <2>2, EndsTyped, TakenIs
  <2>4. Deadline("dev", ReceivedAt("dev")) \in Nat \cup {None}
    BY <1>0, <2>2, DeadlineOfDone
  <2>5. armed' \in [Ends -> Nat \cup {None}] /\ wheel' \subseteq Ends \X Nat
    <3> DEFINE k == Answer(tx["dev"], ReceivedAt("dev").done) # tx["dev"] /\ TxIdle(tx["dev"])
    <3>1. k \in BOOLEAN /\ ArmDevice(wheel, Deadline("dev", ReceivedAt("dev")), k)
      BY <2>1 DEF TxIdle
    <3> HIDE DEF k
    <3> QED BY <3>1, <2>4, ArmDeviceIs
  <2>6. tx' \in [Ends -> TxState]
    <3>1. tx \in [Ends -> TxState] /\ tx["dev"] \in TxState
      BY <1>0 DEF TypeOK
    <3>2. Answer(tx["dev"], ReceivedAt("dev").done) \in TxState
      BY <3>1, <2>2, AnswerIs
    <3> QED BY <3>1, <3>2, <2>1
  <2> QED BY <2>1, <2>3, <2>5, <2>6 DEF TypeOK
<1> QED BY <1>0, <1>1, <1>2

(* The services, by what they compute.                                      *)
DeviceOut == ServiceTx("dev", tx["dev"], now)
DevicePolled == Poll("dev", rx["dev"], now)
DeviceSent == Answer(DeviceOut.tx, DevicePolled.done)
DeviceNext == NextWake("dev", DeviceOut.tx, DevicePolled)
HostOut == ServiceTx("host", tx["host"], now)
HostPolled == Poll("host", rx["host"], now)
HostNext == NextWake("host", tx["host"], HostPolled)

DeviceServed(w) ==
  /\ engine = "loop" /\ Settled /\ w \in wheel /\ w[1] = "dev" /\ w[2] <= now
  /\ tx' = [tx EXCEPT !["dev"] = DeviceSent] /\ Taken("dev", DevicePolled, DeviceOut.tx)
  /\ wire' = IF DeviceOut.level = None THEN wire ELSE [wire EXCEPT !["dev"] = DeviceOut.level]
  /\ ArmDevice(wheel \ {w}, DeviceNext, TxIdle(DeviceOut.tx) /\ DeviceSent # DeviceOut.tx)
  /\ UNCHANGED <<rail, pump, engine, now, cuts>>

(* The device's service, taken apart.                                       *)
LEMMA ServeDeviceIs == ASSUME ServeDevice PROVE \E w : DeviceServed(w)
<1>1. PICK w \in wheel :
         /\ w[1] = "dev" /\ w[2] <= now
         /\ tx' = [tx EXCEPT !["dev"] = DeviceSent] /\ Taken("dev", DevicePolled, DeviceOut.tx)
         /\ wire' = IF DeviceOut.level = None THEN wire ELSE [wire EXCEPT !["dev"] = DeviceOut.level]
         /\ ArmDevice(wheel \ {w}, DeviceNext, TxIdle(DeviceOut.tx) /\ DeviceSent # DeviceOut.tx)
  BY Zenon DEF ServeDevice, DeviceOut, DevicePolled, DeviceSent, DeviceNext
<1>2. engine = "loop" /\ Settled /\ UNCHANGED <<rail, pump, engine, now, cuts>>
  BY Zenon DEF ServeDevice, Turn
<1>3. DeviceServed(w)
  BY <1>1, <1>2, Zenon DEF DeviceServed
<1> QED BY <1>3

(* What poll leaves is typed.                                               *)
LEMMA PolledTyped ==
  ASSUME NEW x \in Ends, NEW R \in RxState, NEW t \in Nat, NEW r, r = Poll(x, R, t)
  PROVE  r.done \in OneFrame /\ WithDone(r, <<>>) \in RxState /\ Good(r.done) \in Seq(Byte)
         /\ Deadline(x, r) \in Nat \cup {None} /\ Deadline(x, r) = Deadline(x, WithDone(r, <<>>))
<1>1. OneClosed(R, t)
  BY RxStateClosed
<1>2. r.done \in OneFrame /\ WithDone(r, <<>>) \in RxState
  BY <1>1, PollTyped
<1> QED BY <1>2, GoodType, DeadlineOfDone

(* The next wake is an instant or none.                                     *)
LEMMA NextWakeTyped ==
  ASSUME NEW x \in Ends, NEW T \in TxState, NEW r, Deadline(x, r) \in Nat \cup {None}
  PROVE  NextWake(x, T, r) \in Nat \cup {None} /\ Earliest(NextWake(x, T, r), Asked(T), Deadline(x, r))
<1>1. Asked(T) \in Nat \cup {None}
  BY TxIs DEF Asked
<1>2. Earliest(NextWake(x, T, r), Asked(T), Deadline(x, r))
  BY <1>1, NextWakeIs
<1> QED BY <1>2 DEF Earliest

(* The device's service keeps the types.                                    *)
LEMMA ServeDeviceTyped ==
  ASSUME TypeOK, ServeDevice
  PROVE  TypeOK'
<1>1. PICK w : DeviceServed(w)
  BY ServeDeviceIs
<1>2. /\ DevicePolled.done \in OneFrame /\ WithDone(DevicePolled, <<>>) \in RxState
      /\ Good(DevicePolled.done) \in Seq(Byte) /\ Deadline("dev", DevicePolled) \in Nat \cup {None}
  BY EndsTyped, PolledTyped DEF DevicePolled
<1>3. DeviceOut.tx \in TxState /\ DeviceOut.level \in Bits \cup {None}
  BY EndsTyped, ServiceTyped DEF DeviceOut
<1>4. DeviceNext \in Nat \cup {None}
  BY <1>2, <1>3, EndsTyped, NextWakeTyped DEF DeviceNext
<1>5. DeviceSent \in TxState
  BY <1>2, <1>3, AnswerIs DEF DeviceSent
<1>6. rx' \in [Ends -> RxState] /\ host' \in HostState /\ Len(host'.pty) <= PtyRoom
  BY <1>1, <1>2, <1>3, EndsTyped, TakenIs DEF DeviceServed
<1>7. armed' \in [Ends -> Nat \cup {None}] /\ wheel' \subseteq Ends \X Nat
  <2> DEFINE k == TxIdle(DeviceOut.tx) /\ DeviceSent # DeviceOut.tx
             l == wheel \ {w}
  <2>1. k \in BOOLEAN /\ l \subseteq wheel /\ ArmDevice(l, DeviceNext, k)
    BY <1>1 DEF DeviceServed, TxIdle
  <2> HIDE DEF k, l
  <2> QED BY <2>1, <1>4, ArmDeviceIs
<1>8. tx' \in [Ends -> TxState]
  BY <1>1, <1>5, EndsTyped DEF TypeOK, DeviceServed
<1>9. wire' \in [Ends -> Bits \cup {Open}]
  <2>1. wire \in [Ends -> Bits \cup {Open}]
    BY DEF TypeOK
  <2>2. CASE DeviceOut.level = None
    BY <2>1, <2>2, <1>1 DEF DeviceServed
  <2>3. CASE DeviceOut.level # None
    <3>1. wire' = [wire EXCEPT !["dev"] = DeviceOut.level] /\ DeviceOut.level \in Bits
      BY <2>3, <1>1, <1>3 DEF DeviceServed
    <3> QED BY <3>1, <2>1, EndsTyped
  <2> QED BY <2>2, <2>3
<1>10. UNCHANGED <<rail, pump, engine, now, cuts>>
  BY <1>1 DEF DeviceServed
<1> QED BY <1>6, <1>7, <1>8, <1>9, <1>10 DEF TypeOK

(* The host's service, up to its first lock, keeps the types.               *)
LEMMA ServeHostTyped == ASSUME TypeOK, ServeHost PROVE TypeOK'
<1>1. armed' \in [Ends -> Nat \cup {None}]
  <2>1. armed' = [armed EXCEPT !["host"] = IF armed["host"] # None /\ armed["host"] <= now THEN None ELSE armed["host"]]
    BY DEF ServeHost
  <2> QED BY <2>1, EndsTyped DEF TypeOK
<1>2. wheel' \subseteq Ends \X Nat
  BY DEF ServeHost, TypeOK
<1> QED BY <1>1, <1>2 DEF ServeHost, TypeOK

(* Rail::port gives a level, or none.                                       *)
LEMMA PortTyped == ASSUME NEW x, NEW v \in Bits, NEW rl PROVE Port(x, v, rl) \in Bits \cup {Open}
  BY DEF Port

(* The transmitter's half of the host's service, taken apart.               *)
LEMMA ServeHostTxIs ==
  ASSUME ServeHostTx
  PROVE  /\ engine = "tx" /\ engine' = "rx" /\ tx' = [tx EXCEPT !["host"] = HostOut.tx]
         /\ wire' = IF HostOut.level = None THEN wire
                    ELSE [wire EXCEPT !["host"] = Port("host", HostOut.level, rail)]
         /\ UNCHANGED <<rx, armed, wheel, rail, pump, host, now, cuts>>
  BY Zenon DEF ServeHostTx, HostOut

(* It keeps the types.                                                      *)
LEMMA ServeHostTxTyped == ASSUME TypeOK, ServeHostTx PROVE TypeOK'
<1>1. HostOut.tx \in TxState /\ HostOut.level \in Bits \cup {None}
  BY EndsTyped, ServiceTyped DEF HostOut
<1>2. tx' \in [Ends -> TxState]
  BY <1>1, ServeHostTxIs, EndsTyped DEF TypeOK
<1>3. wire' \in [Ends -> Bits \cup {Open}]
  <2>1. wire \in [Ends -> Bits \cup {Open}]
    BY DEF TypeOK
  <2>2. CASE HostOut.level = None
    BY <2>1, <2>2, ServeHostTxIs
  <2>3. CASE HostOut.level # None
    <3>1. wire' = [wire EXCEPT !["host"] = Port("host", HostOut.level, rail)]
      BY <2>3, ServeHostTxIs
    <3>2. Port("host", HostOut.level, rail) \in Bits \cup {Open}
      BY <2>3, <1>1, PortTyped
    <3> QED BY <3>1, <3>2, <2>1, EndsTyped
  <2> QED BY <2>2, <2>3
<1> QED BY <1>2, <1>3, ServeHostTxIs DEF TypeOK

(* The receiver's half of the host's service, taken apart.                  *)
LEMMA ServeHostRxIs ==
  ASSUME ServeHostRx
  PROVE  /\ engine = "rx" /\ engine' = "loop" /\ Taken("host", HostPolled, tx["host"]) /\ Arm("host", HostNext)
         /\ UNCHANGED <<tx, wire, rail, pump, now, cuts>>
  BY Zenon DEF ServeHostRx, HostPolled, HostNext

(* What the host's poll leaves is typed.                                    *)
LEMMA HostPolledTyped ==
  ASSUME TypeOK
  PROVE  /\ HostPolled.done \in OneFrame /\ WithDone(HostPolled, <<>>) \in RxState
         /\ Deadline("host", HostPolled) \in Nat \cup {None}
         /\ Deadline("host", HostPolled) = Deadline("host", WithDone(HostPolled, <<>>))
         /\ HostNext \in Nat \cup {None} /\ Earliest(HostNext, Asked(tx["host"]), Deadline("host", HostPolled))
<1>1. /\ HostPolled.done \in OneFrame /\ WithDone(HostPolled, <<>>) \in RxState
      /\ Deadline("host", HostPolled) \in Nat \cup {None}
      /\ Deadline("host", HostPolled) = Deadline("host", WithDone(HostPolled, <<>>))
  <2> DEFINE R == rx["host"]
             t == now
             r == HostPolled
  <2>1. R \in RxState /\ t \in Nat /\ r = Poll("host", R, t) /\ "host" \in Ends
    BY EndsTyped DEF HostPolled
  <2> HIDE DEF R, t, r
  <2>2. r.done \in OneFrame /\ WithDone(r, <<>>) \in RxState
        /\ Deadline("host", r) \in Nat \cup {None} /\ Deadline("host", r) = Deadline("host", WithDone(r, <<>>))
    BY <2>1, PolledTyped
  <2> QED BY <2>2 DEF r
<1>2. HostNext \in Nat \cup {None} /\ Earliest(HostNext, Asked(tx["host"]), Deadline("host", HostPolled))
  BY <1>1, EndsTyped, NextWakeTyped DEF HostNext
<1> QED BY <1>1, <1>2

(* The receiver's half keeps the types.                                     *)
LEMMA ServeHostRxTyped == ASSUME TypeOK, ServeHostRx PROVE TypeOK'
<1>1. HostPolled.done \in OneFrame /\ WithDone(HostPolled, <<>>) \in RxState /\ HostNext \in Nat \cup {None}
  BY HostPolledTyped
<1>2. rx' \in [Ends -> RxState] /\ host' \in HostState /\ Len(host'.pty) <= PtyRoom
  BY <1>1, EndsTyped, TakenIs, ServeHostRxIs
<1>3. armed' \in [Ends -> Nat \cup {None}] /\ wheel' \subseteq Ends \X Nat
  BY <1>1, EndsTyped, ArmIs, ServeHostRxIs
<1> QED BY <1>2, <1>3, ServeHostRxIs DEF TypeOK

(* A sense of the host's rail.                                              *)
SensedTx(rl) ==
  IF rl.vio = "on" THEN [tx["host"] EXCEPT !.enabled = TRUE]
  ELSE [enabled |-> FALSE, pending |-> <<>>, bits |-> <<>>, due |-> None]

(* A sense of the rail, taken apart.                                        *)
LEMMA SensedIs ==
  ASSUME TypeOK, NEW rl, Sensed(rl)
  PROVE  /\ rail' = rl /\ UNCHANGED <<rx, armed, wheel, pump, host, engine, now>>
         /\ tx' = [tx EXCEPT !["host"] = IF (rl.vio = "on") = tx["host"].enabled THEN tx["host"] ELSE SensedTx(rl)]
         /\ wire' = IF SensedTx(rl).enabled # tx["host"].enabled \/ TxIdle(SensedTx(rl))
                    THEN [wire EXCEPT !["host"] = Port("host", 1, rl)] ELSE wire
         /\ tx' \in [Ends -> TxState] /\ wire' \in [Ends -> Bits \cup {Open}]
<1>1. /\ rail' = rl /\ UNCHANGED <<rx, armed, wheel, pump, host, engine, now>>
      /\ tx' = [tx EXCEPT !["host"] = IF (rl.vio = "on") = tx["host"].enabled THEN tx["host"] ELSE SensedTx(rl)]
      /\ wire' = IF SensedTx(rl).enabled # tx["host"].enabled \/ TxIdle(SensedTx(rl))
                 THEN [wire EXCEPT !["host"] = Port("host", 1, rl)] ELSE wire
  BY Zenon DEF Sensed, SensedTx
<1>2. SensedTx(rl) \in TxState
  <2>1. tx["host"] \in TxState
    BY EndsTyped
  <2>2. <<>> \in Seq(Byte) /\ <<>> \in Seq(Bits)
    BY EmptySeq
  <2> QED BY <2>1, <2>2 DEF SensedTx, TxState
<1>3. tx' \in [Ends -> TxState]
  BY <1>1, <1>2, EndsTyped DEF TypeOK
<1>4. wire' \in [Ends -> Bits \cup {Open}]
  <2>1. 1 \in Bits
    BY DEF Bits
  <2>2. Port("host", 1, rl) \in Bits \cup {Open}
    BY <2>1, PortTyped
  <2>3. wire' = wire \/ wire' = [wire EXCEPT !["host"] = Port("host", 1, rl)]
    BY <1>1
  <2> QED BY <2>2, <2>3, EndsTyped DEF TypeOK
<1> QED BY <1>1, <1>3, <1>4

(* A sense of the rail, and the loss of it, keep the types.                 *)
LEMMA SenseTyped == ASSUME TypeOK, SenseGnd \/ SenseVio \/ CutVio PROVE TypeOK'
<1>1. ASSUME NEW rl \in RailState, Sensed(rl), cuts' \in Nat PROVE TypeOK'
  BY <1>1, SensedIs DEF TypeOK
<1>2. rail \in RailState /\ cuts \in Nat
  BY DEF TypeOK
<1>3. CASE SenseGnd
  <2> DEFINE rl == [rail EXCEPT !.gnd = TRUE]
  <2>1. rl \in RailState
    BY <1>2 DEF RailState
  <2>2. Sensed(rl) /\ cuts' \in Nat
    BY <1>2, <1>3 DEF SenseGnd
  <2> HIDE DEF rl
  <2> QED BY <2>1, <2>2, <1>1
<1>4. CASE SenseVio
  <2> DEFINE rl == [rail EXCEPT !.vio = "on"]
  <2>1. rl \in RailState
    BY <1>2 DEF RailState
  <2>2. Sensed(rl) /\ cuts' \in Nat
    BY <1>2, <1>4 DEF SenseVio
  <2> HIDE DEF rl
  <2> QED BY <2>1, <2>2, <1>1
<1>5. CASE CutVio
  <2> DEFINE rl == [rail EXCEPT !.vio = "off"]
  <2>1. rl \in RailState
    BY <1>2 DEF RailState
  <2>2. Sensed(rl) /\ cuts' \in Nat
    BY <1>2, <1>5 DEF CutVio
  <2> HIDE DEF rl
  <2> QED BY <2>1, <2>2, <1>1
<1> QED BY <1>3, <1>4, <1>5

(* Time goes to the least wake.                                             *)
Least(S, n) == n \in S /\ \A m \in S : n <= m

(* A set of instants with a member has a least one.                         *)
LEMMA LeastIs ==
  ASSUME NEW S, S \subseteq Nat, S # {}
  PROVE  \E n : Least(S, n)
<1> DEFINE R == {ss \in Nat \X Nat : ss[1] < ss[2]}
<1>1. IsWellFoundedOn(R, Nat)
  BY NatLessThanWellFounded DEF OpToRel
<1> HIDE DEF R
<1>2. PICK x \in S : \A y \in S : ~(<<y, x>> \in R)
  BY <1>1, WFMin, Zenon
<1>3. ASSUME NEW y \in S PROVE x <= y
  <2>1. x \in Nat /\ y \in Nat
    OBVIOUS
  <2>2. ~(y < x)
    BY <1>2, <2>1 DEF R
  <2> QED BY <2>1, <2>2
<1>4. Least(S, x)
  BY <1>3 DEF Least
<1> QED BY <1>4

Instants == {w[2] : w \in wheel}

(* The clock moves to the first wake.                                       *)
LEMMA AdvanceIs ==
  ASSUME TypeOK, Advance
  PROVE  /\ engine = "loop" /\ Settled /\ Least(Instants, now') /\ now' \in Nat /\ now <= now'
         /\ \A w \in wheel : w[2] > now /\ w[2] \in Nat /\ now' <= w[2]
         /\ UNCHANGED <<tx, rx, armed, wheel, wire, rail, pump, host, engine, cuts>>
<1>1. wheel \subseteq Ends \X Nat /\ now \in Nat
  BY DEF TypeOK
<1>2. wheel # {} /\ (\A w \in wheel : w[2] > now) /\ engine = "loop" /\ Settled
  BY DEF Advance, Turn
<1>3. Instants \subseteq Nat /\ Instants # {}
  BY <1>1, <1>2 DEF Instants
<1>4. now' = CHOOSE t \in Instants : \A w \in wheel : t <= w[2]
  BY Zenon DEF Advance, Instants
<1>5. PICK n : Least(Instants, n)
  BY <1>3, LeastIs
<1>6. n \in Instants /\ \A w \in wheel : n <= w[2]
  BY <1>5 DEF Least, Instants
<1>7. now' \in Instants /\ \A w \in wheel : now' <= w[2]
  BY <1>4, <1>6
<1>8. Least(Instants, now')
  BY <1>7 DEF Least, Instants
<1>9. PICK w \in wheel : now' = w[2]
  BY <1>7 DEF Instants
<1>10. now' \in Nat /\ now <= now'
  BY <1>1, <1>2, <1>9
<1>11. \A u \in wheel : u[2] \in Nat
  BY <1>1
<1> QED BY <1>2, <1>7, <1>8, <1>10, <1>11 DEF Advance

(* The clock moving keeps the types.                                        *)
LEMMA AdvanceTyped == ASSUME TypeOK, Advance PROVE TypeOK'
<1>1. now' \in Nat /\ UNCHANGED <<tx, rx, armed, wheel, wire, rail, pump, host, engine, cuts>>
  BY AdvanceIs
<1> QED BY <1>1 DEF TypeOK

(* The pump and the host's program.                                         *)
LEMMA PumpIs ==
  ASSUME TypeOK
  PROVE  /\ pump.pc \in {"loop", "check", "append", "arm", "schedule"} /\ pump.bytes \in Seq(Byte)
         /\ pump.at \in Nat \cup {None} /\ Len(pump.bytes) \in Nat
         /\ host \in HostState /\ Len(host.pty) <= PtyRoom
<1>1. pump \in PumpState /\ host \in HostState /\ Len(host.pty) <= PtyRoom
  BY DEF TypeOK
<1>2. pump.bytes \in Seq(Byte)
  BY <1>1 DEF PumpState
<1> QED BY <1>1, <1>2, LenProperties DEF PumpState

(* The pump's drain keeps the types.                                        *)
LEMMA PumpDrainTyped == ASSUME TypeOK, PumpDrain PROVE TypeOK'
<1>1. Good(<<>>) \in Seq(Byte)
  BY GoodNone, EmptySeq
<1>2. host' = Drain(host, <<>>)
  BY DEF PumpDrain
<1>3. host' \in HostState /\ Len(host'.pty) <= PtyRoom
  BY <1>1, <1>2, PumpIs, DrainTyped
<1> QED BY <1>3 DEF TypeOK, PumpDrain

(* How much the pump reads.                                                 *)
ReadRoom == IF RailKnown THEN QueueMax - Len(tx["host"].pending) ELSE 0
ReadCount == Lesser(ReadRoom, Len(host.inbox))

(* What the pump reads, and what it leaves in the PTY.                      *)
LEMMA PumpReadIs ==
  ASSUME TypeOK, PumpRead
  PROVE  /\ pump.pc = "loop" /\ ReadCount \in Nat /\ ReadCount > 0 /\ ReadCount <= Len(host.inbox)
         /\ RailKnown /\ ReadCount <= QueueMax - Len(tx["host"].pending)
         /\ Len(host.inbox) \in Nat /\ host.inbox \in Seq(Byte)
         /\ pump' = [pump EXCEPT !.pc = "check", !.bytes = SubSeq(host.inbox, 1, ReadCount)]
         /\ host' = [host EXCEPT !.inbox = SubSeq(host.inbox, ReadCount + 1, Len(host.inbox))]
         /\ UNCHANGED <<tx, rx, armed, wheel, wire, rail, engine, now, cuts>>
<1>1. Len(tx["host"].pending) \in Nat /\ QueueMax \in Nat
  <2>1. tx["host"].pending \in Seq(Byte)
    BY EndsTyped, TxIs
  <2> QED BY <2>1, LenProperties, Constants
<1>2. Len(host.inbox) \in Nat /\ host.inbox \in Seq(Byte)
  BY PumpIs, HostFields
<1>3. /\ pump.pc = "loop" /\ ReadCount > 0
      /\ pump' = [pump EXCEPT !.pc = "check", !.bytes = SubSeq(host.inbox, 1, ReadCount)]
      /\ host' = [host EXCEPT !.inbox = SubSeq(host.inbox, ReadCount + 1, Len(host.inbox))]
      /\ UNCHANGED <<tx, rx, armed, wheel, wire, rail, engine, now, cuts>>
  BY Zenon DEF PumpRead, ReadCount, ReadRoom, TxRoom
<1> DEFINE i == Len(host.inbox)
           p == Len(tx["host"].pending)
<1>4. ReadCount = Lesser(IF RailKnown THEN QueueMax - p ELSE 0, i) /\ i \in Nat /\ p \in Nat /\ QueueMax \in Nat
  BY <1>1, <1>2 DEF ReadCount, ReadRoom
<1> HIDE DEF i, p
<1>5. RailKnown /\ ReadCount \in Nat /\ ReadCount <= i /\ ReadCount <= QueueMax - p
  BY <1>3, <1>4 DEF Lesser
<1> QED BY <1>2, <1>3, <1>5 DEF i, p

(* The host with a shorter inbox is typed.                                  *)
LEMMA WithInboxTyped ==
  ASSUME NEW h \in HostState, NEW v \in Seq(Byte), NEW g, g = [h EXCEPT !.inbox = v]
  PROVE  /\ g \in HostState /\ g.inbox = v /\ g.sent = h.sent /\ g.unsent = h.unsent /\ g.pty = h.pty
         /\ g.outbound = h.outbound /\ g.got = h.got /\ g.dropped = h.dropped
  BY DEF HostState

(* The pump's read keeps the types.                                         *)
LEMMA PumpReadTyped ==
  ASSUME TypeOK, PumpRead
  PROVE  TypeOK' /\ SubSeq(host.inbox, 1, ReadCount) \in Seq(Byte) /\ Len(SubSeq(host.inbox, 1, ReadCount)) = ReadCount
<1> DEFINE z == host.inbox
           l == Len(host.inbox)
           n == ReadCount
           a == SubSeq(host.inbox, 1, ReadCount)
           b == SubSeq(host.inbox, ReadCount + 1, Len(host.inbox))
<1>1. /\ z \in Seq(Byte) /\ l \in Nat /\ l = Len(z) /\ n \in Nat /\ n > 0 /\ n <= l
      /\ a = SubSeq(z, 1, n) /\ b = SubSeq(z, n + 1, l)
      /\ pump' = [pump EXCEPT !.pc = "check", !.bytes = a] /\ host' = [host EXCEPT !.inbox = b]
  BY PumpReadIs
<1>2. UNCHANGED <<tx, rx, armed, wheel, wire, rail, engine, now, cuts>>
  BY PumpReadIs
<1> HIDE DEF z, l, n, a, b
<1>3. a \in Seq(Byte) /\ Len(a) = n /\ b \in Seq(Byte)
  <2> DEFINE m == n + 1
             o == 1
  <2>1. m \in Nat \ {0} /\ m <= l + 1 /\ o \in Nat \ {0} /\ o <= n + 1 /\ (n + 1) - o = n /\ l <= Len(z) /\ n <= Len(z)
    BY <1>1
  <2>2. a = SubSeq(z, o, n) /\ b = SubSeq(z, m, l)
    BY <1>1
  <2> HIDE DEF m, o
  <2>3. a \in Seq(Byte) /\ Len(a) = (n + 1) - o
    BY <2>1, <2>2, <1>1, SubTyped
  <2>4. b \in Seq(Byte)
    BY <2>1, <2>2, <1>1, SubTyped
  <2> QED BY <2>1, <2>3, <2>4
<1>4. host' \in HostState /\ host'.pty = host.pty
  <2> DEFINE h == host
             g == host'
  <2>1. h \in HostState /\ b \in Seq(Byte) /\ g = [h EXCEPT !.inbox = b]
    BY <1>1, <1>3, PumpIs
  <2> HIDE DEF h, g
  <2>2. g \in HostState /\ g.pty = h.pty
    BY <2>1, WithInboxTyped
  <2> QED BY <2>2 DEF h, g
<1>5. pump' \in PumpState /\ pump'.pc = "check"
  BY <1>1, <1>3 DEF TypeOK, PumpState
<1>6. TypeOK'
  BY <1>2, <1>4, <1>5 DEF TypeOK
<1> QED BY <1>3, <1>6 DEF a, n

(* The look at the enable keeps the types.                                  *)
LEMMA PumpCheckTyped == ASSUME TypeOK, PumpCheck PROVE TypeOK'
<1>0. pump \in PumpState /\ host \in HostState /\ Len(host.pty) <= PtyRoom /\ Len(pump.bytes) \in Nat
  BY PumpIs DEF TypeOK
<1>1. CASE tx["host"].enabled
  <2>1. pump' = [pump EXCEPT !.pc = "append"] /\ host' = host
        /\ UNCHANGED <<tx, rx, armed, wheel, wire, rail, engine, now, cuts>>
    BY <1>1 DEF PumpCheck
  <2>2. pump' \in PumpState /\ pump'.pc = "append"
    BY <2>1, <1>0 DEF PumpState
  <2> QED BY <2>1, <2>2 DEF TypeOK
<1>2. CASE ~tx["host"].enabled
  <2>1. pump' = [pump EXCEPT !.pc = "loop", !.bytes = <<>>]
        /\ host' = [host EXCEPT !.shed = host.shed + Len(pump.bytes)]
        /\ UNCHANGED <<tx, rx, armed, wheel, wire, rail, engine, now, cuts>>
    BY <1>2, Zenon DEF PumpCheck
  <2>2. pump' \in PumpState /\ pump'.pc = "loop"
    <3>1. <<>> \in Seq(Byte)
      BY EmptySeq
    <3> QED BY <2>1, <3>1, <1>0 DEF PumpState
  <2>3. host' \in HostState /\ host'.pty = host.pty
    <3> DEFINE v == host.shed + Len(pump.bytes)
    <3>1. v \in Nat
      <4>1. host.shed \in Nat
        BY <1>0, HostFields
      <4> QED BY <4>1, <1>0, NatSum
    <3>2. host' = [host EXCEPT !.shed = v]
      BY <2>1
    <3> HIDE DEF v
    <3> DEFINE h == host
               g == host'
    <3>3. h \in HostState /\ g = [h EXCEPT !.shed = v]
      BY <3>2, <1>0
    <3> HIDE DEF h, g
    <3>4. g \in HostState /\ g.pty = h.pty
      BY <3>1, <3>3, WithShedTyped
    <3> QED BY <3>4 DEF h, g
  <2> QED BY <2>1, <2>2, <2>3 DEF TypeOK
<1> QED BY <1>1, <1>2

(* How much the pump appends.                                               *)
AppendCount == Accepted(tx["host"], pump.bytes)
Appended == SubSeq(pump.bytes, 1, AppendCount)

(* transmit under the transmitter's lock, taken apart.                      *)
LEMMA PumpAppendIs ==
  ASSUME PumpAppend
  PROVE  /\ pump.pc = "append"
         /\ tx' = [tx EXCEPT !["host"] = WithPending(tx["host"], tx["host"].pending \o Appended)]
         /\ pump' = [pump EXCEPT !.pc = IF TxIdle(tx["host"]) /\ AppendCount > 0 THEN "arm" ELSE "loop",
                                 !.bytes = <<>>]
         /\ host' = Shed(host, tx["host"], pump.bytes)
         /\ UNCHANGED <<rx, armed, wheel, wire, rail, engine, now, cuts>>
<1>1. Transmit(tx["host"], pump.bytes) = WithPending(tx["host"], tx["host"].pending \o Appended)
  BY DEF Transmit, WithPending, AppendCount, Appended
<1> QED BY <1>1, Zenon DEF PumpAppend, AppendCount

(* A transmitter with bytes appended is typed.                              *)
LEMMA AppendedTyped ==
  ASSUME TypeOK
  PROVE  /\ AppendCount \in Int /\ AppendCount <= Len(pump.bytes) /\ Appended \in Seq(Byte)
         /\ tx["host"].pending \o Appended \in Seq(Byte)
         /\ Len(pump.bytes) + Len(tx["host"].pending) <= QueueMax =>
              AppendCount = Len(pump.bytes) /\ Appended = pump.bytes
<1> DEFINE z == pump.bytes
           s == tx["host"]
<1>1. z \in Seq(Byte) /\ s \in TxState /\ s.pending \in Seq(Byte)
  BY EndsTyped, TxIs
<1> HIDE DEF z, s
<1>2. /\ Accepted(s, z) \in Int /\ Accepted(s, z) <= Len(z) /\ SubSeq(z, 1, Accepted(s, z)) \in Seq(Byte)
      /\ Len(z) + Len(s.pending) <= QueueMax => Accepted(s, z) = Len(z) /\ SubSeq(z, 1, Accepted(s, z)) = z
  BY <1>1, AcceptedIs DEF Took
<1>3. s.pending \o SubSeq(z, 1, Accepted(s, z)) \in Seq(Byte)
  BY <1>1, <1>2, ConcatProperties
<1> QED BY <1>2, <1>3 DEF z, s, AppendCount, Appended

(* transmit under the lock keeps the types.                                 *)
LEMMA PumpAppendTyped ==
  ASSUME TypeOK, PumpAppend
  PROVE  /\ TypeOK' /\ pump'.bytes = <<>> /\ pump'.at = pump.at
         /\ pump'.pc = IF TxIdle(tx["host"]) /\ AppendCount > 0 THEN "arm" ELSE "loop"
         /\ tx'["dev"] = tx["dev"] /\ tx'["host"].pending = tx["host"].pending \o Appended
         /\ tx'["host"].bits = tx["host"].bits /\ tx'["host"].due = tx["host"].due
         /\ tx'["host"].enabled = tx["host"].enabled
         /\ host'.sent = host.sent /\ host'.unsent = host.unsent /\ host'.inbox = host.inbox
         /\ host'.pty = host.pty /\ host'.got = host.got /\ host'.outbound = host.outbound
         /\ host'.dropped = host.dropped /\ host'.shed >= host.shed
         /\ AppendCount = Len(pump.bytes) => host'.shed = host.shed
<1> DEFINE p == tx["host"].pending \o Appended
           g == host'
           h == host
           z == pump.bytes
           T == tx["host"]
           U == tx'["host"]
           c == IF TxIdle(tx["host"]) /\ AppendCount > 0 THEN "arm" ELSE "loop"
<1>1. tx' = [tx EXCEPT !["host"] = WithPending(T, p)] /\ pump' = [pump EXCEPT !.pc = c, !.bytes = <<>>]
      /\ g = Shed(h, T, z) /\ UNCHANGED <<rx, armed, wheel, wire, rail, engine, now, cuts>>
  BY PumpAppendIs
<1>2. p \in Seq(Byte) /\ z \in Seq(Byte) /\ h \in HostState /\ pump \in PumpState /\ tx \in [Ends -> TxState]
      /\ "host" \in Ends /\ "dev" \in Ends /\ "host" # "dev" /\ <<>> \in Seq(Byte) /\ c \in {"arm", "loop"}
      /\ T = tx["host"] /\ U = tx'["host"] /\ T \in TxState
  BY AppendedTyped, PumpIs, EndsTyped, EmptySeq DEF TypeOK, Ends
<1> HIDE DEF p, g, h, z, c, T, U
<1>3. /\ g \in HostState /\ g.inbox = h.inbox /\ g.sent = h.sent /\ g.unsent = h.unsent /\ g.pty = h.pty
      /\ g.outbound = h.outbound /\ g.got = h.got /\ g.dropped = h.dropped /\ g.shed >= h.shed
      /\ Accepted(T, z) = Len(z) => g.shed = h.shed
  BY <1>1, <1>2, ShedIs DEF Took
<1>4. pump' \in PumpState /\ pump'.pc = c /\ pump'.bytes = <<>> /\ pump'.at = pump.at
  BY <1>1, <1>2 DEF PumpState
<1>5. U = WithPending(T, p) /\ tx'["dev"] = tx["dev"]
  BY <1>1, <1>2
<1>6. tx' = [tx EXCEPT !["host"] = WithPending(T, p)]
  BY <1>1
<1>7. WithPending(T, p) \in TxState /\ U.pending = p /\ U.bits = T.bits /\ U.due = T.due /\ U.enabled = T.enabled
  BY <1>2, <1>5 DEF WithPending, TxState
<1>8. tx' \in [Ends -> TxState]
  BY <1>2, <1>6, <1>7
<1>9. c # "schedule"
  BY <1>2
<1>10. TypeOK'
  BY <1>1, <1>3, <1>4, <1>8, <1>9 DEF TypeOK, g, h
<1>11. AppendCount = Len(pump.bytes) => host'.shed = host.shed
  BY <1>3 DEF AppendCount, T, z, g, h
<1> QED BY <1>3, <1>4, <1>5, <1>7, <1>10, <1>11 DEF p, g, h, c, T, U

(* arm's look at the remembered instant keeps the types.                    *)
LEMMA PumpArmTyped == ASSUME TypeOK, PumpArm PROVE TypeOK'
<1>0. pump \in PumpState /\ armed \in [Ends -> Nat \cup {None}] /\ now \in Nat /\ "host" \in Ends /\ now # None
  BY Known DEF TypeOK
<1>1. CASE armed["host"] = now
  <2>1. pump' = [pump EXCEPT !.pc = "loop"] /\ armed' = armed
    BY <1>1 DEF PumpArm
  <2>2. pump' \in PumpState /\ pump'.pc = "loop"
    BY <2>1, <1>0 DEF PumpState
  <2> QED BY <2>1, <2>2 DEF TypeOK, PumpArm
<1>2. CASE armed["host"] # now
  <2>1. pump' = [pump EXCEPT !.pc = "schedule", !.at = now] /\ armed' = [armed EXCEPT !["host"] = now]
    BY <1>2 DEF PumpArm
  <2>2. pump' \in PumpState /\ pump'.at = now
    BY <2>1, <1>0 DEF PumpState
  <2>3. armed' \in [Ends -> Nat \cup {None}]
    BY <2>1, <1>0
  <2>4. pump'.at # None
    BY <2>2, <1>0
  <2> QED BY <2>1, <2>2, <2>3, <2>4 DEF TypeOK, PumpArm
<1> QED BY <1>1, <1>2

(* arm's schedule keeps the types.                                          *)
LEMMA PumpScheduleTyped == ASSUME TypeOK, PumpSchedule PROVE TypeOK'
<1>0. pump \in PumpState /\ wheel \subseteq Ends \X Nat /\ "host" \in Ends /\ pump.pc = "schedule" /\ pump.at # None
  BY Known DEF TypeOK, PumpSchedule
<1>1. pump' \in PumpState /\ pump'.pc = "loop"
  BY <1>0 DEF PumpSchedule, PumpState
<1>2. wheel' \subseteq Ends \X Nat
  <2>1. pump.at \in Nat
    BY <1>0, PumpIs
  <2> QED BY <2>1, <1>0 DEF PumpSchedule
<1> QED BY <1>1, <1>2 DEF TypeOK, PumpSchedule

Wrote(h, v, u) == [h EXCEPT !.inbox = v, !.unsent = u]
Read(h, v, u) == [h EXCEPT !.got = v, !.pty = u]

(* The host after a write is typed.                                         *)
LEMMA WroteTyped ==
  ASSUME NEW h \in HostState, NEW v \in Seq(Byte), NEW u \in Seq(Byte), NEW g,
         g = Wrote(h, v, u)
  PROVE  /\ g \in HostState /\ g.inbox = v /\ g.unsent = u /\ g.sent = h.sent /\ g.pty = h.pty
         /\ g.outbound = h.outbound /\ g.got = h.got /\ g.dropped = h.dropped
  BY DEF HostState, Wrote

(* The host after a read is typed.                                          *)
LEMMA ReadTyped ==
  ASSUME NEW h \in HostState, NEW v \in Seq(Byte), NEW u \in Seq(Byte), NEW g,
         g = Read(h, v, u)
  PROVE  /\ g \in HostState /\ g.got = v /\ g.pty = u /\ g.sent = h.sent /\ g.inbox = h.inbox
         /\ g.outbound = h.outbound /\ g.unsent = h.unsent /\ g.dropped = h.dropped
  BY DEF HostState, Read

(* A byte moved from one queue to the next.                                 *)
LEMMA AppendHead ==
  ASSUME NEW q \in Seq(Byte), NEW z \in Seq(Byte), z # <<>>
  PROVE  Append(q, Head(z)) \in Seq(Byte) /\ Tail(z) \in Seq(Byte) /\ Len(Tail(z)) <= Len(z)
<1>1. Tail(z) \in Seq(Byte) /\ Len(Tail(z)) = Len(z) - 1 /\ Head(z) \in Byte
  BY TailFacts
<1>2. Append(q, Head(z)) \in Seq(Byte)
  BY <1>1, AppendProperties
<1>3. Len(z) \in Nat
  BY LenProperties
<1> QED BY <1>1, <1>2, <1>3

(* The program's write keeps the types.                                     *)
LEMMA HostWritesTyped ==
  ASSUME TypeOK, HostWrites
  PROVE  /\ TypeOK' /\ host.unsent # <<>> /\ host'.inbox = Append(host.inbox, Head(host.unsent))
         /\ host'.unsent = Tail(host.unsent)
         /\ host'.sent = host.sent /\ host'.pty = host.pty /\ host'.outbound = host.outbound
         /\ host'.got = host.got /\ host'.dropped = host.dropped
<1> DEFINE h == host
           g == host'
           v == Append(host.inbox, Head(host.unsent))
           u == Tail(host.unsent)
<1>1. g = Wrote(h, v, u) /\ host.unsent # <<>>
  BY DEF HostWrites, Wrote
<1>2. h \in HostState /\ v \in Seq(Byte) /\ u \in Seq(Byte)
  <2>1. host \in HostState /\ host.inbox \in Seq(Byte) /\ host.unsent \in Seq(Byte)
    BY PumpIs, HostFields
  <2> QED BY <2>1, <1>1, AppendHead
<1> HIDE DEF h, g, v, u
<1>3. g \in HostState /\ g.inbox = v /\ g.unsent = u /\ g.sent = h.sent /\ g.pty = h.pty
      /\ g.outbound = h.outbound /\ g.got = h.got /\ g.dropped = h.dropped
  BY <1>1, <1>2, WroteTyped
<1>4. TypeOK'
  BY <1>3 DEF TypeOK, HostWrites, g, h
<1> QED BY <1>1, <1>3, <1>4 DEF g, h, v, u

(* The program's read keeps the types.                                      *)
LEMMA HostReadsTyped ==
  ASSUME TypeOK, HostReads
  PROVE  /\ TypeOK' /\ host.pty # <<>> /\ host'.got = Append(host.got, Head(host.pty))
         /\ host'.pty = Tail(host.pty)
         /\ host'.sent = host.sent /\ host'.inbox = host.inbox /\ host'.outbound = host.outbound
         /\ host'.unsent = host.unsent /\ host'.dropped = host.dropped
<1> DEFINE h == host
           g == host'
           v == Append(host.got, Head(host.pty))
           u == Tail(host.pty)
<1>1. g = Read(h, v, u) /\ host.pty # <<>>
  BY DEF HostReads, Read
<1>2. h \in HostState /\ v \in Seq(Byte) /\ u \in Seq(Byte) /\ Len(u) <= PtyRoom
  <2>1. host \in HostState /\ host.got \in Seq(Byte) /\ host.pty \in Seq(Byte) /\ Len(host.pty) <= PtyRoom
    BY PumpIs, HostFields
  <2>2. v \in Seq(Byte) /\ u \in Seq(Byte) /\ Len(u) <= Len(host.pty)
    BY <2>1, <1>1, AppendHead
  <2>3. Len(u) \in Nat /\ Len(host.pty) \in Nat /\ PtyRoom \in Nat
    BY <2>1, <2>2, LenProperties, Constants
  <2> DEFINE i == Len(u)
             j == Len(host.pty)
  <2>4. i \in Nat /\ j \in Nat /\ PtyRoom \in Nat /\ i <= j /\ j <= PtyRoom
    BY <2>1, <2>2, <2>3
  <2> HIDE DEF i, j
  <2>5. i <= PtyRoom
    BY <2>4
  <2> QED BY <2>1, <2>2, <2>5 DEF i
<1> HIDE DEF h, g, v, u
<1>3. g \in HostState /\ g.got = v /\ g.pty = u /\ g.sent = h.sent /\ g.inbox = h.inbox
      /\ g.outbound = h.outbound /\ g.unsent = h.unsent /\ g.dropped = h.dropped
  BY <1>1, <1>2, ReadTyped
<1>4. Len(host'.pty) <= PtyRoom
  BY <1>2, <1>3 DEF g
<1>5. TypeOK'
  BY <1>3, <1>4 DEF TypeOK, HostReads, g, h
<1> QED BY <1>1, <1>3, <1>5 DEF g, h, v, u

(* The bridge starts typed.                                                 *)
LEMMA InitTyped == ASSUME Init PROVE TypeOK
<1>0. <<>> \in Seq(Byte) /\ <<>> \in Seq(Bits) /\ Len(<<>>) = 0 /\ 0 \in Bits /\ 1 \in Bits
  BY EmptySeq DEF Bits
<1>1. host \in HostState /\ host.pty = <<>>
  <2>1. PICK s \in Sent : host = [sent |-> s, unsent |-> s, inbox |-> <<>>, outbound |-> <<>>, pty |-> <<>>,
                                  got |-> <<>>, dropped |-> 0, shed |-> 0]
    BY DEF Init
  <2>2. s \in Seq(Byte)
    BY SerialAssumption DEF Byte, Bits
  <2> QED BY <2>1, <2>2, <1>0 DEF HostState
<1>2. tx \in [Ends -> TxState]
  BY <1>0 DEF Init, TxState
<1>3. rx \in [Ends -> RxState]
  BY <1>0 DEF Init, RxState
<1>4. pump \in PumpState /\ pump.pc = "loop"
  BY <1>0 DEF Init, PumpState
<1>5. wire \in [Ends -> Bits \cup {Open}]
  BY <1>0 DEF Init
<1>6. rail \in RailState
  BY DEF Init, RailState
<1>7. armed \in [Ends -> Nat \cup {None}] /\ wheel \subseteq Ends \X Nat
  BY DEF Init
<1>8. Len(host.pty) <= PtyRoom
  BY <1>0, <1>1, Constants
<1> QED BY <1>1, <1>2, <1>3, <1>4, <1>5, <1>6, <1>7, <1>8 DEF TypeOK, Init

(* Every step keeps the types.                                              *)
LEMMA TypeStep == ASSUME TypeOK, [Next]_vars PROVE TypeOK'
<1>1. CASE \E x \in Ends : Receive(x)
  BY <1>1, ReceiveTyped
<1>2. CASE ServeDevice \/ ServeHost \/ ServeHostTx \/ ServeHostRx
  BY <1>2, ServeDeviceTyped, ServeHostTyped, ServeHostTxTyped, ServeHostRxTyped
<1>3. CASE SenseGnd \/ SenseVio \/ CutVio \/ Advance
  BY <1>3, SenseTyped, AdvanceTyped
<1>4. CASE Pump
  BY <1>4, PumpDrainTyped, PumpReadTyped, PumpCheckTyped, PumpAppendTyped, PumpArmTyped, PumpScheduleTyped
     DEF Pump
<1>5. CASE HostWrites \/ HostReads
  BY <1>5, HostWritesTyped, HostReadsTyped
<1>6. CASE UNCHANGED vars
  BY <1>6 DEF vars, TypeOK
<1> QED BY <1>1, <1>2, <1>3, <1>4, <1>5, <1>6 DEF Next, Engine

(* The two ends, the pump and the host keep their types, for any bytes,     *)
(* periods and limits: no decoder closes two frames in a step, and the PTY  *)
(* is never overfilled (uart.rs, drain_outbound).                           *)
THEOREM TypeOKAlways == Spec => []TypeOK
<1>1. Init => TypeOK
  BY InitTyped
<1>2. TypeOK /\ [Next]_vars => TypeOK'
  BY TypeStep
<1> QED BY <1>1, <1>2, PTL DEF Spec

(***************************************************************************)
(* While the supply holds and nothing was dropped or shed.                 *)
(***************************************************************************)
Chain == CarriedOn(host, tx["host"], tx["dev"], rx["host"], rx["dev"], wire["host"], wire["dev"], pump.bytes, now)

(* A wake of x in W by t.                                                   *)
HasWake(W, x, t) == \E w \in W : w[1] = x /\ w[2] <= t

TxWoken(W, x, T) == T.due # None => HasWake(W, x, T.due)
RxWoken(W, x, R) == R.start # None => HasWake(W, x, R.start + FrameNs(x))
Kicked(W, x, T, t) == T.pending # <<>> /\ T.due = None => HasWake(W, x, t)

WokenDev == TxWoken(wheel, "dev", tx["dev"]) /\ RxWoken(wheel, "dev", rx["dev"])
            /\ Kicked(wheel, "dev", tx["dev"], now)

WokenHost ==
  /\ engine = "loop" => TxWoken(wheel, "host", tx["host"]) /\ RxWoken(wheel, "host", rx["host"])
  /\ engine # "tx" => Kicked(wheel, "host", tx["host"], now) \/ pump.pc \in {"arm", "schedule"}
  /\ engine = "rx" /\ tx["host"].due # None => tx["host"].due > now

(* The instant remembered is on the wheel, or in the pump's hand.           *)
Remembered ==
  armed["host"] >= now => <<"host", armed["host"]>> \in wheel \/ (pump.pc = "schedule" /\ pump.at = armed["host"])

(* The pump holds bytes only inside transmit, and no more than there is     *)
(* room for.                                                                *)
PumpOK ==
  /\ pump.pc = "schedule" => pump.at <= now
  /\ pump.pc \in {"check", "append"} => RailKnown /\ pump.bytes # <<>>
       /\ Len(pump.bytes) + Len(tx["host"].pending) <= QueueMax
  /\ pump.pc \notin {"check", "append"} => pump.bytes = <<>>

(* The supply came and has not gone; before it is known nothing is let in.  *)
Supply ==
  /\ rail.vio \in {"unread", "on"} /\ (tx["host"].enabled <=> rail.vio = "on") /\ tx["dev"].enabled
  /\ RailKnown => wire["host"] # Open
  /\ ~RailKnown => wire["host"] = Open /\ TxIdle(tx["host"]) /\ pump.bytes = <<>> /\ pump.pc = "loop"
  /\ wire["dev"] # Open
  /\ engine # "loop" => wire["dev"] = rx["host"].level
  /\ engine = "tx" => wire["host"] \in {Open, rx["dev"].level}

(* The way is whole, what is on it has its wake, and the rail lets it by.   *)
Steady == Chain /\ WokenDev /\ WokenHost /\ Remembered /\ PumpOK /\ Supply

(* Wakes are kept, and found.                                               *)
LEMMA WakeKept ==
  ASSUME NEW W, NEW V, NEW x, NEW t, \A w \in W : w[1] = x => w \in V, NEW T, NEW R
  PROVE  /\ TxWoken(W, x, T) => TxWoken(V, x, T)
         /\ RxWoken(W, x, R) => RxWoken(V, x, R)
         /\ Kicked(W, x, T, t) => Kicked(V, x, T, t)
  BY DEF TxWoken, RxWoken, Kicked, HasWake

(* A wake put on the wheel is found.                                        *)
LEMMA WakeIn ==
  ASSUME NEW W, NEW x, NEW t \in Nat, NEW u \in Nat, <<x, t>> \in W, t <= u
  PROVE  HasWake(W, x, u)
<1>1. <<x, t>>[1] = x /\ <<x, t>>[2] = t
  OBVIOUS
<1> QED BY <1>1 DEF HasWake

(* A wire nothing is due on has no bits left to send.                       *)
LEMMA LinkQuietBits ==
  ASSUME NEW x, NEW T, NEW R, NEW W, NEW t, NEW a, NEW b, NEW s, Link(x, T, R, W, t, a, b, s), T.due = None
  PROVE  T.bits = <<>>
  BY DEF Link, Quiet, Sending, SendingBit, Driving

(* The same of both wires.                                                  *)
LEMMA ChainQuietBits ==
  ASSUME NEW h, NEW TH, NEW TD, NEW RH, NEW RD, NEW WH, NEW WD, NEW q, NEW t,
         CarriedOn(h, TH, TD, RH, RD, WH, WD, q, t)
  PROVE  (TH.due = None => TH.bits = <<>>) /\ (TD.due = None => TD.bits = <<>>)
<1>1. PICK b, d \in Nat : Carried(h, TH, TD, RH, RD, WH, WD, q, t, b, d)
  BY DEF CarriedOn
<1>2. Link("dev", TD, RH, WD, t, Behind(h), b, h.sent) /\ Link("host", TH, RD, WH, t, b + Len(TD.pending), d, h.sent)
  BY <1>1 DEF Carried
<1> QED BY <1>2, LinkQuietBits

(* The wakes of an end whose next instant is asked for.                     *)
LEMMA WokenByNext ==
  ASSUME NEW W, NEW x \in Ends, NEW T \in TxState, NEW r, NEW n, WithDone(r, <<>>) \in RxState,
         T.due # None => T.enabled, Earliest(n, Asked(T), Deadline(x, r)), n # None => <<x, n>> \in W
  PROVE  TxWoken(W, x, T) /\ RxWoken(W, x, WithDone(r, <<>>))
<1> DEFINE R == WithDone(r, <<>>)
<1>1. R.start = r.start /\ Deadline(x, r) = Deadline(x, R) /\ Deadline(x, R) \in Nat \cup {None}
      /\ (R.start # None => Deadline(x, R) = R.start + FrameNs(x)) /\ R \in RxState
  BY WithDoneStart, DeadlineIs DEF Deadline
<1>2. T.due \in Nat \cup {None} /\ R.start \in Nat \cup {None} /\ FrameNs(x) \in Nat
  BY <1>1, TxIs, RxFields, EndFacts
<1> DEFINE d == Deadline(x, r)
<1>3. d \in Nat \cup {None} /\ (R.start # None => d = R.start + FrameNs(x)) /\ Earliest(n, Asked(T), d)
  BY <1>1
<1> HIDE DEF d, R
<1>4. TxWoken(W, x, T)
  <2>1. SUFFICES ASSUME T.due # None PROVE HasWake(W, x, T.due)
    BY DEF TxWoken
  <2>2. Asked(T) = T.due /\ T.due \in Nat
    BY <2>1, <1>2 DEF Asked
  <2>3. n \in Nat /\ n <= T.due
    BY <1>3, <2>1, <2>2 DEF Earliest
  <2>4. n # None
    BY <2>3, Known
  <2> QED BY <2>2, <2>3, <2>4, WakeIn
<1>5. RxWoken(W, x, R)
  <2>1. SUFFICES ASSUME R.start # None PROVE HasWake(W, x, R.start + FrameNs(x))
    BY DEF RxWoken
  <2>2. d = R.start + FrameNs(x) /\ d \in Nat /\ d # None
    BY <2>1, <1>2, <1>3, Known
  <2>3. n \in Nat /\ n <= d
    BY <1>3, <2>2 DEF Earliest
  <2>4. n # None
    BY <2>3, Known
  <2> QED BY <2>2, <2>3, <2>4, WakeIn
<1> QED BY <1>4, <1>5 DEF R

(* What a receiver makes of its wire: a level, or the deadline.             *)
Reads(x, R, W, t, r) ==
  \/ W \in Bits /\ W # R.level /\ r = Poll(x, OnLevel(x, R, W, t), t)
  \/ W \in {Open, R.level} /\ r = Poll(x, R, t)

(* What a step of the receiver makes of a wire: the byte due, or none.      *)
LEMMA LinkReads ==
  ASSUME Tolerable, NEW x \in Ends, NEW T \in TxState, NEW R \in RxState, NEW W,
         NEW t \in Nat, NEW a \in Nat, NEW b \in Nat, NEW s \in Seq(Byte), b <= Len(s),
         Link(x, T, R, W, t, a, b, s), NEW r, Reads(Far(x), R, W, t, r)
  PROVE  Delivered(x, T, r, W, t, a, b, s)
<1>1. CASE W \in Bits /\ W # R.level /\ r = Poll(Far(x), OnLevel(Far(x), R, W, t), t)
  BY <1>1, LinkReceives
<1>2. CASE W \in {Open, R.level} /\ r = Poll(Far(x), R, t)
  BY <1>2, LinkPolls
<1> QED BY <1>1, <1>2 DEF Reads

(* The host's receiver takes a byte, or none, and the way stays whole.      *)
LEMMA CarriedReadsHost ==
  ASSUME Tolerable, NEW h \in HostState, Len(h.pty) <= PtyRoom, NEW TH \in TxState, NEW TD \in TxState,
         NEW RH \in RxState, NEW RD, NEW WH, NEW WD, NEW q \in Seq(Byte), NEW t \in Nat,
         CarriedOn(h, TH, TD, RH, RD, WH, WD, q, t), NEW r, Reads("host", RH, WD, t, r),
         NEW g, g = Drain(h, r.done), g.dropped = h.dropped
  PROVE  /\ CarriedOn(g, TH, TD, WithDone(r, <<>>), RD, WH, WD, q, t)
         /\ r.start # None => t < r.start + FrameNs("host")
<1>1. PICK b, d \in Nat : Carried(h, TH, TD, RH, RD, WH, WD, q, t, b, d)
  BY DEF CarriedOn
<1> DEFINE a == Behind(h)
           s == h.sent
<1>2. a \in Nat /\ b <= Len(s) /\ s \in Seq(Byte)
  BY <1>1, CarriedBounds, HostFields
<1>3. Link("dev", TD, RH, WD, t, a, b, s)
  BY <1>1 DEF Carried
<1>4. "dev" \in Ends /\ Far("dev") = "host"
  BY DEF Ends, Far
<1> HIDE DEF a, s
<1>5. Delivered("dev", TD, r, WD, t, a, b, s)
  BY <1>2, <1>3, <1>4, LinkReads
<1>6. Carried(g, TH, TD, WithDone(r, <<>>), RD, WH, WD, q, t, b, d)
  BY <1>1, <1>5, CarriedToHost DEF a, s
<1>7. r.start # None => t < r.start + FrameNs("host")
  BY <1>4, <1>5 DEF Delivered
<1> QED BY <1>6, <1>7 DEF CarriedOn

HeardAs(h, TH, TD, RH, WH, WD, q, t, r, U) ==
  /\ CarriedOn(h, TH, U, RH, WithDone(r, <<>>), WH, WD, q, t)
  /\ r.start # None => t < r.start + FrameNs("dev")
  /\ U \in TxState /\ U.due = TD.due /\ U.bits = TD.bits /\ U.enabled = TD.enabled
  /\ U.pending = TD.pending \o Good(r.done)

(* The device's receiver takes a byte and answers it, or none, and the way  *)
(* stays whole, where its queue has room for the answer.                    *)
LEMMA CarriedReadsDevice ==
  ASSUME Tolerable, NEW h \in HostState, NEW TH \in TxState, NEW TD \in TxState,
         NEW RH, NEW RD \in RxState, NEW WH, NEW WD, NEW q \in Seq(Byte), NEW t \in Nat,
         CarriedOn(h, TH, TD, RH, RD, WH, WD, q, t), NEW r, Reads("dev", RD, WH, t, r),
         Took(TD, Good(r.done)), NEW U, U = Answer(TD, r.done)
  PROVE  HeardAs(h, TH, TD, RH, WH, WD, q, t, r, U)
<1>1. PICK b, d \in Nat : Carried(h, TH, TD, RH, RD, WH, WD, q, t, b, d)
  BY DEF CarriedOn
<1> DEFINE c == b + Len(TD.pending)
           s == h.sent
<1>2. c \in Nat /\ d <= Len(s) /\ s \in Seq(Byte)
  BY <1>1, CarriedBounds, HostFields
<1>3. Link("host", TH, RD, WH, t, c, d, s)
  BY <1>1 DEF Carried
<1>4. "host" \in Ends /\ Far("host") = "dev"
  BY DEF Ends, Far
<1> HIDE DEF c, s
<1>5. Delivered("host", TH, r, WH, t, c, d, s)
  BY <1>2, <1>3, <1>4, LinkReads
<1>6. Good(r.done) \in Seq(Byte) /\ WithDone(r, <<>>) \in RxState
  BY <1>2, <1>5, HandedOver
<1>7. U \in TxState /\ U.due = TD.due /\ U.bits = TD.bits /\ U.enabled = TD.enabled
      /\ U.pending = TD.pending \o Good(r.done)
  BY <1>6, AnswerIs
<1>8. Carried(h, TH, U, RH, WithDone(r, <<>>), WH, WD, q, t, b, d)
  <2>1. Delivered("host", TH, r, WH, t, b + Len(TD.pending), d, h.sent)
    BY <1>5 DEF c, s
  <2> QED BY <1>1, <1>7, <2>1, CarriedToDevice
<1>9. r.start # None => t < r.start + FrameNs("dev")
  BY <1>4, <1>5 DEF Delivered
<1>10. CarriedOn(h, TH, U, RH, WithDone(r, <<>>), WH, WD, q, t)
  BY <1>8 DEF CarriedOn
<1> QED BY <1>7, <1>9, <1>10, Zenon DEF HeardAs

(* The host's end hears a level.                                            *)
LEMMA HostHears ==
  ASSUME Tolerable, TypeOK, Chain, NEW r, Reads("host", rx["host"], wire["dev"], now, r),
         Taken("host", r, tx["host"]), r.done \in OneFrame, WithDone(r, <<>>) \in RxState, host'.dropped = host.dropped,
         UNCHANGED <<tx, wire, pump, now>>
  PROVE  Chain' /\ rx'["host"] = WithDone(r, <<>>) /\ rx'["dev"] = rx["dev"]
         /\ (r.start # None => now < r.start + FrameNs("host"))
<1> DEFINE g == host'
<1>1. rx'["host"] = WithDone(r, <<>>) /\ rx'["dev"] = rx["dev"] /\ g = Drain(host, r.done)
  BY EndsTyped, TakenIs
<1>2. g.dropped = host.dropped
  OBVIOUS
<1> HIDE DEF g
<1>3. /\ CarriedOn(g, tx["host"], tx["dev"], WithDone(r, <<>>), rx["dev"], wire["host"], wire["dev"], pump.bytes, now)
      /\ r.start # None => now < r.start + FrameNs("host")
  BY <1>1, <1>2, EndsTyped, CarriedReadsHost DEF Chain
<1>4. Chain'
  BY <1>1, <1>3 DEF Chain, g
<1> QED BY <1>1, <1>3, <1>4

(* receive_sense at the host keeps the way whole and its wakes.             *)
LEMMA SteadyReceivesHost ==
  ASSUME Tolerable, TypeOK, Steady, Receive("host"), host'.dropped = host.dropped
  PROVE  Steady'
<1> DEFINE r == ReceivedAt("host")
           D == Deadline("host", r)
<1>1. /\ engine = "loop" /\ wire["dev"] # Open /\ wire["dev"] # rx["host"].level
      /\ Taken("host", r, tx["host"]) /\ Arm("host", D)
      /\ tx' = tx /\ UNCHANGED <<wire, rail, pump, engine, now, cuts>>
  BY ReceiveHostIs
<1>2. r.done \in OneFrame /\ WithDone(r, <<>>) \in RxState
  BY <1>1, EndsTyped, ReceivedAtTyped
<1>3. Reads("host", rx["host"], wire["dev"], now, r)
  <2>1. wire["dev"] \in Bits /\ Far("host") = "dev"
    BY <1>1, EndsTyped
  <2> QED BY <1>1, <2>1 DEF Reads, ReceivedAt
<1>4. D \in Nat \cup {None} /\ (r.start # None => D = r.start + FrameNs("host"))
      /\ WithDone(r, <<>>).start = r.start /\ r.start \in Nat \cup {None} /\ FrameNs("host") \in Nat
  <2>1. WithDone(r, <<>>).start = r.start /\ WithDone(r, <<>>).start \in Nat \cup {None}
    BY <1>2, WithDoneStart, RxFields
  <2> QED BY <2>1, <1>2, EndsTyped, DeadlineOfDone, EndFacts DEF Deadline
<1> HIDE DEF r, D
<1>5. Chain' /\ rx'["host"] = WithDone(r, <<>>) /\ rx'["dev"] = rx["dev"]
      /\ (r.start # None => now < r.start + FrameNs("host"))
  BY <1>1, <1>2, <1>3, HostHears DEF Steady
<1>6. /\ wheel \subseteq wheel'
      /\ \/ armed' = armed /\ wheel' = wheel /\ (D = None \/ armed["host"] = D)
         \/ armed'["host"] = D /\ <<"host", D>> \in wheel'
  BY <1>1, <1>4, EndsTyped, ArmIs
<1>7. now \in Nat /\ now' = now /\ engine' = engine /\ pump' = pump /\ rail' = rail /\ wire' = wire
  BY <1>1, EndsTyped
<1>8. WokenDev'
  BY <1>1, <1>5, <1>6, <1>7, WakeKept DEF Steady, WokenDev
<1>9. WokenHost'
  <2>1. TxWoken(wheel', "host", tx'["host"])
    BY <1>1, <1>6, WakeKept DEF Steady, WokenHost
  <2>2. RxWoken(wheel', "host", rx'["host"])
    <3>1. SUFFICES ASSUME r.start # None PROVE HasWake(wheel', "host", r.start + FrameNs("host"))
      BY <1>4, <1>5 DEF RxWoken
    <3>2. D = r.start + FrameNs("host") /\ D \in Nat /\ D # None /\ D > now
      BY <1>4, <1>5, <1>7, <3>1, Known
    <3>3. <<"host", D>> \in wheel'
      <4>1. CASE armed["host"] = D /\ wheel' = wheel
        <5>1. pump.pc = "schedule" => pump.at # D
          <6>1. pump.pc = "schedule" => pump.at <= now /\ pump.at \in Nat \cup {None}
            BY PumpIs DEF Steady, PumpOK
          <6> QED BY <6>1, <3>2, <1>7, Known
        <5>2. armed["host"] >= now
          BY <4>1, <3>2, <1>7
        <5> QED BY <4>1, <5>1, <5>2 DEF Steady, Remembered
      <4> QED BY <4>1, <1>6, <3>2
    <3> QED BY <3>2, <3>3, WakeIn
  <2>3. Kicked(wheel', "host", tx'["host"], now') \/ pump'.pc \in {"arm", "schedule"}
    BY <1>1, <1>6, <1>7, WakeKept DEF Steady, WokenHost
  <2> QED BY <1>1, <1>7, <2>1, <2>2, <2>3 DEF WokenHost
<1>10. Remembered'
  BY <1>1, <1>6, <1>7 DEF Steady, Remembered
<1>11. PumpOK'
  BY <1>1, <1>7 DEF Steady, PumpOK, RailKnown
<1>12. Supply'
  BY <1>1, <1>7 DEF Steady, Supply, RailKnown, TxIdle
<1> QED BY <1>5, <1>8, <1>9, <1>10, <1>11, <1>12 DEF Steady

(* What the device's end does, with the rest of the line as it stands.      *)
LEMMA DeviceHears ==
  ASSUME Tolerable, TypeOK, NEW T \in TxState, NEW V,
         CarriedOn(host, tx["host"], T, rx["host"], rx["dev"], wire["host"], V, pump.bytes, now),
         NEW r, Reads("dev", rx["dev"], wire["host"], now, r), Took(T, Good(r.done)),
         NEW U, U = Answer(T, r.done)
  PROVE  HeardAs(host, tx["host"], T, rx["host"], wire["host"], V, pump.bytes, now, r, U)
<1> DEFINE h == host
           TH == tx["host"]
           RH == rx["host"]
           RD == rx["dev"]
           W == wire["host"]
           q == pump.bytes
           t == now
<1>1. h \in HostState /\ TH \in TxState /\ RD \in RxState /\ q \in Seq(Byte) /\ t \in Nat
  BY EndsTyped
<1>2. CarriedOn(h, TH, T, RH, RD, W, V, q, t) /\ Reads("dev", RD, W, t, r)
  OBVIOUS
<1> HIDE DEF h, TH, RH, RD, W, q, t
<1>3. HeardAs(h, TH, T, RH, W, V, q, t, r, U)
  BY <1>1, <1>2, CarriedReadsDevice
<1> QED BY <1>3, Zenon DEF h, TH, RH, RD, W, q, t

(* The device's transmitter, served, has its wakes.                         *)
LEMMA DeviceSends ==
  ASSUME Tolerable, TypeOK, NEW T \in TxState, NEW W, W = rx["host"].level,
         CarriedOn(host, tx["host"], T, rx["host"], rx["dev"], wire["host"], W, pump.bytes, now),
         NEW out, out = ServiceTx("dev", T, now), NEW V, V = OnWire(out, W)
  PROVE  SentAs(host, tx["host"], out.tx, rx["host"], rx["dev"], wire["host"], V, pump.bytes, now, T, out.tx)
<1> DEFINE h == host
           TH == tx["host"]
           RH == rx["host"]
           RD == rx["dev"]
           WH == wire["host"]
           q == pump.bytes
           t == now
<1>1. h \in HostState /\ TH \in TxState /\ RH \in RxState /\ q \in Seq(Byte) /\ t \in Nat
  BY EndsTyped
<1>2. CarriedOn(h, TH, T, RH, RD, WH, W, q, t) /\ W = RH.level /\ out = ServiceTx("dev", T, t)
  OBVIOUS
<1> HIDE DEF h, TH, RH, RD, WH, q, t
<1>3. SentAs(h, TH, out.tx, RH, RD, WH, V, q, t, T, out.tx)
  BY <1>1, <1>2, CarriedServesDevice
<1> QED BY <1>3, Zenon DEF h, TH, RH, RD, WH, q, t

(* The device hears a level, and answers what it was given.                 *)
LEMMA SteadyReceivesDevice ==
  ASSUME Tolerable, TypeOK, Steady, Receive("dev"), host'.shed = host.shed
  PROVE  Steady'
<1> DEFINE r == ReceivedAt("dev")
           D == Deadline("dev", r)
           T == tx["dev"]
           U == Answer(tx["dev"], ReceivedAt("dev").done)
           k == U # T /\ TxIdle(T)
<1>1. /\ engine = "loop" /\ wire["host"] # Open /\ wire["host"] # rx["dev"].level
      /\ Taken("dev", r, T) /\ tx' = [tx EXCEPT !["dev"] = U] /\ ArmDevice(wheel, D, k)
      /\ UNCHANGED <<wire, rail, pump, engine, now, cuts>>
  BY ReceiveDevIs
<1>2. r.done \in OneFrame /\ WithDone(r, <<>>) \in RxState
  BY <1>1, EndsTyped, ReceivedAtTyped
<1>3. Reads("dev", rx["dev"], wire["host"], now, r)
  <2>1. wire["host"] \in Bits /\ Far("dev") = "host"
    BY <1>1, EndsTyped
  <2> QED BY <1>1, <2>1 DEF Reads, ReceivedAt
<1>4. D \in Nat \cup {None} /\ (r.start # None => D = r.start + FrameNs("dev"))
      /\ WithDone(r, <<>>).start = r.start /\ r.start \in Nat \cup {None} /\ FrameNs("dev") \in Nat
  <2>1. WithDone(r, <<>>).start = r.start /\ WithDone(r, <<>>).start \in Nat \cup {None}
    BY <1>2, WithDoneStart, RxFields
  <2> QED BY <2>1, <1>2, EndsTyped, DeadlineOfDone, EndFacts DEF Deadline
<1>5. k \in BOOLEAN /\ U = Answer(T, r.done) /\ T = tx["dev"] /\ (k <=> U # T /\ TxIdle(T))
  BY DEF TxIdle
<1> HIDE DEF r, D, U, k, T
<1>6. rx'["dev"] = WithDone(r, <<>>) /\ rx'["host"] = rx["host"] /\ host' = host /\ Took(T, Good(r.done))
  <2>1. T \in TxState /\ "dev" \in Ends /\ Far("dev") = "host" /\ "dev" # "host"
    BY <1>5, EndsTyped
  <2> QED BY <2>1, <1>1, <1>2, TakenIs
<1>7. tx'["dev"] = U /\ tx'["host"] = tx["host"]
  BY <1>1, EndsTyped DEF TypeOK
<1>8. now \in Nat /\ now' = now /\ engine' = engine /\ pump' = pump /\ rail' = rail /\ wire' = wire
  BY <1>1, EndsTyped
<1>9. /\ CarriedOn(host, tx["host"], U, rx["host"], WithDone(r, <<>>), wire["host"], wire["dev"], pump.bytes, now)
      /\ r.start # None => now < r.start + FrameNs("dev")
      /\ U \in TxState /\ U.due = T.due /\ U.bits = T.bits /\ U.enabled = T.enabled
      /\ U.pending = T.pending \o Good(r.done)
  <2>1. /\ host \in HostState /\ tx["host"] \in TxState /\ T \in TxState /\ rx["dev"] \in RxState
        /\ pump.bytes \in Seq(Byte) /\ now \in Nat
    BY <1>5, EndsTyped
  <2>2. CarriedOn(host, tx["host"], T, rx["host"], rx["dev"], wire["host"], wire["dev"], pump.bytes, now)
    BY <1>5 DEF Steady, Chain
  <2>3. U = Answer(T, r.done)
    BY <1>5
  <2>4. HeardAs(host, tx["host"], T, rx["host"], wire["host"], wire["dev"], pump.bytes, now, r, U)
    BY <1>3, <1>6, <2>1, <2>2, <2>3, DeviceHears
  <2> QED BY <2>4, Zenon DEF HeardAs
<1>10. Chain'
  BY <1>6, <1>7, <1>8, <1>9 DEF Chain
<1>11. /\ wheel \subseteq wheel' /\ armed'["host"] = armed["host"]
       /\ k => <<"dev", now>> \in wheel'
       /\ D # None => <<"dev", D>> \in wheel'
  BY <1>1, <1>4, <1>5, ArmDeviceIs
<1>12. WokenDev'
  <2>1. TxWoken(wheel', "dev", U)
    <3>1. TxWoken(wheel', "dev", T)
      BY <1>5, <1>11, WakeKept DEF Steady, WokenDev
    <3> QED BY <3>1, <1>9 DEF TxWoken
  <2>2. RxWoken(wheel', "dev", rx'["dev"])
    <3>1. SUFFICES ASSUME r.start # None PROVE HasWake(wheel', "dev", r.start + FrameNs("dev"))
      BY <1>4, <1>6 DEF RxWoken
    <3>2. D = r.start + FrameNs("dev") /\ D \in Nat /\ D # None
      BY <1>4, <3>1, Known
    <3> QED BY <3>2, <1>11, WakeIn
  <2>3. Kicked(wheel', "dev", U, now)
    <3>1. SUFFICES ASSUME U.pending # <<>>, U.due = None PROVE HasWake(wheel', "dev", now)
      BY DEF Kicked
    <3>2. CASE T.pending # <<>>
      <4>1. Kicked(wheel', "dev", T, now)
        BY <1>5, <1>11, WakeKept DEF Steady, WokenDev
      <4> QED BY <4>1, <3>1, <3>2, <1>9 DEF Kicked
    <3>3. CASE T.pending = <<>>
      <4>1. T.due = None /\ T.bits = <<>>
        BY <3>1, <1>5, <1>9, ChainQuietBits DEF Steady, Chain
      <4>2. k
        BY <4>1, <3>1, <3>3, <1>5 DEF TxIdle
      <4>3. <<"dev", now>> \in wheel'
        BY <4>2, <1>11
      <4> QED BY <4>3, <1>8, WakeIn
    <3> QED BY <3>2, <3>3
  <2> QED BY <1>7, <1>8, <2>1, <2>2, <2>3 DEF WokenDev
<1>13. WokenHost'
  BY <1>1, <1>6, <1>7, <1>8, <1>11, WakeKept DEF Steady, WokenHost
<1>14. Remembered'
  BY <1>8, <1>11 DEF Steady, Remembered
<1>15. PumpOK'
  BY <1>7, <1>8 DEF Steady, PumpOK, RailKnown
<1>16. Supply'
  BY <1>1, <1>5, <1>6, <1>7, <1>8, <1>9 DEF Steady, Supply, RailKnown, TxIdle
<1> QED BY <1>10, <1>12, <1>13, <1>14, <1>15, <1>16 DEF Steady

(* The device is served.                                                    *)
LEMMA SettledEnds ==
  ASSUME Settled
  PROVE  wire["host"] \in {Open, rx["dev"].level} /\ wire["dev"] \in {Open, rx["host"].level}
<1>1. "host" \in Ends /\ "dev" \in Ends /\ Far("host") = "dev" /\ Far("dev") = "host"
  BY DEF Ends, Far
<1> QED BY <1>1 DEF Settled

(* The device's service keeps the way whole and its wakes.                  *)
LEMMA SteadyServesDevice ==
  ASSUME Tolerable, TypeOK, Steady, ServeDevice, host'.shed = host.shed
  PROVE  Steady'
<1>1. PICK w : DeviceServed(w)
  BY ServeDeviceIs
<1> DEFINE T == tx["dev"]
           O == DeviceOut.tx
           out == DeviceOut
           r == DevicePolled
           U == DeviceSent
           n == DeviceNext
           k == TxIdle(DeviceOut.tx) /\ DeviceSent # DeviceOut.tx
           l == wheel \ {w}
           V == OnWire(DeviceOut, wire["dev"])
<1>2. /\ engine = "loop" /\ Settled /\ w \in wheel /\ w[1] = "dev" /\ w[2] <= now
      /\ tx' = [tx EXCEPT !["dev"] = U] /\ Taken("dev", r, O) /\ ArmDevice(l, n, k)
      /\ UNCHANGED <<rail, pump, engine, now, cuts>>
  BY <1>1, Zenon DEF DeviceServed
<1>3. wire' = IF out.level = None THEN wire ELSE [wire EXCEPT !["dev"] = out.level]
  BY <1>1, Zenon DEF DeviceServed
<1>4. /\ out = ServiceTx("dev", T, now) /\ r = Poll("dev", rx["dev"], now) /\ O = out.tx
      /\ U = Answer(O, r.done) /\ n = NextWake("dev", O, r) /\ V = OnWire(out, wire["dev"])
      /\ k \in BOOLEAN /\ (k <=> TxIdle(O) /\ U # O) /\ l = wheel \ {w}
  BY DEF DeviceOut, DevicePolled, DeviceSent, DeviceNext, TxIdle
<1>5. /\ T \in TxState /\ T = tx["dev"] /\ tx["host"] \in TxState /\ rx["host"] \in RxState /\ rx["dev"] \in RxState
      /\ host \in HostState /\ now \in Nat /\ pump.bytes \in Seq(Byte) /\ "dev" \in Ends
  BY EndsTyped
<1> HIDE DEF T, O, out, r, U, n, k, l, V
<1>6. r.done \in OneFrame /\ WithDone(r, <<>>) \in RxState /\ Good(r.done) \in Seq(Byte)
      /\ Deadline("dev", r) \in Nat \cup {None}
  BY <1>4, <1>5, PolledTyped
<1>7. wire["dev"] = rx["host"].level /\ wire["host"] \in {Open, rx["dev"].level} /\ wire["dev"] # Open
      /\ T.enabled
  <2>1. wire["dev"] # Open /\ T.enabled
    BY <1>5 DEF Steady, Supply
  <2> QED BY <2>1, <1>2, SettledEnds
<1>8. /\ O \in TxState /\ O.enabled = T.enabled
      /\ O.due # None => O.due > now
      /\ O.due = None => O.pending = <<>>
      /\ CarriedOn(host, tx["host"], O, rx["host"], rx["dev"], wire["host"], V, pump.bytes, now)
  <2>1. CarriedOn(host, tx["host"], T, rx["host"], rx["dev"], wire["host"], wire["dev"], pump.bytes, now)
    BY <1>5 DEF Steady, Chain
  <2> DEFINE WD == wire["dev"]
  <2>2. CarriedOn(host, tx["host"], T, rx["host"], rx["dev"], wire["host"], WD, pump.bytes, now)
        /\ WD = rx["host"].level /\ V = OnWire(out, WD)
    BY <2>1, <1>4, <1>7
  <2> HIDE DEF WD
  <2>3. SentAs(host, tx["host"], out.tx, rx["host"], rx["dev"], wire["host"], V, pump.bytes, now, T, out.tx)
    BY <2>2, <1>4, <1>5, DeviceSends
  <2>4. SentAs(host, tx["host"], O, rx["host"], rx["dev"], wire["host"], V, pump.bytes, now, T, O)
    BY <2>3, <1>4
  <2> QED BY <2>4, <1>7, Zenon DEF SentAs
<1>9. Reads("dev", rx["dev"], wire["host"], now, r)
  BY <1>4, <1>7 DEF Reads
<1>10. rx'["dev"] = WithDone(r, <<>>) /\ rx'["host"] = rx["host"] /\ host' = host /\ Took(O, Good(r.done))
  <2>1. O \in TxState /\ "dev" \in Ends /\ Far("dev") = "host" /\ "dev" # "host"
    BY <1>8, EndsTyped
  <2> QED BY <2>1, <1>2, <1>6, TakenIs
<1>11. /\ CarriedOn(host, tx["host"], U, rx["host"], WithDone(r, <<>>), wire["host"], V, pump.bytes, now)
       /\ U \in TxState /\ U.due = O.due /\ U.bits = O.bits /\ U.enabled = O.enabled
       /\ U.pending = O.pending \o Good(r.done)
  <2>1. HeardAs(host, tx["host"], O, rx["host"], wire["host"], V, pump.bytes, now, r, U)
    BY <1>4, <1>8, <1>9, <1>10, DeviceHears
  <2> QED BY <2>1, Zenon DEF HeardAs
<1>12. tx'["dev"] = U /\ tx'["host"] = tx["host"]
  BY <1>2, EndsTyped DEF TypeOK
<1>13. now' = now /\ engine' = engine /\ pump' = pump /\ rail' = rail
  BY <1>2
<1>14. wire'["dev"] = V /\ wire'["host"] = wire["host"]
  <2>1. wire \in [Ends -> Bits \cup {Open}] /\ "dev" \in Ends /\ "host" \in Ends /\ "dev" # "host"
    BY EndsTyped DEF TypeOK
  <2> QED BY <2>1, <1>3, <1>4 DEF OnWire
<1>15. Chain'
  BY <1>11, <1>10, <1>12, <1>13, <1>14 DEF Chain
<1>16. n \in Nat \cup {None} /\ Earliest(n, Asked(O), Deadline("dev", r))
  <2>1. O \in TxState /\ "dev" \in Ends /\ Deadline("dev", r) \in Nat \cup {None} /\ n = NextWake("dev", O, r)
    BY <1>4, <1>5, <1>6, <1>8
  <2>2. NextWake("dev", O, r) \in Nat \cup {None} /\ Earliest(NextWake("dev", O, r), Asked(O), Deadline("dev", r))
    BY ONLY <2>1, NextWakeTyped
  <2> QED BY <2>1, <2>2
<1>17. /\ l \subseteq wheel' /\ armed'["host"] = armed["host"]
       /\ k => <<"dev", now>> \in wheel'
       /\ n # None => <<"dev", n>> \in wheel'
  <2>1. l \subseteq wheel
    BY <1>4
  <2> QED BY <2>1, <1>2, <1>4, <1>16, ArmDeviceIs
<1>18. WokenDev'
  <2>1. TxWoken(wheel', "dev", O) /\ RxWoken(wheel', "dev", WithDone(r, <<>>))
    BY <1>5, <1>6, <1>7, <1>8, <1>16, <1>17, WokenByNext
  <2>2. TxWoken(wheel', "dev", U)
    BY <2>1, <1>11 DEF TxWoken
  <2>3. Kicked(wheel', "dev", U, now)
    <3>1. SUFFICES ASSUME U.pending # <<>>, U.due = None PROVE HasWake(wheel', "dev", now)
      BY DEF Kicked
    <3>2. O.due = None /\ O.pending = <<>> /\ O.bits = <<>>
      BY <3>1, <1>8, <1>11, ChainQuietBits
    <3>3. k
      BY <3>1, <3>2, <1>4 DEF TxIdle
    <3> QED BY <3>3, <1>5, <1>17, WakeIn
  <2> QED BY <2>1, <2>2, <2>3, <1>10, <1>12, <1>13 DEF WokenDev
<1>19. \A u \in wheel : u[1] = "host" => u \in wheel'
  BY <1>2, <1>4, <1>17
<1>20. WokenHost'
  BY <1>2, <1>10, <1>12, <1>13, <1>19, WakeKept DEF Steady, WokenHost
<1>21. Remembered'
  <2>1. <<"host", armed["host"]>> \in wheel => <<"host", armed["host"]>> \in wheel'
    BY <1>19
  <2> QED BY <2>1, <1>13, <1>17 DEF Steady, Remembered
<1>22. PumpOK'
  BY <1>12, <1>13 DEF Steady, PumpOK, RailKnown
<1>23. Supply'
  <2>1. V # Open
    <3>1. out.level \in Bits \cup {None}
      BY <1>4, <1>5, ServiceTyped
    <3> QED BY <3>1, <1>4, <1>7, Known DEF OnWire, Bits
  <2> QED BY <2>1, <1>2, <1>5, <1>8, <1>11, <1>10, <1>12, <1>13, <1>14 DEF Steady, Supply, RailKnown, TxIdle
<1> QED BY <1>15, <1>18, <1>20, <1>21, <1>22, <1>23 DEF Steady

(* The host's service: the slot.                                            *)
LEMMA SteadyServesHost ==
  ASSUME TypeOK, Steady, ServeHost
  PROVE  Steady'
<1>1. PICK w \in wheel : w[1] = "host" /\ w[2] <= now /\ wheel' = wheel \ {w}
  BY DEF ServeHost
<1>2. /\ engine = "loop" /\ Settled /\ engine' = "tx"
      /\ UNCHANGED <<tx, rx, wire, rail, pump, host, now, cuts>>
  BY DEF ServeHost, Turn
<1>3. armed["host"] \in Nat \cup {None} /\ now \in Nat
  BY EndsTyped
<1>4. armed'["host"] = IF armed["host"] # None /\ armed["host"] <= now THEN None ELSE armed["host"]
  BY EndsTyped DEF ServeHost, TypeOK
<1>5. Chain'
  BY <1>2 DEF Steady, Chain
<1>6. WokenDev'
  <2>1. \A u \in wheel : u[1] = "dev" => u \in wheel'
    BY <1>1
  <2> QED BY <1>2, <2>1, WakeKept DEF Steady, WokenDev
<1>7. WokenHost'
  BY <1>2 DEF WokenHost
<1>8. Remembered'
  <2>1. SUFFICES ASSUME armed'["host"] >= now
        PROVE  <<"host", armed'["host"]>> \in wheel' \/ (pump.pc = "schedule" /\ pump.at = armed'["host"])
    BY <1>2 DEF Remembered
  <2>2. armed'["host"] = armed["host"] /\ armed["host"] > now
    BY <2>1, <1>3, <1>4, Known
  <2> DEFINE a == armed["host"]
             e == <<"host", a>>
  <2>3. a \in Nat /\ a > now
    BY <2>2, <1>3, Known
  <2>4. a >= now => e \in wheel \/ (pump.pc = "schedule" /\ pump.at = a)
    BY DEF Steady, Remembered
  <2>5. armed'["host"] = a
    BY <2>2
  <2>6. e[2] = a
    OBVIOUS
  <2>7. e # w
    <3> HIDE DEF e, a
    <3> QED BY <2>3, <2>6, <1>1, <1>3
  <2>8. e \in wheel => e \in wheel'
    <3> HIDE DEF e, a
    <3> QED BY <2>7, <1>1
  <2>9. e \in wheel' \/ (pump.pc = "schedule" /\ pump.at = a)
    <3> HIDE DEF e, a
    <3> QED BY <2>3, <2>4, <2>8, <1>3
  <2> QED BY <2>5, <2>9
<1>9. PumpOK'
  BY <1>2 DEF Steady, PumpOK, RailKnown
<1>10. Supply'
  BY <1>2, SettledEnds DEF Steady, Supply, RailKnown, TxIdle
<1> QED BY <1>5, <1>6, <1>7, <1>8, <1>9, <1>10 DEF Steady

(* Its transmitter.                                                         *)
LEMMA HostSends ==
  ASSUME Tolerable, TypeOK, NEW T, T = tx["host"], NEW W, W = rx["dev"].level,
         CarriedOn(host, T, tx["dev"], rx["host"], rx["dev"], W, wire["dev"], pump.bytes, now),
         NEW out, out = ServiceTx("host", T, now), NEW V, V = OnWire(out, W)
  PROVE  SentAs(host, out.tx, tx["dev"], rx["host"], rx["dev"], V, wire["dev"], pump.bytes, now, T, out.tx)
<1> DEFINE h == host
           TD == tx["dev"]
           RH == rx["host"]
           RD == rx["dev"]
           WD == wire["dev"]
           q == pump.bytes
           t == now
<1>1. h \in HostState /\ TD \in TxState /\ RD \in RxState /\ q \in Seq(Byte) /\ t \in Nat /\ T \in TxState
  BY EndsTyped
<1>2. CarriedOn(h, T, TD, RH, RD, W, WD, q, t) /\ W = RD.level /\ out = ServiceTx("host", T, t)
  OBVIOUS
<1> HIDE DEF h, TD, RH, RD, WD, q, t
<1>3. SentAs(h, out.tx, TD, RH, RD, V, WD, q, t, T, out.tx)
  BY <1>1, <1>2, CarriedServesHost
<1> QED BY <1>3, Zenon DEF h, TD, RH, RD, WD, q, t

(* The transmitter's half of the host's service keeps the way whole, and    *)
(* leaves its wake to the receiver's half.                                  *)
LEMMA SteadyServesHostTx ==
  ASSUME Tolerable, TypeOK, Steady, ServeHostTx
  PROVE  Steady'
<1> DEFINE T == tx["host"]
           out == HostOut
           O == HostOut.tx
           V == wire'["host"]
<1>1. /\ engine = "tx" /\ engine' = "rx" /\ tx' = [tx EXCEPT !["host"] = O]
      /\ wire' = IF out.level = None THEN wire ELSE [wire EXCEPT !["host"] = Port("host", out.level, rail)]
      /\ UNCHANGED <<rx, armed, wheel, rail, pump, host, now, cuts>>
  BY ServeHostTxIs
<1>2. /\ out = ServiceTx("host", T, now) /\ O = out.tx /\ T = tx["host"] /\ T \in TxState /\ now \in Nat
      /\ "host" \in Ends /\ "dev" \in Ends /\ "host" # "dev" /\ V = wire'["host"]
  BY EndsTyped DEF HostOut
<1> HIDE DEF T, out, O, V
<1>3. tx'["host"] = O /\ tx'["dev"] = tx["dev"]
  BY <1>1, <1>2 DEF TypeOK
<1>4. wire'["dev"] = wire["dev"] /\ V = IF out.level = None THEN wire["host"] ELSE Port("host", out.level, rail)
  <2>1. wire \in [Ends -> Bits \cup {Open}]
    BY DEF TypeOK
  <2>2. CASE out.level = None
    BY <2>2, <1>1, <1>2
  <2>3. CASE out.level # None
    <3> DEFINE v == Port("host", out.level, rail)
    <3>1. wire' = [wire EXCEPT !["host"] = v]
      BY <2>3, <1>1
    <3> HIDE DEF v
    <3>2. wire'["host"] = v /\ wire'["dev"] = wire["dev"]
      BY <2>1, <3>1, <1>2
    <3> QED BY <2>3, <3>2, <1>2 DEF v
  <2> QED BY <2>2, <2>3
<1>5. out.level \in Bits \cup {None}
  BY <1>2, ServiceTyped
<1>6. /\ O.enabled = T.enabled /\ Len(O.pending) <= Len(T.pending)
      /\ O.due # None => O.due > now
      /\ O.due = None => O.pending = <<>>
      /\ CarriedOn(host, O, tx["dev"], rx["host"], rx["dev"], V, wire["dev"], pump.bytes, now)
      /\ (RailKnown => V # Open) /\ (~RailKnown => V = Open /\ O = T)
  <2>1. CASE RailKnown
    <3>1. wire["host"] = rx["dev"].level /\ wire["host"] # Open /\ T.enabled /\ rail.vio = "on" /\ rail.gnd
      BY <2>1, <1>1, <1>2 DEF Steady, Supply, RailKnown
    <3>2. V = OnWire(out, wire["host"])
      <4>1. Port("host", out.level, rail) = out.level
        BY <3>1 DEF Port
      <4> QED BY <4>1, <1>4 DEF OnWire
    <3>3. CarriedOn(host, T, tx["dev"], rx["host"], rx["dev"], wire["host"], wire["dev"], pump.bytes, now)
      BY <1>2 DEF Steady, Chain
    <3> DEFINE W == wire["host"]
    <3>4. /\ W = rx["dev"].level /\ V = OnWire(out, W) /\ W # Open
          /\ CarriedOn(host, T, tx["dev"], rx["host"], rx["dev"], W, wire["dev"], pump.bytes, now)
      BY <3>1, <3>2, <3>3
    <3> HIDE DEF W
    <3>5. SentAs(host, out.tx, tx["dev"], rx["host"], rx["dev"], V, wire["dev"], pump.bytes, now, T, out.tx)
      BY <3>4, <1>2, HostSends
    <3>6. SentAs(host, O, tx["dev"], rx["host"], rx["dev"], V, wire["dev"], pump.bytes, now, T, O)
      BY <3>5, <1>2
    <3>7. V # Open
      BY <3>4, <1>5, Known DEF OnWire, Bits
    <3> QED BY <2>1, <3>1, <3>6, <3>7, Zenon DEF SentAs
  <2>2. CASE ~RailKnown
    <3>1. TxIdle(T) /\ wire["host"] = Open
      BY <2>2, <1>2 DEF Steady, Supply
    <3>2. Nothing(T, now)
      BY <3>1 DEF Nothing, TxIdle
    <3>3. out = Served(T, None)
      BY <1>2, <3>2, ServeNothing
    <3>4. O = T /\ out.level = None
      BY <1>2, <3>3, ServedFields
    <3>5. V = Open
      BY <3>1, <3>4, <1>4
    <3>6. T.due = None /\ T.pending = <<>>
      BY <3>1 DEF TxIdle
    <3>7. CarriedOn(host, T, tx["dev"], rx["host"], rx["dev"], V, wire["dev"], pump.bytes, now)
      BY <1>2, <3>1, <3>5 DEF Steady, Chain
    <3>8. Len(O.pending) <= Len(T.pending)
      <4>1. T.pending \in Seq(Byte)
        BY <1>2, TxIs
      <4>2. Len(T.pending) \in Nat
        BY <4>1, LenProperties
      <4> QED BY <4>2, <3>4
    <3> QED BY <2>2, <3>4, <3>5, <3>6, <3>7, <3>8
  <2> QED BY <2>1, <2>2
<1>7. Chain'
  BY <1>1, <1>2, <1>3, <1>4, <1>6 DEF Chain
<1>8. WokenDev'
  BY <1>1, <1>3 DEF Steady, WokenDev
<1>9. WokenHost'
  BY <1>1, <1>3, <1>6 DEF WokenHost, Kicked
<1>10. Remembered'
  BY <1>1 DEF Steady, Remembered
<1>11. PumpOK'
  <2>1. Len(pump.bytes) + Len(T.pending) <= QueueMax => Len(pump.bytes) + Len(O.pending) <= QueueMax
    <3>1. O \in TxState
      BY <1>2, ServiceTyped
    <3>2. T.pending \in Seq(Byte) /\ O.pending \in Seq(Byte) /\ pump.bytes \in Seq(Byte)
      BY <3>1, <1>2, TxIs, PumpIs
    <3> DEFINE a == Len(pump.bytes)
               b == Len(T.pending)
               c == Len(O.pending)
    <3>3. a \in Nat /\ b \in Nat /\ c \in Nat /\ QueueMax \in Nat /\ c <= b
      BY <3>2, <1>6, LenProperties, Constants
    <3> HIDE DEF a, b, c
    <3>4. a + b <= QueueMax => a + c <= QueueMax
      BY <3>3
    <3> QED BY <3>4 DEF a, b, c
  <2> QED BY <2>1, <1>1, <1>2, <1>3 DEF Steady, PumpOK, RailKnown
<1>12. Supply'
  <2>1. RailKnown' = RailKnown
    BY <1>1 DEF RailKnown
  <2>2. ~RailKnown => TxIdle(O)
    BY <1>2, <1>6 DEF Steady, Supply
  <2> QED BY <1>1, <1>2, <1>3, <1>4, <1>6, <2>1, <2>2 DEF Steady, Supply
<1> QED BY <1>7, <1>8, <1>9, <1>10, <1>11, <1>12 DEF Steady

(* Its receiver, and the next wake.                                         *)
LEMMA SteadyServesHostRx ==
  ASSUME Tolerable, TypeOK, Steady, ServeHostRx, host'.dropped = host.dropped
  PROVE  Steady'
<1> DEFINE r == HostPolled
           n == HostNext
           T == tx["host"]
<1>1. /\ engine = "rx" /\ engine' = "loop" /\ Taken("host", r, tx["host"]) /\ Arm("host", n)
      /\ UNCHANGED <<tx, wire, rail, pump, now, cuts>>
  BY ServeHostRxIs
<1>2. /\ r.done \in OneFrame /\ WithDone(r, <<>>) \in RxState /\ n \in Nat \cup {None}
      /\ Earliest(n, Asked(T), Deadline("host", r))
  BY HostPolledTyped
<1>3. r = Poll("host", rx["host"], now) /\ T = tx["host"] /\ T \in TxState /\ now \in Nat /\ "host" \in Ends
  BY EndsTyped DEF HostPolled
<1> HIDE DEF r, n, T
<1>4. Reads("host", rx["host"], wire["dev"], now, r)
  BY <1>1, <1>3 DEF Steady, Supply, Reads
<1>5. Chain' /\ rx'["host"] = WithDone(r, <<>>) /\ rx'["dev"] = rx["dev"]
      /\ (r.start # None => now < r.start + FrameNs("host"))
  BY <1>1, <1>2, <1>4, HostHears DEF Steady
<1>6. /\ wheel \subseteq wheel'
      /\ \/ armed' = armed /\ wheel' = wheel /\ (n = None \/ armed["host"] = n)
         \/ armed'["host"] = n /\ <<"host", n>> \in wheel'
  BY <1>1, <1>2, <1>3, ArmIs
<1>7. now' = now /\ engine' = "loop" /\ pump' = pump /\ rail' = rail /\ wire' = wire /\ tx' = tx
  BY <1>1
<1>8. T.due # None => T.enabled /\ T.due > now
  <2>1. T.due # None => T.due > now
    BY <1>1, <1>3 DEF Steady, WokenHost
  <2>2. T.due # None => RailKnown
    BY <1>3 DEF Steady, Supply, TxIdle
  <2>3. RailKnown => T.enabled
    BY <1>3 DEF Steady, Supply, RailKnown
  <2> QED BY <2>1, <2>2, <2>3
<1>9. n # None => n > now
  <2>1. Deadline("host", r) # None => Deadline("host", r) > now
    BY <1>5 DEF Deadline
  <2>2. Asked(T) # None => Asked(T) > now
    BY <1>8 DEF Asked
  <2> QED BY <2>1, <2>2, <1>2 DEF Earliest
<1>10. n # None => <<"host", n>> \in wheel'
  <2>1. SUFFICES ASSUME n # None, armed["host"] = n, wheel' = wheel PROVE <<"host", n>> \in wheel'
    BY <1>6
  <2>2. n \in Nat /\ n > now /\ armed["host"] >= now
    BY <2>1, <1>2, <1>3, <1>9
  <2>3. pump.pc = "schedule" => pump.at # n
    <3>1. pump.pc = "schedule" => pump.at <= now /\ pump.at \in Nat \cup {None}
      BY PumpIs DEF Steady, PumpOK
    <3> QED BY <3>1, <2>2, <1>3, Known
  <2> QED BY <2>1, <2>2, <2>3 DEF Steady, Remembered
<1>11. WokenDev'
  BY <1>1, <1>5, <1>6, <1>7, WakeKept DEF Steady, WokenDev
<1>12. WokenHost'
  <2>1. TxWoken(wheel', "host", T) /\ RxWoken(wheel', "host", WithDone(r, <<>>))
    BY <1>2, <1>3, <1>8, <1>10, WokenByNext
  <2>2. Kicked(wheel', "host", T, now) \/ pump.pc \in {"arm", "schedule"}
    <3>1. Kicked(wheel, "host", T, now) \/ pump.pc \in {"arm", "schedule"}
      BY <1>1, <1>3 DEF Steady, WokenHost
    <3>2. Kicked(wheel, "host", T, now) => Kicked(wheel', "host", T, now)
      BY <1>6, WakeKept
    <3> QED BY <3>1, <3>2
  <2> QED BY <1>3, <1>5, <1>7, <2>1, <2>2 DEF WokenHost
<1>13. Remembered'
  BY <1>6, <1>7 DEF Steady, Remembered
<1>14. PumpOK'
  BY <1>7 DEF Steady, PumpOK, RailKnown
<1>15. Supply'
  BY <1>7 DEF Steady, Supply, RailKnown, TxIdle
<1> QED BY <1>5, <1>11, <1>12, <1>13, <1>14, <1>15 DEF Steady

(* A sense of the rail, which is not a cut.                                 *)
LEMMA SteadySensed ==
  ASSUME TypeOK, Steady, engine = "loop", NEW rl \in RailState, Sensed(rl), ~RailKnown,
         rl.vio \in {"unread", "on"}, rail.vio = "on" => rl.vio = "on"
  PROVE  Steady'
<1> DEFINE T == tx["host"]
           U == tx'["host"]
           S == SensedTx(rl)
           V == wire'["host"]
           on == rl.vio = "on"
<1>1. /\ rail' = rl /\ UNCHANGED <<rx, armed, wheel, pump, host, engine, now>>
      /\ tx' = [tx EXCEPT !["host"] = IF on = T.enabled THEN T ELSE S]
      /\ wire' = IF S.enabled # T.enabled \/ TxIdle(S) THEN [wire EXCEPT !["host"] = Port("host", 1, rl)] ELSE wire
  BY SensedIs
<1>2. /\ T \in TxState /\ tx \in [Ends -> TxState] /\ wire \in [Ends -> Bits \cup {Open}]
      /\ "host" \in Ends /\ "dev" \in Ends /\ "host" # "dev" /\ T = tx["host"] /\ U = tx'["host"] /\ V = wire'["host"]
      /\ on \in BOOLEAN /\ (on <=> rl.vio = "on")
  BY EndsTyped DEF TypeOK
<1>3. S = IF on THEN [T EXCEPT !.enabled = TRUE]
          ELSE [enabled |-> FALSE, pending |-> <<>>, bits |-> <<>>, due |-> None]
  BY DEF SensedTx
<1> HIDE DEF T, U, S, V, on
<1>4. /\ T.due = None /\ T.bits = <<>> /\ T.pending = <<>> /\ wire["host"] = Open /\ pump.bytes = <<>> /\ pump.pc = "loop"
      /\ T.enabled \in BOOLEAN /\ (T.enabled <=> rail.vio = "on")
  BY <1>2, TxIs DEF Steady, Supply, TxIdle
<1>5. S.due = None /\ S.bits = <<>> /\ S.pending = <<>> /\ S.enabled = on
  <2>1. CASE on
    <3>1. S = [T EXCEPT !.enabled = TRUE]
      BY <2>1, <1>3
    <3> QED BY <3>1, <2>1, <1>2, <1>4 DEF TxState
  <2>2. CASE ~on
    <3>1. S = [enabled |-> FALSE, pending |-> <<>>, bits |-> <<>>, due |-> None]
      BY <2>2, <1>3
    <3> QED BY <3>1, <2>2, <1>2
  <2> QED BY <2>1, <2>2
<1>6. TxIdle(S)
  BY <1>5 DEF TxIdle
<1>7. tx'["dev"] = tx["dev"] /\ U.due = None /\ U.bits = <<>> /\ U.pending = <<>> /\ U.enabled = on
  <2>1. U = (IF on = T.enabled THEN T ELSE S) /\ tx'["dev"] = tx["dev"]
    BY <1>1, <1>2
  <2> QED BY <2>1, <1>4, <1>5
<1>8. wire'["dev"] = wire["dev"] /\ V = Port("host", 1, rl)
  BY <1>1, <1>2, <1>6
<1>9. RailKnown' <=> rl.gnd /\ on
  BY <1>1, <1>2 DEF RailKnown
<1>10. V = IF RailKnown' THEN 1 ELSE Open
  BY <1>2, <1>8, <1>9 DEF Port, RailState
<1>11. V \in {1, Open} /\ 1 # Open
  BY <1>10, Known
<1>12. Chain'
  <2>1. CarriedOn(host, T, tx["dev"], rx["host"], rx["dev"], wire["host"], wire["dev"], pump.bytes, now)
    BY <1>2 DEF Steady, Chain
  <2>2. CarriedOn(host, U, tx["dev"], rx["host"], rx["dev"], V, wire["dev"], pump.bytes, now)
    <3> DEFINE WH == wire["host"]
               WD == wire["dev"]
               TD == tx["dev"]
               RH == rx["host"]
               RD == rx["dev"]
    <3>1. CarriedOn(host, T, TD, RH, RD, WH, WD, pump.bytes, now)
      BY <2>1
    <3> HIDE DEF WH, WD, TD, RH, RD
    <3>2. U.pending = T.pending /\ U.bits = T.bits /\ U.due = T.due /\ T.due = None
      BY <1>4, <1>7
    <3>3. CarriedOn(host, U, TD, RH, RD, V, WD, pump.bytes, now)
      BY <3>1, <3>2, <1>11, CarriedOpens
    <3> QED BY <3>3 DEF WH, WD, TD, RH, RD
  <2> QED BY <2>2, <1>1, <1>2, <1>7, <1>8 DEF Chain
<1>13. WokenDev'
  BY <1>1, <1>7 DEF Steady, WokenDev
<1>14. WokenHost'
  BY <1>1, <1>2, <1>7 DEF Steady, WokenHost, TxWoken, Kicked
<1>15. Remembered'
  BY <1>1 DEF Steady, Remembered
<1>16. PumpOK'
  BY <1>1, <1>4 DEF PumpOK
<1>17. Supply'
  <2>1. TxIdle(tx'["host"])
    BY <1>2, <1>7 DEF TxIdle
  <2> QED BY <2>1, <1>1, <1>2, <1>4, <1>7, <1>8, <1>10, <1>11 DEF Steady, Supply
<1> QED BY <1>12, <1>13, <1>14, <1>15, <1>16, <1>17 DEF Steady

(* The rail coming up keeps the way whole: nothing was let in before it.    *)
LEMMA SteadySenses ==
  ASSUME TypeOK, Steady, SenseGnd \/ SenseVio
  PROVE  Steady'
<1>1. rail \in RailState /\ rail.vio \in {"unread", "on"}
  BY DEF TypeOK, Steady, Supply
<1>2. CASE SenseGnd
  <2> DEFINE rl == [rail EXCEPT !.gnd = TRUE]
  <2>1. rl \in RailState /\ rl.vio = rail.vio
    BY <1>1 DEF RailState
  <2>2. Sensed(rl) /\ engine = "loop" /\ ~RailKnown
    BY <1>2 DEF SenseGnd, Turn, RailKnown
  <2> HIDE DEF rl
  <2> QED BY <2>1, <2>2, <1>1, SteadySensed
<1>3. CASE SenseVio
  <2> DEFINE rl == [rail EXCEPT !.vio = "on"]
  <2>1. rl \in RailState /\ rl.vio = "on"
    BY <1>1 DEF RailState
  <2>2. Sensed(rl) /\ engine = "loop" /\ ~RailKnown
    BY <1>1, <1>3 DEF SenseVio, Turn, RailKnown
  <2> HIDE DEF rl
  <2> QED BY <2>1, <2>2, SteadySensed
<1> QED BY <1>2, <1>3

(* Time passes.                                                             *)
LEMMA SteadyAdvances ==
  ASSUME TypeOK, Steady, Advance
  PROVE  Steady'
<1> DEFINE TH == tx["host"]
           TD == tx["dev"]
           RH == rx["host"]
           RD == rx["dev"]
           WH == wire["host"]
           WD == wire["dev"]
           q == pump.bytes
           u == now'
<1>1. /\ engine = "loop" /\ Settled /\ u \in Nat /\ now <= u
      /\ \A w \in wheel : w[2] > now /\ w[2] \in Nat /\ u <= w[2]
  BY AdvanceIs
<1>2. UNCHANGED <<tx, rx, armed, wheel, wire, rail, pump, host, engine, cuts>>
  BY AdvanceIs
<1>3. host \in HostState /\ TH \in TxState /\ TD \in TxState /\ RH \in RxState /\ RD \in RxState
      /\ q \in Seq(Byte) /\ now \in Nat
  BY EndsTyped
<1>4. WH \in {Open, RD.level} /\ WD \in {Open, RH.level}
  BY <1>1, SettledEnds
<1>5. TH.due \in Nat \cup {None} /\ TD.due \in Nat \cup {None}
  BY <1>3, TxIs
<1>6. ASSUME NEW x, NEW t \in Nat, HasWake(wheel, x, t) PROVE u <= t
  BY <1>1, <1>6 DEF HasWake
<1>7. ASSUME NEW x PROVE ~HasWake(wheel, x, now)
  BY <1>1, <1>3 DEF HasWake
<1>8. TH.due # None => u <= TH.due
  BY <1>1, <1>5, <1>6 DEF Steady, WokenHost, TxWoken
<1>9. TD.due # None => u <= TD.due
  BY <1>5, <1>6 DEF Steady, WokenDev, TxWoken
<1>10. CarriedOn(host, TH, TD, RH, RD, WH, WD, q, now)
  BY DEF Steady, Chain
<1>11. Chain'
  <2> HIDE DEF TH, TD, RH, RD, WH, WD, q, u
  <2>1. CarriedOn(host, TH, TD, RH, RD, WH, WD, q, u)
    BY <1>1, <1>3, <1>4, <1>8, <1>9, <1>10, CarriedTime
  <2> QED BY <2>1, <1>2 DEF Chain, TH, TD, RH, RD, WH, WD, q, u
<1> HIDE DEF u
<1>u. now' = u
  BY DEF u
<1>12. WokenDev'
  <2>1. Kicked(wheel, "dev", TD, u)
    BY <1>7 DEF Steady, WokenDev, Kicked
  <2> QED BY <2>1, <1>2, <1>u DEF Steady, WokenDev
<1>13. WokenHost'
  <2>1. Kicked(wheel, "host", TH, u) \/ pump.pc \in {"arm", "schedule"}
    BY <1>1, <1>7 DEF Steady, WokenHost, Kicked
  <2> QED BY <2>1, <1>1, <1>2, <1>u DEF Steady, WokenHost
<1>14. Remembered'
  <2>1. armed["host"] >= u => armed["host"] >= now
    BY <1>1, <1>3, EndsTyped, Known
  <2> QED BY <2>1, <1>2, <1>u DEF Steady, Remembered
<1>15. PumpOK'
  <2>1. pump.at <= now /\ pump.at \in Nat \cup {None} => pump.at <= u
    BY <1>1, <1>3, Known
  <2> QED BY <2>1, <1>2, <1>u, PumpIs DEF Steady, PumpOK, RailKnown
<1>16. Supply'
  BY <1>1, <1>2 DEF Steady, Supply, RailKnown, TxIdle
<1> QED BY <1>11, <1>12, <1>13, <1>14, <1>15, <1>16 DEF Steady

(* Bytes move from the program to the transmitter.                          *)
LEMMA ChainMoves ==
  ASSUME Chain, host'.sent = host.sent, Front(host) => Front(host'), Behind(host') = Behind(host),
         tx'["host"].due = tx["host"].due, tx'["host"].bits = tx["host"].bits, tx'["dev"] = tx["dev"],
         \A d \in Nat : Back(host, pump.bytes, tx["host"].pending, d)
                          => Back(host', pump'.bytes, tx'["host"].pending, d),
         UNCHANGED <<rx, wire, now>>
  PROVE  Chain'
<1> DEFINE h == host
           g == host'
           T == tx["host"]
           U == tx'["host"]
           q == pump.bytes
           p == pump'.bytes
           TD == tx["dev"]
           RH == rx["host"]
           RD == rx["dev"]
           WH == wire["host"]
           WD == wire["dev"]
           t == now
<1>1. CarriedOn(h, T, TD, RH, RD, WH, WD, q, t)
  BY DEF Chain
<1>2. g.sent = h.sent /\ (Front(h) => Front(g)) /\ Behind(g) = Behind(h) /\ U.due = T.due /\ U.bits = T.bits
  OBVIOUS
<1>3. \A d \in Nat : Back(h, q, T.pending, d) => Back(g, p, U.pending, d)
  OBVIOUS
<1> HIDE DEF h, g, T, U, q, p, TD, RH, RD, WH, WD, t
<1>4. CarriedOn(g, U, TD, RH, RD, WH, WD, p, t)
  BY <1>1, <1>2, <1>3, CarriedMoves
<1>5. CarriedOn(host', tx'["host"], tx["dev"], rx["host"], rx["dev"], wire["host"], wire["dev"], pump'.bytes, now)
  BY <1>4, Zenon DEF g, U, TD, RH, RD, WH, WD, p, t
<1> QED BY <1>5 DEF Chain

(* The pump's drain keeps the way whole.                                    *)
LEMMA SteadyDrains ==
  ASSUME TypeOK, Steady, PumpDrain, host'.dropped = host.dropped
  PROVE  Steady'
<1>1. host' = Drain(host, <<>>) /\ UNCHANGED <<tx, rx, armed, wheel, wire, rail, pump, engine, now, cuts>>
  BY DEF PumpDrain
<1> DEFINE h == host
           g == host'
<1>2. h \in HostState /\ Len(h.pty) <= PtyRoom /\ g = Drain(h, <<>>) /\ g.dropped = h.dropped
  BY <1>1, PumpIs
<1> HIDE DEF h, g
<1>3. Good(<<>>) \in Seq(Byte)
  BY GoodNone, EmptySeq
<1>4. g.sent = h.sent /\ g.unsent = h.unsent /\ g.inbox = h.inbox
  BY <1>2, <1>3, DrainTyped
<1>5. Front(h) => Front(g)
  BY <1>2, DrainNothing
<1>6. Behind(g) = Behind(h)
  <2>1. Front(h)
    BY DEF Steady, Chain, CarriedOn, Carried, h
  <2> QED BY <2>1, <1>2, DrainNothing
<1>7. \A d \in Nat : Back(h, pump.bytes, tx["host"].pending, d) => Back(g, pump.bytes, tx["host"].pending, d)
  BY <1>4 DEF Back
<1>8. Chain'
  BY <1>1, <1>4, <1>5, <1>6, <1>7, ChainMoves DEF Steady, h, g
<1>9. WokenDev' /\ WokenHost' /\ Remembered'
  BY <1>1 DEF Steady, WokenDev, WokenHost, Remembered
<1>10. PumpOK' /\ Supply'
  BY <1>1 DEF Steady, PumpOK, Supply, RailKnown, TxIdle
<1> QED BY <1>8, <1>9, <1>10 DEF Steady

(* The pump's read keeps the way whole, and takes no more than the wire has *)
(* room for.                                                                *)
LEMMA SteadyReads ==
  ASSUME TypeOK, Steady, PumpRead
  PROVE  Steady'
<1> DEFINE h == host
           g == host'
           n == ReadCount
           z == host.inbox
           q == pump'.bytes
           p == tx["host"].pending
<1>1. /\ pump.pc = "loop" /\ n \in Nat /\ n > 0 /\ n <= Len(z) /\ RailKnown /\ n <= QueueMax - Len(p)
      /\ Len(z) \in Nat /\ z \in Seq(Byte)
      /\ pump' = [pump EXCEPT !.pc = "check", !.bytes = SubSeq(z, 1, n)]
      /\ g = [h EXCEPT !.inbox = SubSeq(z, n + 1, Len(z))]
  BY PumpReadIs
<1>2. UNCHANGED <<tx, rx, armed, wheel, wire, rail, engine, now, cuts>>
  BY PumpReadIs
<1>3. SubSeq(z, 1, n) \in Seq(Byte) /\ Len(SubSeq(z, 1, n)) = n
  BY PumpReadTyped
<1>4. h \in HostState /\ pump \in PumpState /\ p \in Seq(Byte) /\ z = h.inbox /\ p = tx["host"].pending
  BY EndsTyped, TxIs DEF TypeOK
<1>5. g.dropped = h.dropped /\ g.sent = h.sent /\ g.unsent = h.unsent /\ g.pty = h.pty
      /\ g.outbound = h.outbound /\ g.got = h.got /\ g.inbox = SubSeq(z, n + 1, Len(z))
  <2> DEFINE v == SubSeq(z, n + 1, Len(z))
  <2>1. g = [h EXCEPT !.inbox = v]
    BY <1>1
  <2> HIDE DEF v, g, h
  <2>2. g.dropped = h.dropped /\ g.sent = h.sent /\ g.unsent = h.unsent /\ g.pty = h.pty
        /\ g.outbound = h.outbound /\ g.got = h.got /\ g.inbox = v
    BY <2>1, <1>4 DEF HostState
  <2> QED BY <2>2 DEF v
<1>6. pump'.pc = "check" /\ q = SubSeq(z, 1, n) /\ pump'.at = pump.at
  BY <1>1, <1>4 DEF PumpState
<1>7. pump.bytes = <<>>
  BY <1>1 DEF Steady, PumpOK
<1>q. q = pump'.bytes
  OBVIOUS
<1> HIDE DEF h, g, n, z, q, p
<1>8. \A d \in Nat : Back(h, pump.bytes, p, d) => Back(g, q, p, d)
  <2> DEFINE u == pump.bytes
  <2>1. SUFFICES ASSUME NEW d \in Nat, Back(h, u, p, d) PROVE Back(g, q, p, d)
    OBVIOUS
  <2>2. HasRead(h, g, q, n)
    BY <1>1, <1>4, <1>5, <1>6 DEF HasRead
  <2>3. h \in HostState /\ p \in Seq(Byte) /\ d \in Nat /\ Back(h, u, p, d) /\ Len(u) = 0
    BY <2>1, <1>1, <1>4, <1>7
  <2> HIDE DEF u
  <2> QED BY <2>2, <2>3, PumpReadsBack
<1>9. Front(h) => Front(g)
  BY <1>5 DEF Front
<1>10. Behind(g) = Behind(h)
  BY <1>5 DEF Behind
<1>11. tx'["host"] = tx["host"] /\ tx'["dev"] = tx["dev"]
  BY <1>2
<1>12. Chain'
  BY <1>2, <1>5, <1>8, <1>9, <1>10, <1>11, ChainMoves DEF Steady, h, g, q, p
<1>13. WokenDev' /\ Remembered'
  BY <1>1, <1>2, <1>6 DEF Steady, WokenDev, Remembered
<1>14. WokenHost'
  BY <1>1, <1>2 DEF Steady, WokenHost
<1>15. PumpOK'
  <2> DEFINE a == Len(q)
             b == Len(p)
  <2>1. a = n /\ b \in Nat /\ QueueMax \in Nat /\ n \in Nat /\ n > 0 /\ n <= QueueMax - b
    BY <1>1, <1>3, <1>4, <1>6, LenProperties, Constants
  <2>2. a > 0 => q # <<>>
    OBVIOUS
  <2> HIDE DEF a, b
  <2>3. q # <<>> /\ a + b <= QueueMax
    BY <2>1, <2>2
  <2>4. Len(pump'.bytes) + Len(tx'["host"].pending) <= QueueMax /\ pump'.bytes # <<>>
    BY <2>3, <1>4, <1>q, <1>11 DEF a, b
  <2>5. RailKnown'
    BY <1>1, <1>2 DEF RailKnown
  <2> QED BY <2>4, <2>5, <1>6 DEF PumpOK
<1>16. Supply'
  <2>1. RailKnown' /\ RailKnown
    BY <1>1, <1>2 DEF RailKnown
  <2> QED BY <2>1, <1>2 DEF Steady, Supply
<1> QED BY <1>12, <1>13, <1>14, <1>15, <1>16 DEF Steady

(* The look at the enable finds it on.                                      *)
LEMMA SteadyChecks ==
  ASSUME TypeOK, Steady, PumpCheck
  PROVE  Steady'
<1>1. tx["host"].enabled
  BY DEF PumpCheck, Steady, PumpOK, Supply, RailKnown
<1>2. /\ pump.pc = "check" /\ pump' = [pump EXCEPT !.pc = "append"] /\ host' = host
      /\ UNCHANGED <<tx, rx, armed, wheel, wire, rail, engine, now, cuts>>
  BY <1>1 DEF PumpCheck
<1>3. pump'.pc = "append" /\ pump'.bytes = pump.bytes /\ pump'.at = pump.at
  BY <1>2 DEF TypeOK, PumpState
<1>4. Chain'
  BY <1>2, <1>3 DEF Steady, Chain
<1>5. WokenDev' /\ WokenHost' /\ Remembered'
  BY <1>2, <1>3 DEF Steady, WokenDev, WokenHost, Remembered
<1>6. RailKnown /\ RailKnown'
  BY <1>2 DEF RailKnown, Steady, PumpOK
<1>7. PumpOK' /\ Supply'
  BY <1>2, <1>3, <1>6 DEF Steady, PumpOK, Supply
<1> QED BY <1>4, <1>5, <1>7 DEF Steady

(* transmit under the lock finds room for all it holds, and kicks an idle   *)
(* line.                                                                    *)
LEMMA SteadyAppends ==
  ASSUME TypeOK, Steady, PumpAppend
  PROVE  Steady'
<1> DEFINE T == tx["host"]
           U == tx'["host"]
           q == pump.bytes
<1>1. pump.pc = "append" /\ UNCHANGED <<rx, armed, wheel, wire, rail, engine, now, cuts>>
  BY PumpAppendIs
<1>2. /\ pump'.bytes = <<>> /\ pump'.at = pump.at
      /\ pump'.pc = IF TxIdle(T) /\ AppendCount > 0 THEN "arm" ELSE "loop"
      /\ tx'["dev"] = tx["dev"] /\ U.pending = T.pending \o Appended
      /\ U.bits = T.bits /\ U.due = T.due /\ U.enabled = T.enabled
      /\ host'.sent = host.sent /\ host'.unsent = host.unsent /\ host'.inbox = host.inbox
      /\ host'.pty = host.pty /\ host'.got = host.got /\ host'.outbound = host.outbound
  BY PumpAppendTyped
<1>3. RailKnown /\ q # <<>> /\ Len(q) + Len(T.pending) <= QueueMax
  BY <1>1 DEF Steady, PumpOK
<1>4. AppendCount = Len(q) /\ Appended = q /\ q \in Seq(Byte) /\ T.pending \in Seq(Byte)
  BY <1>3, AppendedTyped, EndsTyped, TxIs
<1>5. AppendCount > 0
  <2>1. Len(q) \in Nat /\ Len(q) # 0
    BY <1>3, <1>4, EmptySeq, LenProperties
  <2> QED BY <2>1, <1>4
<1>6. RailKnown'
  BY <1>1, <1>3 DEF RailKnown
<1>7. Chain'
  <2>1. \A d \in Nat : Back(host, q, T.pending, d) => Back(host', pump'.bytes, U.pending, d)
    <3> DEFINE h == host
               g == host'
               p == T.pending
               s == U.pending
    <3>1. g.sent = h.sent /\ g.unsent = h.unsent /\ g.inbox = h.inbox /\ p \in Seq(Byte) /\ q \in Seq(Byte)
          /\ s = p \o q
      BY <1>2, <1>4
    <3> HIDE DEF h, g, p, q, s
    <3>2. \A d \in Nat : Back(h, q, p, d) => Back(g, <<>>, s, d)
      BY <3>1, PumpAppendsBack
    <3> QED BY <3>2, <1>2 DEF h, g, p, s
  <2>2. Front(host) => Front(host')
    BY <1>2 DEF Front
  <2>3. Behind(host') = Behind(host)
    BY <1>2 DEF Behind
  <2> QED BY <1>1, <1>2, <2>1, <2>2, <2>3, ChainMoves DEF Steady
<1>8. WokenDev' /\ Remembered'
  BY <1>1, <1>2 DEF Steady, WokenDev, Remembered
<1>9. WokenHost'
  <2>1. engine = "loop" => TxWoken(wheel, "host", U) /\ RxWoken(wheel, "host", rx["host"])
    BY <1>2 DEF Steady, WokenHost, TxWoken
  <2>2. engine # "tx" => Kicked(wheel, "host", U, now) \/ pump'.pc \in {"arm", "schedule"}
    <3>1. CASE TxIdle(T)
      BY <3>1, <1>2, <1>5
    <3>2. CASE ~TxIdle(T)
      <4>1. SUFFICES ASSUME engine # "tx", U.due = None PROVE HasWake(wheel, "host", now)
        BY DEF Kicked
      <4>2. T.due = None /\ T.bits = <<>>
        BY <4>1, <1>2, ChainQuietBits DEF Steady, Chain
      <4>3. T.pending # <<>>
        BY <4>2, <3>2 DEF TxIdle
      <4> QED BY <4>1, <4>2, <4>3, <1>1 DEF Steady, WokenHost, Kicked
    <3> QED BY <3>1, <3>2
  <2>3. engine = "rx" /\ U.due # None => U.due > now
    BY <1>2 DEF Steady, WokenHost
  <2> QED BY <2>1, <2>2, <2>3, <1>1 DEF WokenHost
<1>10. PumpOK'
  BY <1>2 DEF PumpOK
<1>11. Supply'
  BY <1>1, <1>2, <1>3, <1>6 DEF Steady, Supply
<1> QED BY <1>7, <1>8, <1>9, <1>10, <1>11 DEF Steady

(* arm finds its instant remembered only where its wake is.                 *)
LEMMA SteadyArms ==
  ASSUME TypeOK, Steady, PumpArm
  PROVE  Steady'
<1>1. pump.pc = "arm" /\ UNCHANGED <<tx, rx, wheel, wire, rail, host, engine, now, cuts>>
  BY DEF PumpArm
<1>2. now \in Nat /\ pump \in PumpState /\ armed \in [Ends -> Nat \cup {None}] /\ "host" \in Ends
  BY EndsTyped DEF TypeOK
<1>3. RailKnown /\ RailKnown'
  BY <1>1 DEF RailKnown, Steady, Supply
<1>4. pump'.bytes = pump.bytes
  BY <1>1, <1>2 DEF PumpArm, PumpState
<1>5. Chain'
  BY <1>1, <1>4 DEF Steady, Chain
<1>6. WokenDev'
  BY <1>1 DEF Steady, WokenDev
<1>7. CASE armed["host"] = now
  <2>1. armed' = armed /\ pump'.pc = "loop"
    BY <1>7, <1>1, <1>2 DEF PumpArm, PumpState
  <2>2. <<"host", now>> \in wheel
    BY <1>1, <1>2, <1>7 DEF Steady, Remembered
  <2>3. HasWake(wheel, "host", now)
    BY <2>2, <1>2, WakeIn
  <2>4. WokenHost'
    BY <1>1, <2>3 DEF Steady, WokenHost, Kicked
  <2>5. Remembered'
    BY <1>1, <2>1 DEF Steady, Remembered
  <2>6. PumpOK'
    BY <1>1, <1>4, <2>1 DEF Steady, PumpOK
  <2>7. Supply'
    BY <1>1, <1>3, <1>4 DEF Steady, Supply
  <2> QED BY <1>5, <1>6, <2>4, <2>5, <2>6, <2>7 DEF Steady
<1>8. CASE armed["host"] # now
  <2>1. armed'["host"] = now /\ pump'.pc = "schedule" /\ pump'.at = now
    BY <1>8, <1>1, <1>2 DEF PumpArm, PumpState
  <2>2. WokenHost'
    BY <1>1, <2>1 DEF Steady, WokenHost
  <2>3. Remembered'
    BY <1>1, <2>1 DEF Remembered
  <2>4. PumpOK'
    BY <1>1, <1>2, <1>4, <2>1 DEF Steady, PumpOK
  <2>5. Supply'
    BY <1>1, <1>3, <1>4 DEF Steady, Supply
  <2> QED BY <1>5, <1>6, <2>2, <2>3, <2>4, <2>5 DEF Steady
<1> QED BY <1>7, <1>8

(* The wake the pump schedules is one for now or before.                    *)
LEMMA SteadySchedules ==
  ASSUME TypeOK, Steady, PumpSchedule
  PROVE  Steady'
<1>1. pump.pc = "schedule" /\ wheel' = wheel \cup {<<"host", pump.at>>}
      /\ UNCHANGED <<tx, rx, armed, wire, rail, host, engine, now, cuts>>
  BY DEF PumpSchedule
<1>2. pump'.pc = "loop" /\ pump'.bytes = pump.bytes
  BY DEF PumpSchedule, TypeOK, PumpState
<1>3. RailKnown /\ RailKnown'
  BY <1>1 DEF RailKnown, Steady, Supply
<1>4. Chain'
  BY <1>1, <1>2 DEF Steady, Chain
<1>5. wheel \subseteq wheel'
  BY <1>1
<1>6. WokenDev'
  BY <1>1, <1>5, WakeKept DEF Steady, WokenDev
<1>7. HasWake(wheel', "host", now)
  <2>1. pump.at \in Nat \cup {None} /\ pump.at # None /\ pump.at <= now /\ now \in Nat
    BY <1>1, PumpIs, EndsTyped DEF TypeOK, Steady, PumpOK
  <2>2. <<"host", pump.at>> \in wheel'
    BY <1>1
  <2> QED BY <2>1, <2>2, WakeIn
<1>8. WokenHost'
  <2>1. engine = "loop" => TxWoken(wheel', "host", tx["host"]) /\ RxWoken(wheel', "host", rx["host"])
    BY <1>5, WakeKept DEF Steady, WokenHost
  <2> QED BY <2>1, <1>1, <1>7 DEF Steady, WokenHost, Kicked
<1>9. Remembered'
  BY <1>1, <1>5 DEF Steady, Remembered
<1>10. PumpOK'
  BY <1>1, <1>2 DEF Steady, PumpOK
<1>11. Supply'
  BY <1>1, <1>2, <1>3 DEF Steady, Supply
<1> QED BY <1>4, <1>6, <1>8, <1>9, <1>10, <1>11 DEF Steady

(* The program's write keeps the way whole.                                 *)
LEMMA SteadyWrites ==
  ASSUME TypeOK, Steady, HostWrites
  PROVE  Steady'
<1>1. UNCHANGED <<tx, rx, armed, wheel, wire, rail, pump, engine, now, cuts>>
  BY DEF HostWrites
<1> DEFINE h == host
           g == host'
           q == pump.bytes
           p == tx["host"].pending
<1>2. /\ h.unsent # <<>> /\ g.inbox = Append(h.inbox, Head(h.unsent)) /\ g.unsent = Tail(h.unsent)
      /\ g.sent = h.sent /\ g.pty = h.pty /\ g.outbound = h.outbound /\ g.got = h.got
  BY HostWritesTyped
<1>3. h \in HostState /\ q \in Seq(Byte) /\ p \in Seq(Byte)
  BY EndsTyped, TxIs
<1> HIDE DEF h, g, q, p
<1>4. \A d \in Nat : Back(h, q, p, d) => Back(g, q, p, d)
  BY <1>2, <1>3, HostWritesBack
<1>5. Front(h) => Front(g)
  BY <1>2 DEF Front
<1>6. Behind(g) = Behind(h)
  BY <1>2 DEF Behind
<1>7. Chain'
  BY <1>1, <1>2, <1>4, <1>5, <1>6, ChainMoves DEF Steady, h, g, q, p
<1>8. WokenDev' /\ WokenHost' /\ Remembered'
  BY <1>1 DEF Steady, WokenDev, WokenHost, Remembered
<1>9. PumpOK' /\ Supply'
  BY <1>1 DEF Steady, PumpOK, Supply, RailKnown, TxIdle
<1> QED BY <1>7, <1>8, <1>9 DEF Steady

(* The program's read keeps the way whole.                                  *)
LEMMA SteadyReadsPty ==
  ASSUME TypeOK, Steady, HostReads
  PROVE  Steady'
<1>1. UNCHANGED <<tx, rx, armed, wheel, wire, rail, pump, engine, now, cuts>>
  BY DEF HostReads
<1> DEFINE h == host
           g == host'
<1>2. /\ h.pty # <<>> /\ g.got = Append(h.got, Head(h.pty)) /\ g.pty = Tail(h.pty)
      /\ g.sent = h.sent /\ g.inbox = h.inbox /\ g.outbound = h.outbound /\ g.unsent = h.unsent
  BY HostReadsTyped
<1>3. h \in HostState
  BY EndsTyped
<1>f. Front(h)
  BY DEF Steady, Chain, CarriedOn, Carried
<1> HIDE DEF h, g
<1>4. \A d \in Nat : Back(h, pump.bytes, tx["host"].pending, d) => Back(g, pump.bytes, tx["host"].pending, d)
  BY <1>2 DEF Back
<1>5. Front(g) /\ Behind(g) = Behind(h)
  BY <1>2, <1>3, <1>f, HostReadsFront
<1>6. Chain'
  BY <1>1, <1>2, <1>4, <1>5, ChainMoves DEF Steady, h, g
<1>7. WokenDev' /\ WokenHost' /\ Remembered'
  BY <1>1 DEF Steady, WokenDev, WokenHost, Remembered
<1>8. PumpOK' /\ Supply'
  BY <1>1 DEF Steady, PumpOK, Supply, RailKnown, TxIdle
<1> QED BY <1>6, <1>7, <1>8 DEF Steady

(***************************************************************************)
(* The line, for as long as its supply holds and nothing is dropped.       *)
(***************************************************************************)
(* What Next keeps.                                                         *)
Core == cuts = 0 /\ host.dropped = 0 /\ host.shed = 0 => Steady

(* The way starts whole, with everything unsent.                            *)
LEMMA InitSteady == ASSUME Init PROVE Steady
<1>1. PICK s \in Sent : host = [sent |-> s, unsent |-> s, inbox |-> <<>>, outbound |-> <<>>, pty |-> <<>>,
                                got |-> <<>>, dropped |-> 0, shed |-> 0]
  BY DEF Init
<1>2. s \in Seq(Byte)
  BY SerialAssumption DEF Byte, Bits
<1>3. /\ host.sent = s /\ host.unsent = s /\ host.inbox = <<>> /\ host.outbound = <<>> /\ host.pty = <<>>
      /\ host.got = <<>> /\ Len(<<>>) = 0
  BY <1>1
<1>4. /\ tx["host"].pending = <<>> /\ tx["host"].bits = <<>> /\ tx["host"].due = None /\ ~tx["host"].enabled
      /\ tx["dev"].pending = <<>> /\ tx["dev"].bits = <<>> /\ tx["dev"].due = None /\ tx["dev"].enabled
      /\ rx["host"].level = 1 /\ rx["host"].start = None /\ rx["dev"].level = 1 /\ rx["dev"].start = None
      /\ wire["host"] = Open /\ wire["dev"] = 1
  BY DEF Init, Ends
<1>5. /\ armed["host"] = None /\ wheel = {} /\ rail.vio = "unread" /\ ~RailKnown
      /\ pump.pc = "loop" /\ pump.bytes = <<>> /\ engine = "loop" /\ now = 0 /\ None = -1 /\ Open = -1
  BY DEF Init, Ends, RailKnown, None, Open
<1>6. Front(host) /\ Behind(host) = 0
  BY <1>3, PartNone DEF Front, Behind
<1>7. Back(host, <<>>, <<>>, 0)
  <2>1. Part(s, s, 0) /\ Len(s) \in Nat
    <3>1. Len(s) \in Nat
      BY <1>2, LenProperties
    <3>2. \A i \in 1..Len(s) : 0 + i = i
      BY <3>1
    <3> QED BY <3>1, <3>2 DEF Part
  <2>2. 0 + Len(<<>>) = 0 /\ 0 + Len(<<>>) + Len(<<>>) = 0 /\ 0 + Len(<<>>) + Len(<<>>) + Len(<<>>) = 0
        /\ 0 + Len(<<>>) + Len(<<>>) + Len(<<>>) + Len(s) = Len(s)
    BY <1>3, <2>1
  <2>3. Part(<<>>, s, 0)
    BY PartNone
  <2> QED BY <1>3, <2>1, <2>2, <2>3 DEF Back
<1>8. Link("dev", tx["dev"], rx["host"], wire["dev"], now, 0, 0, s)
  BY <1>4 DEF Link, Quiet
<1>9. Link("host", tx["host"], rx["dev"], wire["host"], now, 0, 0, s)
  BY <1>4 DEF Link, Quiet
<1>10. Carried(host, tx["host"], tx["dev"], rx["host"], rx["dev"], wire["host"], wire["dev"], <<>>, now, 0, 0)
  <2>1. 0 + Len(tx["dev"].pending) = 0
    BY <1>3, <1>4
  <2>2. Part(tx["dev"].pending, host.sent, 0)
    BY <1>4, PartNone
  <2> QED BY <1>3, <1>4, <1>6, <1>7, <1>8, <1>9, <2>1, <2>2 DEF Carried
<1>11. Chain
  BY <1>5, <1>10 DEF Chain, CarriedOn
<1>12. WokenDev /\ WokenHost
  BY <1>4, <1>5 DEF WokenDev, WokenHost, TxWoken, RxWoken, Kicked
<1>13. Remembered
  BY <1>5 DEF Remembered
<1>14. PumpOK
  BY <1>5 DEF PumpOK
<1>15. Supply
  BY <1>4, <1>5 DEF Supply, TxIdle
<1> QED BY <1>11, <1>12, <1>13, <1>14, <1>15 DEF Steady

(* The host's program and the pump's read shed nothing.                     *)
LEMMA HostKeeps ==
  ASSUME host \in HostState, HostWrites \/ HostReads \/ PumpRead
  PROVE  host'.sent = host.sent /\ host'.dropped = host.dropped /\ host'.shed = host.shed /\ host.shed \in Nat
<1>1. CASE HostWrites
  <2> DEFINE v == Append(host.inbox, Head(host.unsent))
             u == Tail(host.unsent)
  <2>1. host' = Wrote(host, v, u)
    BY <1>1, Zenon DEF HostWrites, Wrote
  <2> HIDE DEF v, u
  <2> QED BY <2>1 DEF Wrote, HostState
<1>2. CASE HostReads
  <2> DEFINE v == Append(host.got, Head(host.pty))
             u == Tail(host.pty)
  <2>1. host' = Read(host, v, u)
    BY <1>2, Zenon DEF HostReads, Read
  <2> HIDE DEF v, u
  <2> QED BY <2>1 DEF Read, HostState
<1>3. CASE PumpRead
  <2> DEFINE v == SubSeq(host.inbox, ReadCount + 1, Len(host.inbox))
  <2>1. host' = [host EXCEPT !.inbox = v]
    BY <1>3, Zenon DEF PumpRead, ReadCount, ReadRoom, TxRoom
  <2> HIDE DEF v
  <2> QED BY <2>1 DEF HostState
<1> QED BY <1>1, <1>2, <1>3

(* Cuts, drops and bytes shed only grow.                                    *)
LEMMA Counted ==
  ASSUME TypeOK, Next
  PROVE  /\ cuts \in Nat /\ host.dropped \in Nat /\ cuts' >= cuts /\ host'.dropped >= host.dropped
         /\ host.shed \in Nat /\ host'.shed >= host.shed /\ (CutVio => cuts' > 0)
<1>0. cuts \in Nat /\ host \in HostState /\ host.dropped \in Nat /\ host.shed \in Nat /\ Len(host.pty) <= PtyRoom
  BY HostFields DEF TypeOK
<1>1. CASE \E x \in Ends : Receive(x)
  <2>1. PICK x \in Ends : Receive(x)
    BY <1>1
  <2>2. cuts' = cuts
    BY <2>1 DEF Receive
  <2>3. CASE x = "host"
    <3>1. Taken("host", ReceivedAt("host"), tx["host"]) /\ wire["dev"] # Open
      BY <2>1, <2>3, ReceiveHostIs
    <3>2. ReceivedAt("host").done \in OneFrame /\ WithDone(ReceivedAt("host"), <<>>) \in RxState
      BY <3>1, EndsTyped, ReceivedAtTyped
    <3>3. host'.dropped >= host.dropped /\ host'.shed >= host.shed
      BY <3>1, <3>2, EndsTyped, TakenIs
    <3> QED BY <1>0, <2>2, <3>3 DEF Receive, CutVio, Turn
  <2>4. CASE x = "dev"
    <3>1. Taken("dev", ReceivedAt("dev"), tx["dev"]) /\ wire["host"] # Open
      BY <2>1, <2>4, ReceiveDevIs
    <3>2. ReceivedAt("dev").done \in OneFrame /\ WithDone(ReceivedAt("dev"), <<>>) \in RxState
      BY <3>1, EndsTyped, ReceivedAtTyped
    <3>3. host'.dropped >= host.dropped /\ host'.shed >= host.shed
      BY <3>1, <3>2, EndsTyped, TakenIs
    <3> QED BY <1>0, <2>2, <3>3 DEF CutVio
  <2> QED BY <2>1, <2>3, <2>4 DEF Ends
<1>2. CASE ServeDevice
  <2>1. PICK w : DeviceServed(w)
    BY <1>2, ServeDeviceIs
  <2>2. Taken("dev", DevicePolled, DeviceOut.tx) /\ cuts' = cuts
    BY <2>1 DEF DeviceServed
  <2>3. /\ DevicePolled.done \in OneFrame /\ WithDone(DevicePolled, <<>>) \in RxState
        /\ DeviceOut.tx \in TxState
    BY EndsTyped, PolledTyped, ServiceTyped DEF DevicePolled, DeviceOut
  <2>4. host'.dropped >= host.dropped /\ host'.shed >= host.shed
    BY <2>2, <2>3, EndsTyped, TakenIs
  <2> QED BY <1>0, <2>2, <2>4 DEF CutVio
<1>3. CASE ServeHostRx
  <2>1. Taken("host", HostPolled, tx["host"]) /\ cuts' = cuts
    BY <1>3, ServeHostRxIs
  <2>2. HostPolled.done \in OneFrame /\ WithDone(HostPolled, <<>>) \in RxState
    BY HostPolledTyped
  <2>3. host'.dropped >= host.dropped /\ host'.shed >= host.shed
    BY <2>1, <2>2, EndsTyped, TakenIs
  <2> QED BY <1>0, <2>1, <2>3 DEF CutVio
<1>4. CASE ServeHost \/ ServeHostTx \/ Advance \/ PumpArm \/ PumpSchedule
  <2>1. cuts' = cuts /\ host' = host
    BY <1>4 DEF ServeHost, ServeHostTx, Advance, PumpArm, PumpSchedule
  <2> QED BY <1>0, <2>1 DEF CutVio
<1>5. CASE SenseGnd \/ SenseVio \/ CutVio
  <2>1. host' = host
    BY <1>5 DEF SenseGnd, SenseVio, CutVio, Sensed
  <2>2. cuts' = cuts \/ cuts' = cuts + 1
    BY <1>5 DEF SenseGnd, SenseVio, CutVio
  <2> QED BY <1>0, <2>1, <2>2 DEF CutVio
<1>6. CASE PumpDrain
  <2>1. Good(<<>>) \in Seq(Byte)
    BY GoodNone, EmptySeq
  <2>2. host' = Drain(host, <<>>) /\ cuts' = cuts
    BY <1>6 DEF PumpDrain
  <2>3. host'.dropped >= host.dropped /\ host'.shed >= host.shed
    BY <1>0, <2>1, <2>2, DrainTyped
  <2> QED BY <1>0, <2>2, <2>3 DEF CutVio
<1>7. CASE PumpRead \/ PumpCheck
  <2>1. cuts' = cuts
    BY <1>7 DEF PumpRead, PumpCheck
  <2>2. host'.dropped = host.dropped
    BY <1>0, <1>7 DEF PumpRead, PumpCheck, HostState
  <2>3. host'.shed >= host.shed
    <3>1. CASE PumpRead
      BY <1>0, <3>1, HostKeeps
    <3>2. CASE PumpCheck /\ host' = host
      BY <1>0, <3>2
    <3>3. CASE PumpCheck /\ host' # host
      <4> DEFINE l == Len(pump.bytes)
      <4>1. host' = [host EXCEPT !.shed = host.shed + l] /\ l \in Nat
        BY <3>3, PumpIs, Zenon DEF PumpCheck
      <4> HIDE DEF l
      <4>2. host'.shed = host.shed + l
        BY <4>1, <1>0 DEF HostState
      <4> QED BY <4>1, <4>2, <1>0
    <3> QED BY <1>7, <3>1, <3>2, <3>3
  <2> QED BY <1>0, <2>1, <2>2, <2>3 DEF CutVio
<1>8. CASE PumpAppend \/ HostWrites \/ HostReads
  <2>1. cuts' = cuts
    BY <1>8 DEF PumpAppend, HostWrites, HostReads
  <2>2. host'.dropped = host.dropped
    BY <1>8, PumpAppendTyped, HostWritesTyped, HostReadsTyped
  <2>3. host'.shed >= host.shed
    <3>1. CASE PumpAppend
      BY <3>1, PumpAppendTyped
    <3>2. CASE HostWrites \/ HostReads
      BY <1>0, <3>2, HostKeeps
    <3> QED BY <1>8, <3>1, <3>2
  <2> QED BY <1>0, <2>1, <2>2, <2>3 DEF CutVio
<1> QED BY <1>1, <1>2, <1>3, <1>4, <1>5, <1>6, <1>7, <1>8 DEF Next, Engine, Pump

(* Every step keeps the way whole, unless the supply goes or a byte is      *)
(* dropped or shed.                                                         *)
LEMMA CoreStep == ASSUME Tolerable, TypeOK, Core, [Next]_vars PROVE Core'
<1>1. CASE UNCHANGED vars
  <2>1. host' = host /\ cuts' = cuts
    BY <1>1 DEF vars
  <2>2. Steady => Steady'
    <3>1. Chain => Chain'
      BY <1>1 DEF vars, Chain
    <3>2. WokenDev => WokenDev'
      BY <1>1 DEF vars, WokenDev
    <3>3. WokenHost => WokenHost'
      BY <1>1 DEF vars, WokenHost
    <3>4. Remembered => Remembered'
      BY <1>1 DEF vars, Remembered
    <3>5. PumpOK => PumpOK'
      BY <1>1 DEF vars, PumpOK, RailKnown
    <3>6. Supply => Supply'
      BY <1>1 DEF vars, Supply, RailKnown, TxIdle
    <3> QED BY <3>1, <3>2, <3>3, <3>4, <3>5, <3>6 DEF Steady
  <2> QED BY <2>1, <2>2 DEF Core
<1>2. CASE Next
  <2>1. SUFFICES ASSUME cuts' = 0, host'.dropped = 0, host'.shed = 0 PROVE Steady'
    BY DEF Core
  <2>2. /\ cuts \in Nat /\ host.dropped \in Nat /\ cuts' >= cuts /\ host'.dropped >= host.dropped
        /\ host.shed \in Nat /\ host'.shed >= host.shed /\ (CutVio => cuts' > 0)
    BY <1>2, Counted
  <2>3. cuts = 0 /\ host.dropped = 0 /\ host.shed = 0 /\ ~CutVio
    BY <2>1, <2>2
  <2>4. Steady /\ host'.dropped = host.dropped /\ host'.shed = host.shed
    BY <2>1, <2>3 DEF Core
  <2>5. CASE \E x \in Ends : Receive(x)
    BY <2>4, <2>5, SteadyReceivesHost, SteadyReceivesDevice DEF Ends
  <2>6. CASE ServeDevice
    BY <2>4, <2>6, SteadyServesDevice
  <2>7. CASE ServeHost
    BY <2>4, <2>7, SteadyServesHost
  <2>8. CASE ServeHostTx
    BY <2>4, <2>8, SteadyServesHostTx
  <2>9. CASE ServeHostRx
    BY <2>4, <2>9, SteadyServesHostRx
  <2>10. CASE SenseGnd \/ SenseVio
    BY <2>4, <2>10, SteadySenses
  <2>11. CASE Advance
    BY <2>4, <2>11, SteadyAdvances
  <2>12. CASE PumpDrain
    BY <2>4, <2>12, SteadyDrains
  <2>13. CASE PumpRead
    BY <2>4, <2>13, SteadyReads
  <2>14. CASE PumpCheck
    BY <2>4, <2>14, SteadyChecks
  <2>15. CASE PumpAppend
    BY <2>4, <2>15, SteadyAppends
  <2>16. CASE PumpArm
    BY <2>4, <2>16, SteadyArms
  <2>17. CASE PumpSchedule
    BY <2>4, <2>17, SteadySchedules
  <2>18. CASE HostWrites
    BY <2>4, <2>18, SteadyWrites
  <2>19. CASE HostReads
    BY <2>4, <2>19, SteadyReadsPty
  <2> QED BY <1>2, <2>3, <2>5, <2>6, <2>7, <2>8, <2>9, <2>10, <2>11, <2>12, <2>13, <2>14, <2>15, <2>16,
             <2>17, <2>18, <2>19 DEF Next, Engine, Pump
<1> QED BY <1>1, <1>2

(* A stream no longer than a queue: what its bytes are, wherever they are,  *)
(* the device's queue has room for the answer.                              *)
Fits == cuts = 0 /\ host.dropped = 0 /\ Len(host.sent) <= QueueMax => host.shed = 0

(* The answers due are among the bytes sent.                                *)
LEMMA FitsTook ==
  ASSUME Tolerable, TypeOK, Len(host.sent) <= QueueMax, NEW T \in TxState, NEW V,
         CarriedOn(host, tx["host"], T, rx["host"], rx["dev"], wire["host"], V, pump.bytes, now),
         NEW r, Reads("dev", rx["dev"], wire["host"], now, r)
  PROVE  Took(T, Good(r.done))
<1> DEFINE h == host
           TH == tx["host"]
           RH == rx["host"]
           RD == rx["dev"]
           W == wire["host"]
           q == pump.bytes
           t == now
           s == host.sent
<1>1. /\ h \in HostState /\ TH \in TxState /\ RD \in RxState /\ q \in Seq(Byte) /\ t \in Nat
      /\ "host" \in Ends /\ Far("host") = "dev" /\ s \in Seq(Byte)
  BY EndsTyped, HostFields
<1>2. /\ CarriedOn(h, TH, T, RH, RD, W, V, q, t) /\ Reads("dev", RD, W, t, r) /\ s = h.sent
      /\ Len(s) <= QueueMax
  OBVIOUS
<1> HIDE DEF h, TH, RH, RD, W, q, t, s
<1>3. PICK b, d \in Nat : Carried(h, TH, T, RH, RD, W, V, q, t, b, d)
  BY <1>2 DEF CarriedOn
<1> DEFINE c == b + Len(T.pending)
           z == Good(r.done)
<1>4. c \in Nat /\ d <= Len(s) /\ Len(T.pending) \in Nat /\ Len(s) \in Nat
  BY <1>1, <1>2, <1>3, CarriedBounds
<1>5. Link("host", TH, RD, W, t, c, d, s)
  BY <1>2, <1>3 DEF Carried
<1>c. c = b + Len(T.pending)
  OBVIOUS
<1> HIDE DEF c
<1>6. Delivered("host", TH, r, W, t, c, d, s)
  BY <1>1, <1>2, <1>4, <1>5, LinkReads
<1>7. z \in Seq(Byte) /\ Link("host", TH, WithDone(r, <<>>), W, t, c + Len(z), d, s)
  BY <1>1, <1>4, <1>6, HandedOver
<1> HIDE DEF z
<1>8. Len(z) \in Nat /\ c + Len(z) \in Nat
  BY <1>4, <1>7, LenProperties
<1>9. c + Len(z) <= d
  BY <1>7, <1>8, LinkOrder
<1>10. Len(z) + Len(T.pending) <= QueueMax
  BY <1>2, <1>3, <1>4, <1>8, <1>9, <1>c, Constants
<1>11. Took(T, z)
  BY <1>7, <1>10, AcceptedIs
<1> QED BY <1>11 DEF z

(* No step of a stream that fits sheds a byte.                              *)
LEMMA FitsStep == ASSUME Tolerable, TypeOK, Core, Fits, [Next]_vars PROVE Fits'
<1>1. CASE UNCHANGED vars
  BY <1>1 DEF vars, Fits
<1>2. CASE Next
  <2>0. host \in HostState /\ Len(host.pty) <= PtyRoom
    BY PumpIs
  <2>1. SUFFICES ASSUME cuts' = 0, host'.dropped = 0, Len(host'.sent) <= QueueMax PROVE host'.shed = 0
    BY DEF Fits
  <2>2. /\ cuts \in Nat /\ host.dropped \in Nat /\ cuts' >= cuts /\ host'.dropped >= host.dropped
        /\ CutVio => cuts' > 0
    BY <1>2, Counted
  <2>3. cuts = 0 /\ host.dropped = 0 /\ ~CutVio
    BY <2>1, <2>2
  <2>4. ASSUME Len(host.sent) <= QueueMax PROVE host.shed = 0 /\ Steady
    BY <2>3, <2>4 DEF Fits, Core
  <2> DEFINE Same == host'.sent = host.sent /\ (Len(host.sent) <= QueueMax => host'.shed = host.shed)
  <2>5. Same => host'.shed = 0
    BY <2>1, <2>4
  <2> HIDE DEF Same
  <2>6. CASE Receive("host")
    <3>1. Taken("host", ReceivedAt("host"), tx["host"]) /\ wire["dev"] # Open
      BY <2>6, ReceiveHostIs
    <3>2. ReceivedAt("host").done \in OneFrame /\ WithDone(ReceivedAt("host"), <<>>) \in RxState
      BY <3>1, EndsTyped, ReceivedAtTyped
    <3> QED BY <2>5, <3>1, <3>2, EndsTyped, TakenIs DEF Same
  <2>7. CASE Receive("dev")
    <3> DEFINE r == ReceivedAt("dev")
    <3>1. Taken("dev", r, tx["dev"]) /\ wire["host"] # Open /\ wire["host"] # rx["dev"].level
      BY <2>7, ReceiveDevIs
    <3>2. r.done \in OneFrame /\ WithDone(r, <<>>) \in RxState
      BY <3>1, EndsTyped, ReceivedAtTyped
    <3>3. Reads("dev", rx["dev"], wire["host"], now, r)
      <4>1. wire["host"] \in Bits /\ Far("dev") = "host"
        BY <3>1, EndsTyped
      <4> QED BY <3>1, <4>1 DEF Reads, ReceivedAt
    <3> HIDE DEF r
    <3>4. Len(host.sent) <= QueueMax => Took(tx["dev"], Good(r.done))
      <4> SUFFICES ASSUME Len(host.sent) <= QueueMax PROVE Took(tx["dev"], Good(r.done))
        OBVIOUS
      <4>1. Chain
        BY <2>4 DEF Steady
      <4> DEFINE T == tx["dev"]
                 V == wire["dev"]
      <4>2. T \in TxState /\ CarriedOn(host, tx["host"], T, rx["host"], rx["dev"], wire["host"], V, pump.bytes, now)
        BY <4>1, EndsTyped DEF Chain
      <4> HIDE DEF T, V
      <4>3. Took(T, Good(r.done))
        BY <3>3, <4>2, FitsTook
      <4> QED BY <4>3 DEF T
    <3>5. host'.sent = host.sent /\ (Took(tx["dev"], Good(r.done)) => host'.shed = host.shed)
      BY <3>1, <3>2, EndsTyped, TakenIs
    <3> QED BY <2>5, <3>4, <3>5 DEF Same
  <2>8. CASE ServeDevice
    <3> DEFINE r == DevicePolled
               out == DeviceOut
               T == DeviceOut.tx
               V == OnWire(DeviceOut, wire["dev"])
    <3>1. PICK w : DeviceServed(w)
      BY <2>8, ServeDeviceIs
    <3>2. Taken("dev", r, T) /\ engine = "loop" /\ Settled
      BY <3>1 DEF DeviceServed
    <3>3. /\ out = ServiceTx("dev", tx["dev"], now) /\ r = Poll("dev", rx["dev"], now) /\ T = out.tx
          /\ V = OnWire(out, wire["dev"])
      BY DEF DeviceOut, DevicePolled
    <3> HIDE DEF r, out, T, V
    <3>4. r.done \in OneFrame /\ WithDone(r, <<>>) \in RxState /\ T \in TxState
      BY <3>3, EndsTyped, PolledTyped, ServiceTyped
    <3>5. Len(host.sent) <= QueueMax => Took(T, Good(r.done))
      <4> SUFFICES ASSUME Len(host.sent) <= QueueMax PROVE Took(T, Good(r.done))
        OBVIOUS
      <4>1. Chain /\ wire["dev"] # Open
        BY <2>4 DEF Steady, Supply
      <4>2. wire["dev"] = rx["host"].level /\ wire["host"] \in {Open, rx["dev"].level}
        BY <4>1, <3>2, SettledEnds
      <4> DEFINE WD == wire["dev"]
                 O == tx["dev"]
      <4>3. /\ O \in TxState /\ WD = rx["host"].level /\ V = OnWire(out, WD) /\ out = ServiceTx("dev", O, now)
            /\ CarriedOn(host, tx["host"], O, rx["host"], rx["dev"], wire["host"], WD, pump.bytes, now)
        BY <4>1, <4>2, <3>3, EndsTyped DEF Chain
      <4> HIDE DEF WD, O
      <4>4. SentAs(host, tx["host"], out.tx, rx["host"], rx["dev"], wire["host"], V, pump.bytes, now, O, out.tx)
        BY <4>3, DeviceSends
      <4>5. CarriedOn(host, tx["host"], T, rx["host"], rx["dev"], wire["host"], V, pump.bytes, now)
        BY <4>4, <3>3, Zenon DEF SentAs
      <4>6. Reads("dev", rx["dev"], wire["host"], now, r)
        BY <3>3, <4>2 DEF Reads
      <4> QED BY <3>4, <4>5, <4>6, FitsTook
    <3>6. host'.sent = host.sent /\ (Took(T, Good(r.done)) => host'.shed = host.shed)
      BY <3>2, <3>4, EndsTyped, TakenIs
    <3> QED BY <2>5, <3>5, <3>6 DEF Same
  <2>9. CASE ServeHostRx
    <3>1. Taken("host", HostPolled, tx["host"])
      BY <2>9, ServeHostRxIs
    <3>2. HostPolled.done \in OneFrame /\ WithDone(HostPolled, <<>>) \in RxState
      BY HostPolledTyped
    <3> QED BY <2>5, <3>1, <3>2, EndsTyped, TakenIs DEF Same
  <2>10. CASE ServeHost \/ ServeHostTx \/ Advance \/ PumpArm \/ PumpSchedule \/ SenseGnd \/ SenseVio
    <3>1. host' = host
      BY <2>10 DEF ServeHost, ServeHostTx, Advance, PumpArm, PumpSchedule, SenseGnd, SenseVio, Sensed
    <3> QED BY <2>5, <3>1 DEF Same
  <2>11. CASE PumpDrain
    <3>1. Good(<<>>) \in Seq(Byte) /\ host' = Drain(host, <<>>)
      BY <2>11, GoodNone, EmptySeq DEF PumpDrain
    <3>2. host'.sent = host.sent /\ host'.shed = host.shed
      BY <2>0, <3>1, DrainTyped
    <3> QED BY <2>5, <3>2 DEF Same
  <2>12. CASE PumpRead \/ HostWrites \/ HostReads
    BY <2>0, <2>5, <2>12, HostKeeps DEF Same
  <2>13. CASE PumpCheck
    <3>1. host'.sent = host.sent
      BY <2>0, <2>13 DEF PumpCheck, HostState
    <3>2. Steady => host' = host
      BY <2>13 DEF PumpCheck, Steady, PumpOK, Supply, RailKnown
    <3> QED BY <2>1, <2>4, <3>1, <3>2
  <2>14. CASE PumpAppend
    <3>1. host'.sent = host.sent /\ (AppendCount = Len(pump.bytes) => host'.shed = host.shed) /\ pump.pc = "append"
      BY <2>14, PumpAppendTyped, PumpAppendIs
    <3>2. Steady => AppendCount = Len(pump.bytes)
      BY <3>1, AppendedTyped DEF Steady, PumpOK
    <3> QED BY <2>4, <2>5, <3>1, <3>2 DEF Same
  <2> QED BY <1>2, <2>3, <2>6, <2>7, <2>8, <2>9, <2>10, <2>11, <2>12, <2>13, <2>14
          DEF Next, Engine, Pump, Ends
<1> QED BY <1>1, <1>2

(* While the supply holds and neither drain_outbound nor transmit sheds a   *)
(* byte, every byte is in its one place on the way out and back, and has    *)
(* its wake, whatever the pump and the engine do between each other's locks;*)
(* and transmit sheds none of a stream no longer than TX_QUEUE_MAX.         *)
THEOREM CoreAlways == ASSUME Tolerable PROVE Spec => [](TypeOK /\ Core /\ Fits)
<1>1. Init => TypeOK /\ Core /\ Fits
  <2>1. Init => host.shed = 0
    BY DEF Init
  <2> QED BY <2>1, InitTyped, InitSteady DEF Core, Fits
<1>2. TypeOK /\ Core /\ Fits /\ [Next]_vars => (TypeOK /\ Core /\ Fits)'
  BY TypeStep, CoreStep, FitsStep
<1> QED BY <1>1, <1>2, PTL DEF Spec

(* What is in front of the wire is a prefix of what was sent.               *)
LEMMA FrontIsPrefix ==
  ASSUME NEW h \in HostState, Front(h), Behind(h) <= Len(h.sent),
         NEW q, q = h.got \o h.pty \o h.outbound
  PROVE  Len(q) \in Nat /\ Len(q) <= Len(h.sent) /\ \A i \in 1..Len(q) : q[i] = h.sent[i]
<1>1. /\ h.got \in Seq(Byte) /\ h.pty \in Seq(Byte) /\ h.outbound \in Seq(Byte) /\ h.sent \in Seq(Byte)
      /\ Len(h.got) \in Nat /\ Len(h.pty) \in Nat /\ Len(h.outbound) \in Nat
  BY HostFields
<1> DEFINE g == h.got
           u == h.pty
           o == h.outbound
           s == h.sent
           z == g \o u
<1>2. /\ g \in Seq(Byte) /\ u \in Seq(Byte) /\ o \in Seq(Byte) /\ s \in Seq(Byte)
      /\ Len(g) \in Nat /\ Len(u) \in Nat /\ Len(o) \in Nat
      /\ Part(g, s, 0) /\ Part(u, s, Len(g)) /\ Part(o, s, Len(g) + Len(u))
      /\ Len(g) + Len(u) + Len(o) <= Len(s)
  BY <1>1 DEF Front, Behind
<1> HIDE DEF g, u, o, s
<1>3. 0 + Len(g) = Len(g) /\ Len(z) = Len(g) + Len(u) /\ z \in Seq(Byte)
  BY <1>2, ConcatProperties
<1>4. Part(z, s, 0)
  BY <1>2, <1>3, PartConcat
<1> HIDE DEF z
<1>5. 0 + Len(z) = Len(g) + Len(u) /\ Len(z) \in Nat
  BY <1>2, <1>3
<1>p. Len(z \o o) = Len(z) + Len(o) /\ z \o o \in Seq(Byte)
  <2>1. z \in Seq(Byte) /\ o \in Seq(Byte)
    BY <1>2, <1>3
  <2> QED BY ONLY <2>1, ConcatProperties
<1>6. Part(z \o o, s, 0)
  <2> DEFINE m == Len(g) + Len(u)
             n == 0 + Len(z)
  <2>1. Part(o, s, m) /\ n = m
    BY <1>2, <1>5
  <2> HIDE DEF m
  <2>2. Part(o, s, n)
    BY <2>1
  <2>3. Part(o, s, 0 + Len(z))
    BY <2>2
  <2> QED BY <2>3, <1>2, <1>3, <1>4, PartConcat
<1>7. Len(z \o o) <= Len(s)
  BY <1>2, <1>3, <1>p
<1> DEFINE v == z \o o
<1>8. v \in Seq(Byte) /\ Part(v, s, 0) /\ Len(v) <= Len(s) /\ Len(v) \in Nat
  BY <1>p, <1>6, <1>7, LenProperties
<1>9. q = v
  BY Zenon DEF z, g, u, o
<1> HIDE DEF v
<1>10. \A i \in 1..Len(v) : v[i] = s[i]
  <2>1. \A i \in 1..Len(v) : 0 + i = i
    BY <1>8
  <2> QED BY <2>1, <1>8 DEF Part
<1> QED BY <1>8, <1>9, <1>10 DEF s

(* The ends, as the carriage names them.                                    *)
LEMMA SteadyCarried ==
  ASSUME TypeOK, Steady
  PROVE  \E b, d \in Nat : Carried(host, tx["host"], tx["dev"], rx["host"], rx["dev"],
                                   wire["host"], wire["dev"], pump.bytes, now, b, d)
  BY DEF Steady, Chain, CarriedOn

(* EchoInOrder: what deliver and drain_outbound have brought back is what   *)
(* the host sent, in order and without a gap, as long as transmit sheds     *)
(* nothing, which it does not of a stream no longer than TX_QUEUE_MAX.      *)
THEOREM EchoInOrderAlways ==
  ASSUME Tolerable
  PROVE  Spec => [](host.shed = 0 \/ Len(host.sent) <= QueueMax => EchoInOrder)
<1>1. ASSUME TypeOK, Core, cuts = 0 /\ host.dropped = 0 => host.shed = 0 PROVE EchoInOrder
  <2> DEFINE n == Len(Returned)
             L == [i \in 1..n |-> 0]
  <2>1. SUFFICES ASSUME cuts = 0, host.dropped = 0
                 PROVE  \E lost \in [1..n -> 0..host.shed] : \A i \in 1..n :
                          /\ i + lost[i] <= Len(host.sent) /\ Returned[i] = host.sent[i + lost[i]]
                          /\ i > 1 => lost[i - 1] <= lost[i]
    BY Zenon DEF EchoInOrder
  <2>2. Steady /\ host.shed = 0
    BY <1>1, <2>1 DEF Core
  <2>3. PICK b \in Nat, d \in Nat : Carried(host, tx["host"], tx["dev"], rx["host"], rx["dev"],
                                            wire["host"], wire["dev"], pump.bytes, now, b, d)
    BY <1>1, <2>2, SteadyCarried
  <2>4. host \in HostState /\ pump.bytes \in Seq(Byte) /\ tx["host"] \in TxState /\ tx["dev"] \in TxState
    BY <1>1, PumpIs, EndsTyped
  <2>5. Behind(host) \in Nat /\ Behind(host) <= b /\ b <= Len(host.sent) /\ Len(host.sent) \in Nat
    BY <2>3, <2>4, CarriedBounds
  <2>6. Front(host) /\ Behind(host) <= Len(host.sent)
    BY <2>3, <2>5 DEF Carried
  <2>7. n \in Nat /\ n <= Len(host.sent) /\ \A i \in 1..n : Returned[i] = host.sent[i]
    BY <2>4, <2>6, FrontIsPrefix DEF Returned
  <2> HIDE DEF n
  <2>8. \A i \in 1..n : L[i] = 0 /\ i + L[i] = i /\ (i > 1 => i - 1 \in 1..n /\ L[i - 1] = 0)
    BY <2>7
  <2>9. L \in [1..n -> 0..host.shed]
    <3>1. 0 \in 0..host.shed
      BY <2>2
    <3> QED BY <3>1
  <2> HIDE DEF L
  <2>10. \A i \in 1..n : /\ i + L[i] <= Len(host.sent) /\ Returned[i] = host.sent[i + L[i]]
                         /\ i > 1 => L[i - 1] <= L[i]
    BY <2>5, <2>7, <2>8
  <2> QED BY <2>9, <2>10, Zenon
<1>2. TypeOK /\ Core /\ Fits => (host.shed = 0 \/ Len(host.sent) <= QueueMax => EchoInOrder)
  BY <1>1 DEF Fits
<1> QED BY <1>2, CoreAlways, PTL

(* A wire whose wakes are all spent is quiet, and has delivered what was    *)
(* started on it.                                                           *)
LEMMA QuietLink ==
  ASSUME NEW x, NEW T, NEW R, NEW W, NEW t, NEW a, NEW b, NEW s, Link(x, T, R, W, t, a, b, s),
         T.due = None, R.start = None
  PROVE  b = a
  BY DEF Link, Quiet, Sending, SendingBit, Driving, SeenWhole

(* A drain that changes nothing with the PTY empty leaves nothing queued.   *)
LEMMA DrainedDry ==
  ASSUME NEW h \in HostState, h.pty = <<>>, Drain(h, <<>>) = h
  PROVE  Len(h.outbound) = 0
<1>1. Good(<<>>) = <<>> /\ Good(<<>>) \in Seq(Byte) /\ Len(Good(<<>>)) = 0 /\ Len(h.pty) = 0
  BY GoodNone, EmptySeq
<1>2. Len(h.pty) <= PtyRoom /\ PtyRoom \in Nat \ {0} /\ Len(h.outbound) \in Nat
  BY <1>1, Constants, HostFields
<1> DEFINE n == <<>>
<1>3. Good(n) \in Seq(Byte) /\ h = Drain(h, n) /\ Len(Good(n)) = 0
  BY <1>1
<1> HIDE DEF n
<1> DEFINE g == h
<1>g. g = Drain(h, n) /\ g = h
  BY <1>3
<1> HIDE DEF g
<1>4. PICK Q, w, k, e : Drained(h, n, g, Q, w, k, e)
  BY <1>g, DrainFields DEF IsDrained
<1>5. /\ Len(Q) \in Nat /\ Len(Q) = Len(h.outbound) + Len(Good(n)) /\ w \in Nat
      /\ SubSeq(Q, 1, w) \in Seq(Byte) /\ Len(SubSeq(Q, 1, w)) = w
  <2>1. Len(h.pty) <= PtyRoom /\ Good(n) \in Seq(Byte) /\ h \in HostState
    BY <1>2, <1>3
  <2> QED BY ONLY <2>1, <1>4, DrainedPieces
<1>6. w = Lesser(Len(Q), PtyRoom - Len(h.pty)) /\ h.pty = h.pty \o SubSeq(Q, 1, w)
  BY <1>4, <1>g DEF Drained
<1>7. w = 0
  <2>1. h.pty \in Seq(Byte)
    BY HostFields
  <2> DEFINE c == SubSeq(Q, 1, w)
  <2>2. c \in Seq(Byte) /\ Len(c) = w /\ h.pty = h.pty \o c
    BY <1>5, <1>6
  <2> HIDE DEF c
  <2>3. Len(h.pty \o c) = Len(h.pty) + Len(c)
    BY <2>1, <2>2, ConcatProperties
  <2>4. Len(h.pty) = Len(h.pty) + Len(c)
    BY <2>2, <2>3
  <2> QED BY <2>2, <2>4, <1>1, <1>5
<1>8. Len(Q) = 0
  BY <1>1, <1>2, <1>5, <1>6, <1>7 DEF Lesser
<1> QED BY <1>2, <1>3, <1>5, <1>8

(* With nothing on the wheel neither end sends, receives or holds a byte.   *)
LEMMA StillEnds ==
  ASSUME TypeOK, Steady, Still
  PROVE  /\ tx["host"].due = None /\ tx["dev"].due = None
         /\ rx["host"].start = None /\ rx["dev"].start = None
         /\ tx["host"].pending = <<>> /\ tx["dev"].pending = <<>>
<1>1. wheel = {} /\ engine = "loop" /\ pump.pc = "loop"
  BY DEF Still
<1>2. \A x, t : ~HasWake(wheel, x, t)
  BY <1>1 DEF HasWake
<1>3. /\ TxWoken(wheel, "dev", tx["dev"]) /\ RxWoken(wheel, "dev", rx["dev"])
      /\ Kicked(wheel, "dev", tx["dev"], now)
  BY DEF Steady, WokenDev
<1>4. /\ TxWoken(wheel, "host", tx["host"]) /\ RxWoken(wheel, "host", rx["host"])
      /\ Kicked(wheel, "host", tx["host"], now)
  BY <1>1 DEF Steady, WokenHost
<1>5. tx["dev"].due = None /\ rx["dev"].start = None /\ tx["dev"].pending = <<>>
  BY <1>2, <1>3 DEF TxWoken, RxWoken, Kicked
<1>6. tx["host"].due = None /\ rx["host"].start = None /\ tx["host"].pending = <<>>
  BY <1>2, <1>4 DEF TxWoken, RxWoken, Kicked
<1> QED BY <1>5, <1>6

(* A transmitter with something to send has its wake: the pump's kick and   *)
(* the engine's wakes share armed_ns (SerialLevelBridge::arm) and lose none *)
(* while the supply holds and no byte is dropped or shed.                   *)
THEOREM NeverWedgedAlways ==
  ASSUME Tolerable
  PROVE  Spec => [](cuts = 0 /\ host.dropped = 0 /\ (host.shed = 0 \/ Len(host.sent) <= QueueMax) => NeverWedged)
<1>1. ASSUME TypeOK, Core, cuts = 0, host.dropped = 0, host.shed = 0 PROVE NeverWedged
  <2>1. Steady
    BY <1>1 DEF Core
  <2>2. /\ tx["host"].due = None => tx["host"].bits = <<>>
        /\ tx["dev"].due = None => tx["dev"].bits = <<>>
    BY <2>1, ChainQuietBits DEF Steady, Chain
  <2>3. SUFFICES ASSUME NEW x \in Ends, ~TxIdle(tx[x]), engine = "loop",
                        x = "host" => pump.pc \notin {"arm", "schedule"}
                 PROVE  HasWake(wheel, x, IF tx[x].due = None THEN now ELSE tx[x].due)
    BY DEF NeverWedged, HasWake
  <2>4. TxWoken(wheel, x, tx[x]) /\ Kicked(wheel, x, tx[x], now)
    BY <2>1, <2>3 DEF Steady, WokenDev, WokenHost, Ends
  <2>5. CASE tx[x].due # None
    BY <2>4, <2>5 DEF TxWoken
  <2>6. CASE tx[x].due = None
    <3>1. tx[x].pending # <<>>
      BY <2>2, <2>3, <2>6 DEF TxIdle, Ends
    <3> QED BY <2>4, <2>6, <3>1 DEF Kicked
  <2> QED BY <2>5, <2>6
<1>2. TypeOK /\ Core /\ Fits =>
        (cuts = 0 /\ host.dropped = 0 /\ (host.shed = 0 \/ Len(host.sent) <= QueueMax) => NeverWedged)
  BY <1>1 DEF Fits
<1> QED BY <1>2, CoreAlways, PTL

(* EchoArrives: when the pump, the engine and the host have nothing left to *)
(* do, every byte is back, as long as transmit sheds nothing: none is left  *)
(* in a queue, a frame or a bit.                                            *)
THEOREM EchoArrivesAlways ==
  ASSUME Tolerable
  PROVE  Spec => [](host.shed = 0 \/ Len(host.sent) <= QueueMax => EchoArrives)
<1>1. ASSUME TypeOK, Core, cuts = 0 /\ host.dropped = 0 => host.shed = 0 PROVE EchoArrives
  <2>1. SUFFICES ASSUME Still, cuts = 0, host.dropped = 0
                 PROVE  Len(host.got) = Len(host.sent)
    <3>1. ASSUME Len(host.got) = Len(host.sent), host.shed = 0
          PROVE  Len(host.got) + host.shed = Len(host.sent)
      <4>1. Len(host.got) \in Nat
        BY <1>1, PumpIs, HostFields
      <4> QED BY <3>1, <4>1
    <3> QED BY <1>1, <3>1 DEF EchoArrives
  <2>2. Steady
    BY <1>1, <2>1 DEF Core
  <2>3. PICK b \in Nat, d \in Nat : Carried(host, tx["host"], tx["dev"], rx["host"], rx["dev"],
                                            wire["host"], wire["dev"], pump.bytes, now, b, d)
    BY <1>1, <2>2, SteadyCarried
  <2>4. /\ tx["host"].due = None /\ tx["dev"].due = None
        /\ rx["host"].start = None /\ rx["dev"].start = None
        /\ tx["host"].pending = <<>> /\ tx["dev"].pending = <<>>
    BY <1>1, <2>1, <2>2, StillEnds
  <2>5. Link("dev", tx["dev"], rx["host"], wire["dev"], now, Behind(host), b, host.sent)
        /\ Link("host", tx["host"], rx["dev"], wire["host"], now, b + Len(tx["dev"].pending), d, host.sent)
    BY <2>3 DEF Carried
  <2>6. b = Behind(host)
    BY <2>4, <2>5, QuietLink
  <2>7. d = b + Len(tx["dev"].pending)
    BY <2>4, <2>5, QuietLink
  <2>8. /\ Part(host.got, host.sent, 0)
        /\ d + Len(tx["host"].pending) + Len(pump.bytes) + Len(host.inbox) + Len(host.unsent) = Len(host.sent)
    BY <2>3 DEF Carried, Front, Back
  <2>9. host.unsent = <<>> /\ host.pty = <<>> /\ host.inbox = <<>> /\ pump.bytes = <<>>
    <3>1. Len(tx["host"].pending) = 0 /\ QueueMax # 0
      BY <2>4, Constants
    <3>2. host.unsent = <<>> /\ host.pty = <<>> /\ host.inbox = <<>> /\ pump.pc = "loop"
      BY <2>1, <3>1, Constants DEF Still, TxRoom
    <3> QED BY <3>2, <2>2 DEF Steady, PumpOK
  <2>10. host \in HostState /\ host.got \in Seq(Byte) /\ host.sent \in Seq(Byte)
         /\ Len(host.got) \in Nat /\ Len(host.sent) \in Nat
    BY <1>1, PumpIs, HostFields
  <2>11. Len(host.outbound) = 0 /\ Len(host.pty) = 0
    BY <2>1, <2>9, <2>10, DrainedDry DEF Still
  <2>12. Len(host.got) = Len(host.sent)
    <3>1. Behind(host) = Len(host.got)
      BY <2>10, <2>11 DEF Behind
    <3>2. /\ Len(tx["host"].pending) = 0 /\ Len(tx["dev"].pending) = 0 /\ Len(pump.bytes) = 0
          /\ Len(host.inbox) = 0 /\ Len(host.unsent) = 0
      BY <2>4, <2>9
    <3>3. d = Len(host.got)
      BY <2>6, <2>7, <2>10, <3>1, <3>2
    <3> QED BY <2>8, <2>10, <3>2, <3>3
  <2> QED BY <2>12
<1>2. TypeOK /\ Core /\ Fits => (host.shed = 0 \/ Len(host.sent) <= QueueMax => EchoArrives)
  BY <1>1 DEF Fits
<1> QED BY <1>2, CoreAlways, PTL

=============================================================================
