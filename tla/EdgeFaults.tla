----------------------------- MODULE EdgeFaults -----------------------------
(***************************************************************************)
(* The timed level faults of board/src/engine.rs.  A fault counts the      *)
(* drives published on one pin, or on every pin of a net, and is in force  *)
(* for a window of them: a float hides the drives it counts, a stuck hides *)
(* them and holds the net itself, a contention holds the net beside them.  *)
(* All of it happens inside apply_drive, one drive at a time on the engine *)
(* thread, and the nets are resolved once at its end, so a drive is one    *)
(* step.                                                                   *)
(***************************************************************************)
EXTENDS Naturals

CONSTANTS
  Pins,      \* pins with a drive slot
  NetOf,     \* the net each pin is on
  Rails,     \* the PowerOut pins: a terminal's, which no net fault releases
  Idle,      \* the pins whose declaration drives them from the start
  Faults,    \* installed faults: [target, net, kind, after, count]
  AnyPin,    \* the target of a fault that counts every drive on its net
  MaxSeen    \* the largest count a fault holds (u64 in the code)

Kinds == {"float", "stuck", "contention"}

ASSUME FaultAssumption ==
  /\ AnyPin \notin Pins /\ Idle \cup Rails \subseteq Pins /\ MaxSeen \in Nat
  /\ \A f \in Faults : /\ f.target \in Pins \cup {AnyPin} /\ f.kind \in Kinds
                       /\ f.after \in 0..MaxSeen /\ f.count \in 0..MaxSeen
                       /\ f.target \in Pins => f.net = NetOf[f.target]

VARIABLES
  drives,    \* whether each slot drives its net (DriveSlot.drive)
  requested, \* whether the last drive a pin published was a drive, not a release
  seen,      \* LiveEdgeFault.seen of each fault
  holds      \* whether each fault's terminal holds its net

vars == <<drives, requested, seen, holds>>

-----------------------------------------------------------------------------
Saturated(n) == IF n > MaxSeen THEN MaxSeen ELSE n

WindowEnd(f) == Saturated(f.after + f.count)

CoversEdge(f, edge) == f.after <= edge /\ edge < WindowEnd(f)

(* The window covers the drive about to be applied. *)
WindowOpenFault(f) == CoversEdge(f, seen[f] + 1)   \* read after the drive counts
WindowOpen(f) == CoversEdge(f, seen[f])

(* The last matching drive was covered; before any, the next one will be. *)
SourceHeldFault(f, n) == CoversEdge(f, n)      \* on, and off, one drive early
SourceHeld(f, n) == IF n = 0 THEN CoversEdge(f, 0) ELSE CoversEdge(f, n - 1)

Counts(f, p) == IF f.target = AnyPin THEN NetOf[p] = f.net ELSE f.target = p

SuppressesForEver(f, p) == /\ f.kind # "contention" /\ Counts(f, p)
                           /\ f.after <= seen[f]            \* the window never closes
Suppresses(f, p) == WindowOpen(f) /\ f.kind # "contention" /\ Counts(f, p)

Suppressed(p) == \E f \in Faults : Suppresses(f, p)

(* spawn: sync_edge_terminals runs before the initial pass. *)
Init ==
  /\ drives = [p \in Pins |-> p \in Idle]
  /\ requested = [p \in Pins |-> p \in Idle]
  /\ seen = [f \in Faults |-> 0]
  /\ holds = [f \in Faults |-> f.kind # "float" /\ SourceHeld(f, 0)]

(* release_suppressed_endpoints: the pins of the net that an open window   *)
(* covers let go, rails aside, and the publishing one, whose slot is next.  *)
LetsGo(p, q) == q \notin Rails \cup {p} /\ NetOf[q] = NetOf[p] /\ Suppressed(q)

(* apply_drive of a drive (d) or a release of pin p. *)
ApplyDrive(p, d) ==
  /\ drives' = [q \in Pins |-> IF q = p THEN d /\ ~Suppressed(p)
                                        ELSE drives[q] /\ ~LetsGo(p, q)]
  /\ requested' = [requested EXCEPT ![p] = d]
  /\ seen' = [f \in Faults |-> IF Counts(f, p) THEN Saturated(seen[f] + 1) ELSE seen[f]]
  /\ holds' = [f \in Faults |-> f.kind # "float" /\ SourceHeld(f, seen'[f])]

Next == \E p \in Pins, d \in BOOLEAN : ApplyDrive(p, d)

Spec == Init /\ [][Next]_vars

-----------------------------------------------------------------------------
TypeOK ==
  /\ drives \in [Pins -> BOOLEAN] /\ requested \in [Pins -> BOOLEAN]
  /\ seen \in [Faults -> 0..MaxSeen] /\ holds \in [Faults -> BOOLEAN]

(* A stuck source never fights a drive it replaces (source_held's doc):    *)
(* while it holds the net, every pin it counts but a rail has let go.       *)
NeverFights ==
  \A f \in Faults, p \in Pins \ Rails :
    f.kind = "stuck" /\ holds[f] /\ Counts(f, p) => ~drives[p]

(* A pin under pin faults only is hidden exactly while the drive in effect  *)
(* is one its window covers, so a stuck pin's net is never left floating:   *)
(* the source that replaces the drive is on.                                *)
PinTargeted(p) == \A f \in Faults : Counts(f, p) => f.target = p
InForce(f) == seen[f] > 0 /\ CoversEdge(f, seen[f] - 1)
HiddenExactlyInWindow ==
  \A p \in Pins : PinTargeted(p) =>
    (requested[p] /\ ~drives[p] <=>
       requested[p] /\ \E f \in Faults : f.kind # "contention" /\ Counts(f, p) /\ InForce(f))

(* A drive on a net whose faults have all run out is visible at once, and   *)
(* no source is left behind on the net.                                     *)
Over(f) == seen[f] > WindowEnd(f)
FaultsEnd ==
  [][\A p \in Pins :
       /\ \A f \in Faults : f.net = NetOf[p] => Over(f)
       /\ requested'[p] # requested[p]
       => drives'[p] = requested'[p]
          /\ \A f \in Faults : f.net = NetOf[p] => ~holds'[f]]_vars
=============================================================================
