------------------------------ MODULE NetRules ------------------------------
(***************************************************************************)
(* The rules by which the resolver of board/src/engine.rs gives every net  *)
(* a state: what the drives of a board, its rails and its resistors make    *)
(* of each net.  Volts are tenths, ohms are whole.  Nets are their own     *)
(* identity roots, the elements (diodes, transistors) and the current       *)
(* injections are left out, and the cluster solve is the mean of the       *)
(* sources weighted by conductance, which is the solve wherever their       *)
(* paths to the net are disjoint.                                          *)
(***************************************************************************)
EXTENDS EdgeFaults, Integers, Sequences, Functions, FiniteSetsExt

CONSTANTS
  Nets,         \* the nets, numbered as the engine numbers them
  Resistors,    \* conduction edges: [ends, ohms]
  Capacitors,   \* coupling capacitors: [ends, reactance (ohms at each rate)]
  AnalogNets    \* nets with an analog sense

ASSUME NetAssumption ==
  /\ NetOf \in [Pins -> Nets]
  /\ \A f \in Faults : f.net \in Nets
  /\ \A e \in Resistors \cup Capacitors : e.ends \subseteq Nets

Stuck == {f \in Faults : f.kind # "float"}
Terminals == {NetOf[p] : p \in Rails} \cup {f.net : f \in Stuck}

Infinite == 100000000
WeakDriveOhms == 1000
CoupledReachOhms == WeakDriveOhms
EscalationRatio == 10
VIL == 8
VIH == 20
LogicThreshold == 15

Unmodelled == -1000   \* sourced at a voltage no model declares
Nothing == -2000      \* no voltage

-----------------------------------------------------------------------------
(* Drives: two ports and the segment that alternates them.                 *)
Static(v, z) == LET port == [v |-> v, z |-> z] IN [hi |-> port, lo |-> port, seg |-> "none"]
Wave(v, z, seg) == [hi |-> [v |-> v, z |-> z], lo |-> [v |-> 0, z |-> z], seg |-> seg]
Released == Static(0, Infinite)

IsPeriodic(d) == d.seg # "none"
Port(d, phase) == IF phase = "high" THEN d.hi ELSE d.lo

(* What a rail's slot makes its terminal hold. *)
FromSlot(d) == IF IsPeriodic(d) \/ d.hi.z = Infinite THEN Nothing ELSE d.hi.v

(* decide_terminal, from the value of each rail and stuck source on it. *)
Decide(rail, stuck) ==
  LET values == {rail[s] : s \in DOMAIN rail} \cup {stuck[f] : f \in DOMAIN stuck}
      volts == {v \in values : v >= 0}
      Rail(s) == IF rail[s] >= 0 THEN rail[s] ELSE 0
      Held(f) == IF stuck[f] >= 0 THEN stuck[f] ELSE 0
      sum == MapThenSumSet(Rail, DOMAIN rail) + MapThenSumSet(Held, DOMAIN stuck)
      count == Cardinality({s \in DOMAIN rail : rail[s] >= 0})
               + Cardinality({f \in DOMAIN stuck : stuck[f] >= 0})
  IN  CASE volts = {} ->
             [v |-> IF Unmodelled \in values THEN Unmodelled ELSE Nothing, fought |-> FALSE]
        [] Cardinality(volts) = 1 -> [v |-> Min(volts), fought |-> FALSE]
        [] OTHER -> [v |-> sum \div count, fought |-> TRUE]

-----------------------------------------------------------------------------
(* The topology, fixed once the board is built.                            *)

(* min_path_ohms: a path ends at a terminal and never continues past one. *)
Passable(from, n) == n = from \/ n \notin Terminals
(* Every way over the edges that comes back to no net: the nets it passes,  *)
(* its ohms (a capacitor has none) and the capacitors it crosses, each with *)
(* the net it is crossed into.                                              *)
Ways ==
  LET To(w) == w.nets[Len(w.nets)]
      Onward(w) == {m \in Nets \ Range(w.nets) : Passable(w.nets[1], To(w))}
      By(w, edges) == {y \in Onward(w) \X edges : y[2].ends = {To(w), y[1]}}
      Grown(w) ==
        {[nets |-> Append(w.nets, y[1]), ohms |-> w.ohms + y[2].ohms, path |-> w.path] :
           y \in By(w, Resistors)}
        \cup {[nets |-> Append(w.nets, y[1]), ohms |-> w.ohms,
               path |-> Append(w.path, [cap |-> y[2], into |-> y[1]])] : y \in By(w, Capacitors)}
      Of[k \in 1..Cardinality(Nets)] ==
        IF k = 1 THEN {[nets |-> <<n>>, ohms |-> 0, path |-> <<>>] : n \in Nets}
        ELSE UNION {Grown(w) : w \in Of[k - 1]}
  IN  UNION {Of[k] : k \in 1..Cardinality(Nets)}

WaysBetween(r, s) == {w \in Ways : w.nets[1] = r /\ w.nets[Len(w.nets)] = s}

Ohms == [r \in Nets |-> [s \in Nets |->
  Min({Infinite} \cup {w.ohms : w \in {x \in WaysBetween(r, s) : x.path = <<>>}})]]

(* A union of clusters: no edge between two nets that are not terminals     *)
(* leaves it.                                                               *)
Inner == Nets \ Terminals
Joined(S) == \A e \in Resistors : e.ends \subseteq Inner /\ e.ends \cap S # {} => e.ends \subseteq S
ClusterOf ==
  [n \in Nets |-> IF n \in Terminals THEN {n}
                  ELSE {m \in Inner : \A S \in SUBSET Inner : Joined(S) /\ n \in S => m \in S}]
Clusters == {ClusterOf[n] : n \in Nets}

Boundary == [c \in Clusters |->
  {t \in Terminals : \E e \in Resistors, n \in c \ Terminals : e.ends = {n, t}}]
Reads(c) == (c \cap Terminals) \cup Boundary[c]
DependentsFault(t) == {}                      \* a rail moves nothing past its own net
Dependents(t) == {c \in Clusters : t \in Boundary[c]}
SlotsIn(c) == {s \in Pins \ Rails : NetOf[s] \in c}

FarOhms(n) == Min({Infinite} \cup {e.ohms : e \in {x \in Resistors : n \in x.ends}})

(* coupled_reach: the cheapest way over resistors and capacitors.           *)
CoupledReach(r, s) ==
  CHOOSE w \in WaysBetween(r, s) : \A x \in WaysBetween(r, s) :
    w.ohms < x.ohms \/ (w.ohms = x.ohms /\ Len(w.path) <= Len(x.path))

(* ensure_reach: the nets a rate on a net reaches, and the crossings to each. *)
Coupled ==
  LET Reached(from) ==
        {m \in Nets \ Terminals : WaysBetween(from, m) # {} /\ ClusterOf[m] # ClusterOf[from]}
      All(from) ==
        {[net |-> m, ohms |-> CoupledReach(from, m).ohms, crossings |-> CoupledReach(from, m).path] :
           m \in Reached(from)}
  IN  [from \in Nets |->
         {x \in All(from) : x.ohms < CoupledReachOhms /\ x.crossings # <<>>}]

CoupledClusters(s) == {ClusterOf[x.net] : x \in Coupled[NetOf[s]]}

(* A held segment crosses any capacitor. *)
Crosses(seg, crossings) ==
  seg = "held" \/ \A i \in DOMAIN crossings :
    crossings[i].cap.reactance[seg] * EscalationRatio <= FarOhms(crossings[i].into)

-----------------------------------------------------------------------------
(* States of a net: kind, level or voltage, ohms, second level, segment.    *)
State(kind, a, b, seg) == [kind |-> kind, a |-> a, b |-> b, seg |-> seg]
Floating == State("floating", 0, 0, "none")
Contention == State("contention", 0, 0, "none")
Analog(v) == State("analog", v, 0, "none")
Driven(level) == State("driven", level, 0, "none")
Pulled(level, ohms) == State("pulled", level, ohms, "none")
Periodic(hi, lo, seg) == State("periodic", hi, lo, seg)

LevelOfVolts(v) == IF v >= LogicThreshold THEN 1 ELSE 0
LevelOf(st) == CASE st.kind \in {"driven", "pulled"} -> st.a
                 [] st.kind = "analog" -> LevelOfVolts(st.a)
                 [] OTHER -> Nothing
InBand(v) == VIL < v /\ v < VIH

Dc(v) == [dc |-> v, hi |-> Nothing, lo |-> Nothing]

(* A source that reaches a net; order is the canonical order of ties. *)
Total(s) == s.z + s.path
IsPull(s) == Total(s) >= WeakDriveOhms
Bar(reaching) == Min({Total(s) : s \in reaching})
Loses(s, reaching) ==
  Total(s) > Bar(reaching) /\ Total(s) >= Bar(reaching) * EscalationRatio
StrongContest(reaching) == Bar(reaching) < WeakDriveOhms
InContest(s, reaching) ==
  ~Loses(s, reaching) /\ (StrongContest(reaching) => ~IsPull(s))
Strongest(reaching) ==
  CHOOSE s \in reaching : \A t \in reaching :
    Total(s) < Total(t) \/ (Total(s) = Total(t) /\ s.order <= t.order)
Disagree(reaching) ==
  \E s \in reaching : InContest(s, reaching) /\ s.v # Strongest(reaching).v

(* The solve of one net: a terminal on it holds it. *)
Solve(reaching) ==
  LET ideal == {s \in reaching : s.slot = 0 /\ s.path = 0}
      Siemens(s) == Infinite \div Max({Total(s), 1})
      Current(s) == s.v * Siemens(s)
  IN  IF ideal # {} THEN (CHOOSE s \in ideal : TRUE).v
      ELSE MapThenSumSet(Current, reaching) \div MapThenSumSet(Siemens, reaching)

(* What one phase decided: the state, the voltage, whether it fought. *)
Outcome(st, v, fought) == [st |-> st, v |-> v, fought |-> fought]

(* project_root: source-strength ranking. *)
ProjectRoot(reaching) ==
  LET w == Strongest(reaching)
      v == Solve(reaching)
      strong == StrongContest(reaching)
      projected ==
        IF (w.slot = 0 /\ w.path = 0) \/ InBand(w.v) THEN Analog(w.v)
        ELSE IF w.path = 0 /\ w.z < WeakDriveOhms THEN Driven(LevelOfVolts(w.v))
        ELSE Pulled(LevelOfVolts(w.v), IF w.z >= WeakDriveOhms THEN Total(w) ELSE w.path)
  IN  IF ~Disagree(reaching) THEN Outcome(projected, w.v, FALSE)
      ELSE IF strong /\ InBand(v) THEN Outcome(Contention, v, TRUE)
      ELSE Outcome(Analog(v), v, strong)

-----------------------------------------------------------------------------
(* One cluster under a table: the drive in each slot, the decided terminals *)
(* and the nets a current instrument reads.                                 *)

Sources(c, phase, tbl) ==
  {s \in SlotsIn(c) : Port(tbl.drive[s], phase).z < Infinite}

Reaching(c, n, phase, tbl) ==
  {[slot |-> s, order |-> s, v |-> Port(tbl.drive[s], phase).v, z |-> Port(tbl.drive[s], phase).z,
    seg |-> tbl.drive[s].seg, path |-> Ohms[n][NetOf[s]]] :
     s \in Sources(c, phase, tbl)}
  \cup {[slot |-> 0, order |-> Infinite + t, v |-> tbl.held[t].v, z |-> 0, seg |-> "none",
         path |-> Ohms[n][t]] :
     t \in {u \in Reads(c) : tbl.held[u].v >= 0 /\ Ohms[n][u] < Infinite}}

PeriodicIn(c, tbl) == \E s \in SlotsIn(c) : IsPeriodic(tbl.drive[s])
Phases(c, tbl) == IF PeriodicIn(c, tbl) THEN {"high", "low"} ELSE {"high"}

Sourced(c, tbl) ==
  \/ \E phase \in Phases(c, tbl) : Sources(c, phase, tbl) # {}
  \/ \E t \in Reads(c) : tbl.held[t].v >= 0
Eager(c, tbl) == Sourced(c, tbl) /\ c \cap tbl.read # {}
OnRequest(c, tbl) == Eager(c, tbl) \/ (Sourced(c, tbl) /\ c \cap AnalogNets # {})

(* An unmodelled rail presents as up; otherwise the net floats. *)
UnmodelledOrFloating(c, n, tbl) ==
  LET near == {Ohms[n][t] : t \in {u \in Reads(c) : tbl.held[u].v = Unmodelled}} \ {Infinite}
  IN  IF near = {} THEN Floating ELSE Pulled(1, Min(near))

(* run_phase, of one net, from the sources that reach it. *)
Ran(c, n, reaching, ranked, tbl) ==
  LET fight == {tbl.held[t].v : t \in {u \in c \cap Terminals : tbl.held[u].fought}}
      v == Min(fight)                    \* at most one: a terminal is its own cluster
      asked == Analog(Solve(reaching))
  IN  CASE fight # {} ->
             Outcome(IF OnRequest(c, tbl) THEN asked
                     ELSE IF InBand(v) THEN Contention ELSE Analog(v), v, InBand(v))
        [] fight = {} /\ reaching = {} ->
             Outcome(UnmodelledOrFloating(c, n, tbl), Nothing, FALSE)
        [] fight = {} /\ reaching # {} /\ OnRequest(c, tbl) ->
             Outcome(asked, asked.a, ranked.fought)
        [] OTHER -> ranked
RunPhase(c, n, reaching, tbl) == Ran(c, n, reaching, ProjectRoot(reaching), tbl)

Clocks(reaching) == {s \in reaching : IsPeriodic(s)}

Contending(reaching) ==
  {s.slot : s \in {x \in Clocks(reaching) : ~IsPull(x) /\ ~Loses(x, reaching)}}

(* combine_phases: the state and the voltages a net of a clocked cluster    *)
(* publishes, rule by rule.                                                *)
CombinePhases(hi, lo, reached, contending) ==
  LET high == [st |-> hi.st, volts |-> Dc(hi.v)]
      decides == \E reaching \in reached :
                   \E s \in Clocks(reaching) : InContest(s, reaching)
      clocks == UNION {Clocks(reaching) : reaching \in reached}
      seg == Strongest(clocks).seg
  IN  CASE Cardinality(contending) >= 2 \/ hi.fought \/ lo.fought ->
             [st |-> Contention, volts |-> Dc(Nothing)]
        [] ~decides \/ (hi.v = lo.v /\ hi.st = lo.st) -> high
        [] LevelOf(hi.st) = Nothing \/ LevelOf(lo.st) = Nothing ->
             [st |-> Floating, volts |-> Dc(Nothing)]
        [] hi.v = lo.v /\ LevelOf(hi.st) = LevelOf(lo.st) -> high
        [] OTHER ->
             [st |-> Periodic(LevelOf(hi.st), LevelOf(lo.st), seg),
              volts |-> [dc |-> IF seg = "held" THEN lo.v ELSE Nothing, hi |-> hi.v, lo |-> lo.v]]

-----------------------------------------------------------------------------
(* The rates that arrive at a net across capacitors. *)
Arrivals(n, tbl) ==
  {s \in Pins \ Rails : IsPeriodic(tbl.drive[s]) /\
     \E x \in Coupled[NetOf[s]] : x.net = n /\ Crosses(tbl.drive[s].seg, x.crossings)}

(* overlay_arrivals, over what the sources of the net's own cluster made.   *)
Overlay(own, contending, arrived, tbl) ==
  LET d == tbl.drive[CHOOSE s \in arrived : TRUE]
  IN  CASE arrived = {} \/ own.st = Contention -> own
        [] Cardinality(arrived) = 1 /\ own.st # Contention /\ contending = {} ->
             [st |-> Periodic(LevelOfVolts(d.hi.v), LevelOfVolts(d.lo.v), d.seg),
              volts |-> [dc |-> Nothing, hi |-> d.hi.v, lo |-> d.lo.v]]
        [] OTHER -> [st |-> Contention, volts |-> Dc(Nothing)]

(* resolve_cluster, of one net. *)
ResolveIn(c, n, high, low, arrived, tbl) ==
  LET contending == Contending(high) \cup Contending(low)
      clocked == CombinePhases(RunPhase(c, n, high, tbl), RunPhase(c, n, low, tbl),
                               {high, low}, contending)
      Still(ran) == [st |-> ran.st, volts |-> Dc(ran.v)]
  IN  IF PeriodicIn(c, tbl) THEN Overlay(clocked, contending, arrived, tbl)
      ELSE Overlay(Still(RunPhase(c, n, high, tbl)), {}, arrived, tbl)
ResolveNet(n, arrived, tbl) ==
  ResolveIn(ClusterOf[n], n, Reaching(ClusterOf[n], n, "high", tbl),
            Reaching(ClusterOf[n], n, "low", tbl), arrived, tbl)

(* Whether the pass of a cluster solved it, and the current it names at a   *)
(* slot: volts across the slot's impedance; <<>> where it names none.       *)
Solved(c, tbl) ==
  \/ Eager(c, tbl)
  \/ \E n \in c : LET reaching == Reaching(c, n, "high", tbl)
                  IN  IF OnRequest(c, tbl) THEN Cardinality(reaching) > 1
                      ELSE reaching # {} /\ Disagree(reaching)
CurrentInto(s, tbl) ==
  LET c == ClusterOf[NetOf[s]]
      port == Port(tbl.drive[s], "high")
      reaching == Reaching(c, NetOf[s], "high", tbl)
      across == Solve(reaching) - port.v
  IN  IF PeriodicIn(c, tbl) \/ ~Solved(c, tbl) \/ reaching = {} THEN <<>>
      ELSE IF port.z = Infinite \/ across = 0 THEN <<0, 1>> ELSE <<across, port.z>>
=============================================================================
