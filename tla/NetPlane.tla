------------------------------ MODULE NetPlane ------------------------------
(***************************************************************************)
(* The net plane of board/src/engine.rs: drives applied one at a time,     *)
(* each followed by a pass over only the clusters it can have changed, and *)
(* the readers of the nets told what moved.  The resolver keeps what it    *)
(* decided of every terminal and which clusters any clock reaches from one *)
(* pass to the next; a full pass is made once, when the engine is spawned. *)
(* The timed faults of EdgeFaults decide what a published drive becomes.   *)
(* Everything a drive causes happens on the engine's thread inside          *)
(* apply_drive, and what a callback publishes waits in the queue: a drive  *)
(* is one step.                                                            *)
(***************************************************************************)
EXTENDS NetRules

CONSTANTS
  Publishes,   \* the drives each pin may publish; its idle drive is IdleDrive
  IdleDrive,
  Probed,      \* the pins a bench instrument may watch the current of
  Senses       \* the subscriptions in the order they are registered: [net,
               \* ref, supply (0: none), low, high, hyst, hold]

ASSUME PlaneAssumption ==
  /\ Probed \subseteq Pins \ Rails
  /\ \A s \in DOMAIN Senses : /\ Senses[s].net \in Nets
                              /\ {Senses[s].ref, Senses[s].supply} \subseteq Nets \cup {0}

VARIABLES
  wanted,   \* the last drive each pin published
  net,      \* what the last pass left each net at: [st, volts]
  held,     \* Resolver.terminal_states
  reached,  \* Resolver.reach_clusters, or Stale
  amps,     \* the current table, by slot
  reads,    \* Resolver.current_instruments, as nets
  pending,  \* EngineCore.pending_reads
  watched,  \* what each current instrument was last told, by pin
  level     \* what each receiver last read, in registration order

plane == <<vars, wanted, net, held, reached, amps, reads, pending, watched, level>>

Stale == {{}}

Slot(p) == IF drives[p] THEN wanted[p] ELSE Released
Clocked == {p \in Pins \ Rails : IsPeriodic(Slot(p))}

(* resolve_terminal *)
Decided(t) == Decide([p \in {r \in Rails : NetOf[r] = t} |-> FromSlot(Slot(p))],
                     [f \in {g \in Stuck : g.net = t} |-> IF holds[f] THEN f.volts ELSE Nothing])

Table == [drive |-> [p \in Pins |-> Slot(p)], held |-> held, read |-> reads]

-----------------------------------------------------------------------------
(* Deliveries and receivers. *)

(* Thresholds.project, in tenths of the span the thresholds are scaled by. *)
Project(x, span, v, last) ==
  IF v = Nothing THEN Nothing
  ELSE IF 10 * v <= x.low * span THEN 0
  ELSE IF 10 * v >= x.high * span THEN 1
  ELSE IF last = 1 /\ 10 * v >= (x.high - x.hyst) * span THEN 1
  ELSE IF last = 0 /\ 10 * v <= (x.low + x.hyst) * span THEN 0
  ELSE IF x.hold THEN last ELSE Nothing

(* PeriodicSense.levels: each phase entered from the other, twice round. *)
PhaseLevels(x, span, hi, lo, last) ==
  LET hi1 == Project(x, span, hi, last)
      lo1 == Project(x, span, lo, hi1)
      hi2 == Project(x, span, hi, lo1)
  IN  <<hi2, Project(x, span, lo, hi2)>>

(* DigitalReceiver.read of what the pin is handed, at the span of now. *)
ReadLevel(s, nets, last) ==
  LET x == Senses[s]
      at == nets[x.net]
      ref == IF x.ref = 0 THEN 0 ELSE nets[x.ref].volts.dc
      supply == IF x.supply = 0 THEN ref + 10 ELSE nets[x.supply].volts.dc
      span == supply - ref
      Measured(v) == IF v = Nothing THEN Nothing ELSE v - ref
      phases == PhaseLevels(x, span, Measured(at.volts.hi), Measured(at.volts.lo), last)
  IN  IF ref = Nothing \/ supply = Nothing THEN Nothing
      ELSE IF at.volts.dc # Nothing THEN Project(x, span, Measured(at.volts.dc), last)
      ELSE IF at.st.kind = "periodic" /\ phases[1] = phases[2] THEN phases[1]
      ELSE Nothing

(* The nets beside its own whose moves call a subscription again. *)
DependenciesFault(s) == {Senses[s].ref} \ {0}   \* the supply forgotten
Dependencies(s) == {Senses[s].ref, Senses[s].supply} \ {0}

(* deliver_senses: the subscriptions a pass that moved these nets calls. *)
Called(s, moved) == ({Senses[s].net} \cup Dependencies(s)) \cap moved # {}

Moved == {n \in Nets : net'[n] # net[n]}

-----------------------------------------------------------------------------
(* What changing the slots, the terminals or the readers dirties. *)

TerminalDirty(t) == {{t}} \cup Dependents(t)

Dirtied ==
  LET changed == {p \in Pins : Slot(p)' # Slot(p)}
      clocks == {p \in changed \ Rails : IsPeriodic(Slot(p)) \/ IsPeriodic(Slot(p)')}
      rails == {p \in changed \cap Rails : FromSlot(Slot(p))' # FromSlot(Slot(p))}
      switched == {f \in Stuck : holds'[f] # holds[f]}
  IN  {ClusterOf[NetOf[p]] : p \in changed \ Rails}
      \cup (UNION {CoupledClusters(p) : p \in clocks})
      \cup (UNION {TerminalDirty(NetOf[p]) : p \in rails})
      \cup (UNION {TerminalDirty(f.net) : f \in switched})

(* note_periodic: the clusters a clock reaches are those of another set. *)
Noted == IF Clocked' = Clocked THEN reached ELSE Stale

(* resolve_and_publish_dirty *)
Pass(dirty) ==
  LET skip == dirty = {} \/ Clocked' = {}
      clusters == UNION {CoupledClusters(p) : p \in Clocked'}
      Resolved(n) ==
        LET tbl == Table'
        IN  ResolveNet(n, IF skip \/ dirty \cap reached' = {} THEN {} ELSE Arrivals(n, tbl), tbl)
  IN  /\ reached' = IF ~skip /\ Noted = Stale THEN clusters ELSE Noted
      /\ held' = [t \in Terminals |-> IF {t} \in dirty THEN Decided(t)' ELSE held[t]]
      /\ net' = [n \in Nets |-> IF ClusterOf[n] \in dirty THEN Resolved(n) ELSE net[n]]
      /\ amps' = [p \in Pins \ Rails |-> IF ClusterOf[NetOf[p]] \in dirty
                                         THEN CurrentInto(p, Table') ELSE amps[p]]
      /\ level' = [s \in DOMAIN level |->
                     IF Called(s, Moved) THEN ReadLevel(s, net', level[s]) ELSE level[s]]

(* deliver_currents, when the pass published a table. *)
TellInstruments ==
  watched' = IF amps' = amps THEN watched ELSE [p \in DOMAIN watched |-> amps'[p]]

-----------------------------------------------------------------------------
(* spawn: the faults' sources, then a full pass; nothing is subscribed yet. *)
PlaneInit ==
  /\ Init
  /\ wanted = IdleDrive /\ reads = {} /\ pending = {}
  /\ held = [t \in Terminals |-> Decided(t)]
  /\ net = [n \in Nets |-> ResolveNet(n, Arrivals(n, Table), Table)]
  /\ reached = IF Clocked = {} THEN Stale ELSE UNION {CoupledClusters(p) : p \in Clocked}
  /\ amps = [p \in Pins \ Rails |-> CurrentInto(p, Table)]
  /\ watched = <<>> /\ level = <<>>

(* apply_drive *)
Publish(p, d) ==
  /\ ApplyDrive(p, d # Released)
  /\ wanted' = [wanted EXCEPT ![p] = d]
  /\ reads' = reads
  /\ Pass(Dirtied)
  /\ TellInstruments
  /\ UNCHANGED pending

(* RegisterSense: the net as it is, once. *)
RegisterSense ==
  LET s == Len(level) + 1
  IN  /\ s \in DOMAIN Senses
      /\ level' = Append(level, ReadLevel(s, net, Nothing))
      /\ UNCHANGED <<vars, wanted, net, held, reached, amps, reads, pending, watched>>

(* on_branch: DeclareRead, then RegisterCurrent with the reading of now. *)
WatchCurrent(p) ==
  /\ p \in Probed \ DOMAIN watched
  /\ pending' = pending \cup {NetOf[p]}
  /\ watched' = [q \in DOMAIN watched \cup {p} |-> amps[q]]
  /\ UNCHANGED <<vars, wanted, net, held, reached, amps, reads, level>>

(* The end of a drain: the nets declared read are read from now on. *)
DeclareReads ==
  /\ pending # {}
  /\ reads' = reads \cup pending /\ pending' = {}
  /\ UNCHANGED <<vars, wanted>>
  /\ Pass({ClusterOf[n] : n \in pending})
  /\ TellInstruments

PlaneNext ==
  \/ \E p \in Pins : \E d \in Publishes[p] : Publish(p, d)
  \/ RegisterSense
  \/ \E p \in Probed : WatchCurrent(p)
  \/ DeclareReads

PlaneSpec == PlaneInit /\ [][PlaneNext]_plane

-----------------------------------------------------------------------------
(* A pass over the dirty clusters leaves every net, terminal and current as *)
(* a full pass over the slots would: nothing a drive can move is missed.    *)
NothingStale ==
  /\ \A t \in Terminals : held[t] = Decided(t)
  /\ \A n \in Nets : net[n] = ResolveNet(n, Arrivals(n, Table), Table)
  /\ \A p \in Pins \ Rails : amps[p] = CurrentInto(p, Table)

(* A receiver that looked again would read the level it holds, its supply   *)
(* and its reference having moved or not, and an instrument registered at   *)
(* any moment was last told the current of now.                             *)
ReadersCurrent ==
  /\ \A s \in DOMAIN level : level[s] = ReadLevel(s, net, level[s])
  /\ \A p \in DOMAIN watched : watched[p] = amps[p]
=============================================================================
