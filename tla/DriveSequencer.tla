--------------------------- MODULE DriveSequencer ---------------------------
(***************************************************************************)
(* The drive plane of board/src/engine.rs.  Publishing a drive is two      *)
(* steps of the publishing thread: it takes the next number of a counter   *)
(* every handle shares, and then sends the drive on the data queue.  Two   *)
(* threads' sends may cross, so the engine buffers what arrives early and  *)
(* applies strictly by number; a number whose sender died is skipped after *)
(* enough idle polls.  A drive is its number here; whose pin it moves is   *)
(* kept in by.                                                             *)
(***************************************************************************)
EXTENDS Integers, Sequences, FiniteSets

CONSTANTS
  Senders,       \* threads that publish drives
  Mortal,        \* the senders that may die between the number and the send
  Engine,        \* the engine thread, which runs the sense callbacks
  Echo,          \* the threads whose drives wake a callback that drives again
  Prompt,        \* a live sender's send lands within one idle poll
  WakeArmed,     \* can a wake be armed when all is done: {FALSE} never, {TRUE} always
  MaxDrives,     \* bound: the drives of a run
  GapIdlePolls   \* GAP_IDLE_POLLS (100 in the code)

Threads == Senders \cup {Engine}
Seqs    == 0..(MaxDrives - 1)
NoSeq   == -1
ShutdownCommand == -2

ASSUME DriveAssumption ==
  /\ Engine \notin Senders
  /\ Mortal \subseteq Senders /\ Echo \subseteq Senders
  /\ Prompt \in BOOLEAN /\ WakeArmed \subseteq BOOLEAN
  /\ MaxDrives \in Nat \ {0}
  /\ GapIdlePolls \in Nat /\ GapIdlePolls > 2

VARIABLES
  driveSeq,      \* EngineLink.drive_seq
  reserved,      \* the number a thread holds between taking it and sending
  dead,          \* the senders that died
  by,            \* who took each number
  queue,         \* the data queue: commands sent and not yet received
  pendingDrives, \* EngineCore.pending_drives
  nextDriveSeq,  \* EngineCore.next_drive_seq
  gap,           \* EngineCore.stepped_gap_logged
  stage,         \* where the engine is in its iteration
  applied        \* history: the drives applied, in order (DriveApplied records)

client == <<driveSeq, reserved, dead, by>>
core   == <<pendingDrives, nextDriveSeq, gap, applied>>
driveVars == <<driveSeq, reserved, dead, by, queue,
              pendingDrives, nextDriveSeq, gap, stage, applied>>

NoGap == [seq |-> NoSeq, polls |-> 0]

DriveInit ==
  /\ driveSeq = 0 /\ nextDriveSeq = 0
  /\ reserved = [t \in Threads |-> NoSeq] /\ dead = {}
  /\ by = [s \in Seqs |-> Engine]
  /\ queue = <<>> /\ pendingDrives = {} /\ gap = NoGap
  /\ stage = "drain" /\ applied = <<>>

-----------------------------------------------------------------------------
(* The publishing side: PinHandle::publish.                                *)

(* The number the shared counter stands at after handing one out.           *)
HandedOut == driveSeq + 1

(* next_drive_seq: fetch_add on the shared counter. *)
Reserve(t) ==
  /\ reserved[t] = NoSeq /\ driveSeq \in Seqs
  /\ reserved' = [reserved EXCEPT ![t] = driveSeq]
  /\ by' = [by EXCEPT ![driveSeq] = t]
  /\ driveSeq' = HandedOut

Delivered(c) == IF stage = "stopped" THEN queue ELSE Append(queue, c)

(* EngineLink::send; the receiver is gone once the engine has stopped. *)
Send(t) ==
  /\ reserved[t] # NoSeq
  /\ queue' = Delivered(reserved[t])
  /\ reserved' = [reserved EXCEPT ![t] = NoSeq]
  /\ UNCHANGED <<driveSeq, dead, by>>

Begin(t) == /\ t \in Senders \ dead /\ Reserve(t)
            /\ UNCHANGED <<dead, queue, core, stage>>

Finish(t) == /\ t \in Senders \ dead /\ Send(t)
             /\ UNCHANGED <<core, stage>>

(* The thread unwinds or is killed between the two steps. *)
Die(t) ==
  /\ t \in Mortal \ dead /\ reserved[t] # NoSeq
  /\ dead' = dead \cup {t}
  /\ UNCHANGED <<driveSeq, reserved, by, queue, core, stage>>

-----------------------------------------------------------------------------
(* The engine's side.                                                      *)

NextTurn(s) == s + 1

(* apply_drive: the drive takes effect and its nets are resolved; a sense   *)
(* callback that publishes in turn runs before anything else is applied.    *)
ApplyInTurn(s) ==
  /\ nextDriveSeq' = NextTurn(s)
  /\ applied' = Append(applied, s)
  /\ stage' = IF by[s] \in Echo THEN "callback" ELSE "ready"

MyTurnFault(s) == s >= nextDriveSeq            \* early drives are not buffered
MyTurn(s) == s = nextDriveSeq

(* handle, Command::Drive: in turn it applies at once, else it is buffered. *)
HandleDrive ==
  /\ stage = "drain" /\ queue # <<>> /\ Head(queue) # ShutdownCommand
  /\ queue' = Tail(queue)
  /\ \/ /\ MyTurn(Head(queue))
        /\ ApplyInTurn(Head(queue))
        /\ UNCHANGED pendingDrives
     \/ /\ ~MyTurn(Head(queue))
        /\ pendingDrives' = pendingDrives \cup {Head(queue)}
        /\ stage' = "ready"
        /\ UNCHANGED <<nextDriveSeq, applied>>
  /\ UNCHANGED <<client, gap>>

Ready == nextDriveSeq \in pendingDrives

(* apply_ready_drives: one round of its loop, or its end. *)
ApplyReadyDrives ==
  /\ stage = "ready"
  /\ \/ /\ Ready
        /\ pendingDrives' = pendingDrives \ {nextDriveSeq}
        /\ ApplyInTurn(nextDriveSeq)
     \/ /\ ~Ready
        /\ stage' = "drain"
        /\ UNCHANGED <<pendingDrives, nextDriveSeq, applied>>
  /\ UNCHANGED <<client, queue, gap>>

(* A sense callback on the engine thread publishes: the same two steps, and *)
(* the queue only ever grows under the engine's feet.                       *)
Callback ==
  /\ stage = "callback"
  /\ \/ /\ Reserve(Engine)
        /\ UNCHANGED <<dead, queue, stage>>
     \/ /\ Send(Engine)
        /\ stage' = "ready"
     \/ /\ reserved[Engine] = NoSeq /\ driveSeq \notin Seqs
        /\ stage' = "ready"
        /\ UNCHANGED <<client, queue>>
  /\ UNCHANGED core

(* run_stepped_iteration with nothing left to do at this instant: the clock *)
(* moves to the next deadline if there is one, and otherwise the engine     *)
(* looks for a gap before it waits on its queue.                            *)
RunsDry ==
  /\ stage = "drain" /\ queue = <<>>
  /\ \E armed \in WakeArmed : stage' = IF armed THEN "advance" ELSE "idle"
  /\ UNCHANGED <<client, queue, core>>

MoveClock == /\ stage = "advance" /\ stage' = "drain"
             /\ UNCHANGED <<client, queue, core>>

Lowest(s) == s \in pendingDrives /\ \A r \in pendingDrives : s <= r

(* The idle poll sleeps 2 ms; a prompt sender's send lands within it. *)
PollsOut(s) ==
  Prompt => \A t \in Threads \ dead : reserved[t] # NoSeq => s < reserved[t]

Watched == gap.seq = nextDriveSeq

CountedFault(n) == n                           \* the polls do not add up
Counted(n) == n + 1

Enough == gap.polls + 1 >= GapIdlePolls

SkipToFault(s) == s + 1                        \* past the buffered drive
SkipTo(s) == s

(* warn_on_stepped_drive_gap: nothing buffered forgets the gap; a missing   *)
(* number seen for the first time is remembered; one seen often enough is   *)
(* skipped to the lowest number that is buffered.                           *)
WarnOnSteppedDriveGap ==
  /\ stage = "idle"
  /\ \/ /\ pendingDrives = {}
        /\ gap' = NoGap /\ stage' = "drain"
        /\ UNCHANGED nextDriveSeq
     \/ /\ pendingDrives # {} /\ ~Watched
        /\ gap' = [seq |-> nextDriveSeq, polls |-> 1] /\ stage' = "drain"
        /\ UNCHANGED nextDriveSeq
     \/ \E s \in pendingDrives :
          /\ Lowest(s) /\ PollsOut(s) /\ Watched
          /\ \/ /\ ~Enough
                /\ gap' = [gap EXCEPT !.polls = Counted(@)] /\ stage' = "drain"
                /\ UNCHANGED nextDriveSeq
             \/ /\ Enough
                /\ gap' = NoGap /\ stage' = "ready"
                /\ nextDriveSeq' = SkipTo(s)
  /\ UNCHANGED <<client, queue, pendingDrives, applied>>

(* EngineHandle::drop sends Shutdown behind whatever is queued ... *)
CloseLink ==
  /\ stage # "stopped" /\ \A i \in 1..Len(queue) : queue[i] # ShutdownCommand
  /\ queue' = Delivered(ShutdownCommand)
  /\ UNCHANGED <<client, core, stage>>

(* ... and the thread ends there, dropping what was sent after it. *)
Shutdown ==
  /\ stage = "drain" /\ queue # <<>> /\ Head(queue) = ShutdownCommand
  /\ queue' = <<>> /\ stage' = "stopped"
  /\ UNCHANGED <<client, core>>

-----------------------------------------------------------------------------
EngineStep == \/ HandleDrive \/ ApplyReadyDrives \/ Callback \/ Shutdown
              \/ RunsDry \/ MoveClock \/ WarnOnSteppedDriveGap

DriveNext == \/ EngineStep \/ CloseLink
             \/ \E t \in Senders : Begin(t) \/ Finish(t) \/ Die(t)

DriveSpec == DriveInit /\ [][DriveNext]_driveVars

(* The engine thread runs until it is stopped; a live sender finishes the   *)
(* send it has begun.  Nothing says that the engine is ever idle.           *)
FairSpec == /\ DriveSpec /\ WF_driveVars(EngineStep)
            /\ \A t \in Senders : WF_driveVars(Finish(t))

-----------------------------------------------------------------------------
(* The shape of every variable. *)
DriveTypeOK ==
  /\ driveSeq \in 0..MaxDrives /\ nextDriveSeq \in 0..MaxDrives
  /\ reserved \in [Threads -> Seqs \cup {NoSeq}]
  /\ dead \subseteq Mortal /\ by \in [Seqs -> Threads]
  /\ queue \in Seq(Seqs \cup {ShutdownCommand}) /\ pendingDrives \subseteq Seqs
  /\ gap \in [seq : 0..MaxDrives \cup {NoSeq}, polls : 0..(GapIdlePolls - 1)]
  /\ stage \in {"drain", "ready", "callback", "advance", "idle", "stopped"}
  /\ applied \in Seq(Seqs)

(* Drives take effect strictly in the order their numbers were taken       *)
(* (the doc of apply_ready_drives), whichever order their sends arrive in. *)
AppliedInOrder ==
  \A i, j \in 1..Len(applied) : i < j => applied[i] < applied[j]

(* A number behind the engine's turn has taken effect, unless its sender    *)
(* died holding it: a skipped gap costs nobody who is alive his drive.      *)
Lost(s) == \E t \in dead : reserved[t] = s
NothingSkipped ==
  \A s \in 0..(nextDriveSeq - 1) : Lost(s) \/ \E i \in 1..Len(applied) : applied[i] = s

(* A drive that was sent takes effect, or the engine is shut down, unless a *)
(* number before it is a dead sender's: crossed sends alone hold it only    *)
(* until the slower one lands.  Behind a dead sender's number it is held    *)
(* for as long as there is always something to advance to, since the gap is *)
(* looked at only when there is not; an engine that is idle again and again *)
(* passes it over.                                                          *)
Applied(s) == \E i \in 1..Len(applied) : applied[i] = s
Sent(s) == s \in pendingDrives \/ \E i \in 1..Len(queue) : queue[i] = s
TookEffect(s) == Applied(s) \/ stage = "stopped"
BehindTheDead(s) == \E t \in dead : reserved[t] \in nextDriveSeq..s
DrivesApplied ==
  \A s \in Seqs :
    /\ Sent(s) ~> (TookEffect(s) \/ BehindTheDead(s))
    /\ []<>(stage = "idle") => (Sent(s) ~> TookEffect(s))

(* The sequencer implements the one total order of DriveOrder. *)
Ordered == INSTANCE DriveOrder WITH
  Numbers <- Seqs, issued <- driveSeq,
  sent <- {s \in 0..(driveSeq - 1) : \A t \in Threads : reserved[t] # s},
  lost <- {s \in 0..(driveSeq - 1) : Lost(s)},
  cursor <- nextDriveSeq, effect <- applied
ImplementsDriveOrder == Ordered!Spec
=============================================================================
