--------------------------- MODULE LockstepChannel --------------------------
(***************************************************************************)
(* The shared page a P2 node and its qemu-system-p2 take turns over        *)
(* (p2-qemu/src/peer.rs and qemu-target/target-p2/hostipc.c).  Each side   *)
(* publishes a sequence number after its message, then wakes the other if  *)
(* the other said it is going to sleep; each side says so before it looks  *)
(* once more and sleeps.  Either process may end at any step.              *)
(*                                                                         *)
(* A step is one access to a shared word, or one whole copy of a message;  *)
(* the state before a copying step stands for the time the copy takes.     *)
(* The words are sequentially consistent atomics in both programs.  A      *)
(* process that ended keeps its place in the code, for the record.         *)
(***************************************************************************)
EXTENDS Naturals

CONSTANTS
  Runs,       \* the RUN messages a node may send
  Quit,       \* the message that asks the program to end
  Torn,       \* the page's message area while it is being written
  SeqMod      \* sequence numbers are below it: 2^32 in the code

Requests == Runs \cup {Quit}

ASSUME ChannelAssumption ==
  /\ SeqMod \in Nat \ {0, 1}
  /\ Quit \notin Runs /\ Torn \notin Requests

VARIABLES
  \* the page
  req, reqSeq, reqSleep,   \* the request, its number, "the program sleeps"
  rep, repSeq, repSleep,   \* the request the reply is for, its number, "the node sleeps"
  ready,                   \* the hello is in place
  \* the node
  peer, seq, asked, given, \* place in turn(), the number, the request, what turn() returned
  \* the program
  prog, seen, taken,       \* place in its loop, the last number taken, its copy of the request
  process,                 \* the program's process is "up" or "down"
  \* the surroundings, "calm" or "harsh": whether no process fails, no guest hangs,
  \* no sleep ends by itself and no deadline of seconds passes
  env

page     == <<req, reqSeq, reqSleep, rep, repSeq, repSleep, ready>>
nodeVars == <<peer, seq, asked, given>>
progVars == <<prog, seen, taken, process>>
channelVars == <<page, nodeVars, progVars, env>>

NodePlaces == {"start", "idle", "writing", "posting", "rousing", "looking", "testing",
               "parking", "parked", "woken", "asking", "reading", "quitting", "gone", "ended"}
ProgPlaces == {"boot", "receiving", "testing", "parking", "parked", "taking",
               "running", "storing", "rousing", "hung"}

Alive == process = "up"
Harsh == env = "harsh"

(* Mutant: the number does not wrap. *)

(* Numbers wrap: wrapping_add(1). *)
Succ(n) == IF n = SeqMod - 1 THEN 0 ELSE n + 1

ChannelInit ==
  /\ req = Torn /\ reqSeq = 0 /\ reqSleep = 0
  /\ rep = Torn /\ repSeq = 0 /\ repSleep = 0 /\ ready = 0
  /\ peer = "start" /\ seq = 0 /\ asked = Torn /\ given = Torn
  /\ prog = "boot" /\ seen = 0 /\ taken = Torn /\ process = "up"
  /\ env \in {"calm", "harsh"}

-----------------------------------------------------------------------------
(* The node.                                                               *)

GotoNode(place) == peer' = place /\ UNCHANGED <<seq, asked, given>>

(* hello(): the node polls the ready word, and gives up on a dead program,  *)
(* or after START_TIMEOUT on a living one, which it kills.                  *)
Hello == /\ peer = "start" /\ ready = 1
         /\ GotoNode("idle") /\ UNCHANGED <<page, progVars>>

NoHello == /\ peer = "start" /\ ready = 0 /\ (~Alive \/ Harsh)
           /\ process' = "down"
           /\ GotoNode("gone") /\ UNCHANGED <<page, prog, seen, taken>>

(* turn(run), or stop() when the peer is dropped: the request is written,   *)
(* then its number, then the program is woken; stop() does so without       *)
(* asking whether it sleeps.                                                *)
Begin(r) == /\ peer = "idle" /\ peer' = "writing"
            /\ asked' = r /\ req' = Torn
            /\ UNCHANGED <<reqSeq, reqSleep, rep, repSeq, repSleep, ready>>
            /\ UNCHANGED <<seq, given, progVars>>

Write == /\ peer = "writing" /\ GotoNode("posting")
         /\ req' = asked
         /\ UNCHANGED <<reqSeq, reqSleep, rep, repSeq, repSleep, ready, progVars>>

Post == /\ peer = "posting" /\ peer' = "rousing"
        /\ seq' = Succ(seq) /\ reqSeq' = seq'
        /\ UNCHANGED <<req, reqSleep, rep, repSeq, repSleep, ready>>
        /\ UNCHANGED <<asked, given, progVars>>

FutexWake(place) == IF place = "parked" THEN "testing" ELSE place

RouseProgram ==
  /\ peer = "rousing"
  /\ prog' = IF reqSleep = 1 \/ asked = Quit THEN FutexWake(prog) ELSE prog
  /\ GotoNode(IF asked = Quit THEN "quitting" ELSE "looking")
  /\ UNCHANGED <<page, seen, taken, process>>

(* The wait: spin for a while, then say so, look again, and sleep.          *)
Answered == repSeq = seq

NodeSleepFlag(b) == /\ repSleep' = b
                    /\ UNCHANGED <<req, reqSeq, reqSleep, rep, repSeq, ready>>

SeeReply == /\ peer = "looking" /\ Answered
            /\ GotoNode("reading") /\ UNCHANGED <<page, progVars>>

(* Mutant: the node sleeps without saying so. *)

StopSpinning == /\ peer = "looking" /\ ~Answered
                /\ NodeSleepFlag(1)
                /\ GotoNode("testing") /\ UNCHANGED progVars

TestReply == /\ peer = "testing" /\ UNCHANGED progVars
             /\ \/ Answered /\ NodeSleepFlag(0) /\ GotoNode("reading")
                \/ ~Answered /\ UNCHANGED page /\ GotoNode("parking")

(* futex_wait(REP_SEQ, want - 1): the kernel compares and sleeps in one step. *)
ParkNode == /\ peer = "parking"
            /\ GotoNode(IF Succ(repSeq) = seq THEN "parked" ELSE "woken")
            /\ UNCHANGED <<page, progVars>>

NodeTimeout == /\ peer = "parked" /\ Harsh
               /\ GotoNode("woken") /\ UNCHANGED <<page, progVars>>

TestAgain == /\ peer = "woken" /\ UNCHANGED progVars
             /\ \/ Answered /\ NodeSleepFlag(0) /\ GotoNode("reading")
                \/ ~Answered /\ UNCHANGED page /\ GotoNode("asking")

(* Is the program still there?  If not, turn() returns Died.                *)
AskKernel == /\ peer = "asking" /\ UNCHANGED progVars
             /\ \/ Alive /\ GotoNode("testing") /\ UNCHANGED page
                \/ ~Alive /\ GotoNode("gone") /\ NodeSleepFlag(0)

(* Mutant: the deadline starts anew with every look at the program. *)
GiveUpLater == /\ peer = "asking" /\ Alive /\ Harsh
               /\ GotoNode("testing") /\ UNCHANGED <<page, progVars>>

(* TURN_TIMEOUT has passed: the program is killed, turn() returns Unresponsive. *)
GiveUp == /\ peer = "asking" /\ Alive /\ Harsh
          /\ process' = "down" /\ UNCHANGED <<prog, seen, taken>>
          /\ NodeSleepFlag(0) /\ GotoNode("gone")

ReadReply == /\ peer = "reading" /\ peer' = "idle"
             /\ given' = rep
             /\ UNCHANGED <<seq, asked, page, progVars>>

(* stop() returns once the program has exited, or kills it after QUIT_GRACE. *)
StopReturns == /\ peer = "quitting" /\ (~Alive \/ Harsh)
               /\ process' = "down" /\ UNCHANGED <<prog, seen, taken>>
               /\ GotoNode("ended") /\ UNCHANGED page

(* A peer that is gone is dropped without a word. *)
DropGone == /\ peer = "gone"
            /\ GotoNode("ended") /\ UNCHANGED <<page, progVars>>

NodeDies == /\ Harsh /\ peer # "ended"
            /\ GotoNode("ended") /\ UNCHANGED <<page, progVars>>

-----------------------------------------------------------------------------
(* The program.                                                            *)

GotoProg(place) == Alive /\ prog' = place /\ UNCHANGED <<seen, taken, process>>

SayHello == /\ prog = "boot" /\ GotoProg("receiving")
            /\ ready' = 1
            /\ UNCHANGED <<req, reqSeq, reqSleep, rep, repSeq, repSleep, nodeVars>>

Requested == reqSeq # seen

ProgSleepFlag(b) == /\ reqSleep' = b
                    /\ UNCHANGED <<req, reqSeq, rep, repSeq, repSleep, ready>>

SeeRequest == /\ prog = "receiving" /\ Requested
              /\ GotoProg("taking") /\ UNCHANGED <<page, nodeVars>>

StopPolling == /\ prog = "receiving" /\ ~Requested
               /\ ProgSleepFlag(1)
               /\ GotoProg("testing") /\ UNCHANGED nodeVars

TestRequest == /\ prog = "testing" /\ UNCHANGED nodeVars
               /\ \/ Requested /\ ProgSleepFlag(0) /\ GotoProg("taking")
                  \/ ~Requested /\ UNCHANGED page /\ GotoProg("parking")

(* Mutant: the program sleeps on whatever number is there. *)
ParkProgramBlindly == /\ prog = "parking"
                      /\ GotoProg("parked") /\ UNCHANGED <<page, nodeVars>>

ParkProgram == /\ prog = "parking"
               /\ GotoProg(IF reqSeq = seen THEN "parked" ELSE "testing")
               /\ UNCHANGED <<page, nodeVars>>

ProgTimeout == /\ prog = "parked" /\ Harsh
               /\ GotoProg("testing") /\ UNCHANGED <<page, nodeVars>>

(* Mutants: the taken number is not remembered; the number of the reply is  *)
(* stored before the guest has run.                                         *)
TakeForgetting == /\ prog = "taking" /\ Alive
                  /\ taken' = req /\ UNCHANGED seen
                  /\ \/ req \in Runs /\ prog' = "running" /\ UNCHANGED process
                     \/ req \notin Runs /\ process' = "down" /\ UNCHANGED prog
                  /\ UNCHANGED <<page, nodeVars>>


(* The request is copied out of the page; anything but a RUN ends the program. *)
Take == /\ prog = "taking" /\ Alive
        /\ seen' = reqSeq /\ taken' = req
        /\ \/ req \in Runs /\ prog' = "running" /\ UNCHANGED process
           \/ req \notin Runs /\ process' = "down" /\ UNCHANGED prog
        /\ UNCHANGED <<page, nodeVars>>

(* ipc_run: the reply is written into the page while the guest runs. *)
RunGuest == /\ prog = "running" /\ GotoProg("storing")
            /\ rep' = taken
            /\ UNCHANGED <<req, reqSeq, reqSleep, repSeq, repSleep, ready, nodeVars>>

StoreReply == /\ prog = "storing" /\ GotoProg("rousing")
              /\ repSeq' = seen
              /\ UNCHANGED <<req, reqSeq, reqSleep, rep, repSleep, ready, nodeVars>>

RouseNode ==
  /\ prog = "rousing" /\ GotoProg("receiving")
  /\ peer' = IF repSleep = 1 /\ peer = "parked" THEN "woken" ELSE peer
  /\ UNCHANGED <<seq, asked, given, page>>

(* A guest that never stops: ipc_run does not return. *)
Hang == /\ Harsh /\ prog = "running" /\ GotoProg("hung")
        /\ UNCHANGED <<page, nodeVars>>

ProgramDies == /\ Harsh /\ Alive
               /\ process' = "down"
               /\ UNCHANGED <<prog, seen, taken, page, nodeVars>>

(* Mutant: the pipe is only looked at between turns. *)
WatchBetweenTurns == /\ peer = "ended" /\ Alive /\ prog \notin {"running", "hung"}
                     /\ process' = "down"
                     /\ UNCHANGED <<prog, seen, taken, page, nodeVars>>

(* The watch thread: the node's end of the pipe is closed. *)
WatchEnds == /\ peer = "ended" /\ Alive
             /\ process' = "down"
             /\ UNCHANGED <<prog, seen, taken, page, nodeVars>>

-----------------------------------------------------------------------------
NodeSteps == \/ Hello \/ NoHello \/ Write \/ Post \/ RouseProgram
             \/ SeeReply \/ StopSpinning \/ TestReply \/ ParkNode \/ NodeTimeout
             \/ TestAgain \/ AskKernel \/ ReadReply \/ StopReturns \/ DropGone

ProgSteps == \/ SayHello \/ SeeRequest \/ StopPolling \/ TestRequest \/ ParkProgram
             \/ ProgTimeout \/ Take \/ RunGuest \/ StoreReply \/ RouseNode

ChannelNext ==
  /\ \/ NodeSteps \/ ProgSteps \/ GiveUp \/ WatchEnds
     \/ \E r \in Requests : Begin(r)
     \/ NodeDies \/ Hang \/ ProgramDies
  /\ UNCHANGED env

ChannelSpec == ChannelInit /\ [][ChannelNext]_channelVars

(* Both processes are scheduled; a deadline that passed stays passed, so a  *)
(* node that keeps asking does give up; the watch thread reads end of file. *)
FairChannelSpec ==
  /\ ChannelSpec
  /\ WF_channelVars(NodeSteps /\ UNCHANGED env) /\ WF_channelVars(ProgSteps /\ UNCHANGED env)
  /\ SF_channelVars(GiveUp /\ UNCHANGED env) /\ WF_channelVars(WatchEnds /\ UNCHANGED env)

-----------------------------------------------------------------------------
TypeOK ==
  /\ req \in Requests \cup {Torn} /\ rep \in Requests \cup {Torn}
  /\ asked \in Requests \cup {Torn} /\ given \in Requests \cup {Torn}
  /\ taken \in Requests \cup {Torn}
  /\ {reqSeq, repSeq, seq, seen} \subseteq 0 .. SeqMod - 1
  /\ {reqSleep, repSleep, ready} \subseteq {0, 1} /\ process \in {"up", "down"} /\ env \in {"calm", "harsh"}
  /\ peer \in NodePlaces /\ prog \in ProgPlaces

(* A message area has one user at a time: the program copies no request the *)
(* node is still writing, and the node copies no reply the program is still *)
(* writing, whatever the two do between (Peer::turn, shm_recv, ipc_run).    *)
PageOwned ==
  Alive => /\ ~(peer = "writing" /\ prog = "taking")
           /\ ~(peer = "reading" /\ prog = "running")

(* The reply a turn reads answers the request of that turn, across every    *)
(* wrap of the numbers and every quick answer that overtakes the node's own *)
(* wake of the program (Peer::turn's want, shm_reply's req_seen).           *)
ReplyIsForTheRequest == peer = "reading" => rep = asked

(* No wake is lost: a side that sleeps over a message it has not taken is    *)
(* about to be woken by the other, so that the sleep's own time limit is     *)
(* never what ends it (Peer::turn with REQ_SLEEP and its second wait,        *)
(* shm_recv, shm_reply with REP_SLEEP).                                      *)
NoWakeLost ==
  Alive => /\ prog = "parked" /\ Requested /\ peer # "ended"
                => peer = "rousing" /\ (reqSleep = 1 \/ asked = Quit)
           /\ peer = "parked" /\ Answered => prog = "rousing" /\ repSleep = 1

InTurn == peer \notin {"start", "idle", "quitting", "gone", "ended"} /\ asked # Quit

(* Whatever becomes of the program, a turn ends: with its answer, or with   *)
(* an error after which the peer is never used again (Peer::turn).          *)
TurnsEnd == InTurn ~> peer \in {"idle", "gone", "ended"}

(* The program does not outlive the node, however the node ended: asked to  *)
(* quit, killed, or left to its watch thread (peer.rs, Lifetime).           *)
ProgramEnds == peer = "ended" ~> ~Alive

(* The turns as their caller sees them. *)
Phase == CASE peer \in {"gone", "ended"} -> "over"
           [] peer \in {"start", "idle"} -> "idle"
           [] peer \in {"writing", "posting"} -> "asked"
           [] OTHER -> IF Answered \/ prog = "storing" THEN "worked" ELSE "asked"

Turns == INSTANCE TurnTaking WITH phase <- Phase, Nothing <- Torn

(* The channel takes turns: a request is run once, answered once, and only  *)
(* then is the next one asked (Peer::turn with p2ipc_main).                 *)
TakesTurns == Turns!Spec
=============================================================================
