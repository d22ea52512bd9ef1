---------------------------- MODULE P2QemuProofs ----------------------------
(***************************************************************************)
(* Proofs about the Propeller 2 node and its qemu-system-p2: the channel   *)
(* they take turns over, and what the two know of the pads.                *)
(*                                                                         *)
(* The channel's safety, for any messages and any modulus of the numbers:  *)
(* message areas are never shared, answers are for their requests, no wake *)
(* is lost, and the channel implements TurnTaking.  All of it follows from *)
(* one relation between the two places in the code: while the node waits,  *)
(* the program has yet to take the request, is working on it, or has       *)
(* stored its number.                                                      *)
(*                                                                         *)
(* The guest's, for any pads, banks, cogs, supplies, modes and clock words *)
(* and any bounds.  The guest and the node keep two records of what each   *)
(* pad's net was told; the invariants say where each of them is right: the *)
(* guest's while it runs, the node's between two of its turns.             *)
(***************************************************************************)
EXTENDS LockstepChannel, GuestRun, TLAPS, WellFoundedInduction

(* The channel.                                                            *)
Numbers == 0 .. SeqMod - 1

Typed ==
  /\ req \in Requests \cup {Torn} /\ rep \in Requests \cup {Torn}
  /\ asked \in Requests \cup {Torn} /\ given \in Requests \cup {Torn}
  /\ taken \in Requests \cup {Torn}
  /\ reqSeq \in Numbers /\ repSeq \in Numbers /\ seq \in Numbers /\ seen \in Numbers
  /\ reqSleep \in {0, 1} /\ repSleep \in {0, 1} /\ ready \in {0, 1} /\ process \in {"up", "down"}
  /\ env \in {"calm", "harsh"}
  /\ peer \in NodePlaces /\ prog \in ProgPlaces

(* Where the program waits for a request, where the node has none under    *)
(* way, and where it waits for the answer to one.                          *)
Awaiting == prog \in {"receiving", "testing", "parking", "parked"}
Quiet    == peer \in {"start", "idle", "writing", "posting"}
Looping  == peer \in {"looking", "testing", "parking", "parked", "woken", "asking"}
Out      == Looping \/ peer \in {"rousing", "quitting"}

(* How far the program is with the request that is out. *)
NotTaken == /\ Awaiting \/ prog \in {"rousing", "taking"}
            /\ seen = repSeq /\ Succ(repSeq) = seq
Working  == /\ prog \in {"running", "storing", "hung"} /\ seen = seq
            /\ Succ(repSeq) = seq
            /\ taken = asked /\ asked # Quit
            /\ prog = "storing" => rep = asked
Done     == /\ Awaiting \/ prog = "rousing"
            /\ seen = seq /\ repSeq = seq
            /\ rep = asked /\ asked # Quit
QuitTaken == /\ prog = "taking" /\ ~Alive /\ seen = seq
             /\ Succ(repSeq) = seq /\ asked = Quit

QuietPart == /\ Quiet => /\ reqSeq = seq /\ repSeq = seq /\ seen = seq
                         /\ Awaiting \/ prog \in {"boot", "rousing"}
             /\ peer = "posting" => req = asked
             /\ prog = "boot" => ready = 0
             /\ peer = "start" \/ peer \in {"gone", "ended"} \/ ready = 1
OutPart == Out => /\ reqSeq = seq /\ req = asked
                  /\ NotTaken \/ Working \/ Done \/ QuitTaken
AskedPart == /\ Looping \/ peer = "reading" => asked \in Runs
             /\ peer \in {"writing", "posting", "rousing", "quitting"} => asked \in Requests
             /\ peer = "quitting" => asked = Quit
ReadingPart == peer = "reading" => /\ reqSeq = seq /\ Done
FlagPart == /\ reqSleep = 1 <=> prog \in {"testing", "parking", "parked"}
            /\ peer # "ended" => (repSleep = 1 <=> peer \in {"testing", "parking", "parked", "woken", "asking"})
GonePart == peer = "gone" => ~Alive

IInv == /\ Typed /\ QuietPart /\ OutPart /\ AskedPart /\ ReadingPart
        /\ FlagPart /\ GonePart /\ NoWakeLost

-----------------------------------------------------------------------------
(* The number after a number is another one. *)
LEMMA SuccFacts ==
  ASSUME ChannelAssumption, NEW n \in Numbers
  PROVE  Succ(n) \in Numbers /\ Succ(n) # n
BY DEF ChannelAssumption, Succ, Numbers

LEMMA InitInv ==
  ASSUME ChannelAssumption, ChannelInit
  PROVE  IInv
BY SMTT(60) DEF ChannelAssumption, ChannelInit, Numbers, Requests, NodePlaces, ProgPlaces, Requested, Answered,
     Alive, Harsh, IInv, Typed, QuietPart, OutPart, AskedPart, ReadingPart, FlagPart, GonePart,
     NoWakeLost, Awaiting, Quiet, Looping, Out, NotTaken, Working, Done,
     QuitTaken

(* The invariant through the steps of the node. *)
LEMMA NodeStepsKeep ==
  ASSUME ChannelAssumption, IInv, NodeSteps, UNCHANGED env
  PROVE  IInv'
<1> USE SuccFacts DEF ChannelAssumption, Numbers, Requests, NodePlaces, ProgPlaces,
     Requested, Answered, page, nodeVars, progVars, GotoNode, GotoProg,
     NodeSleepFlag, ProgSleepFlag,
     Alive, Harsh, IInv, Typed, QuietPart, OutPart, AskedPart, ReadingPart, FlagPart, GonePart,
     NoWakeLost, Awaiting, Quiet, Looping, Out, NotTaken, Working, Done,
     QuitTaken
<1>1. CASE Hello
  BY <1>1 DEF Hello
<1>2. CASE NoHello
  BY <1>2 DEF NoHello
<1>3. CASE Write
  BY <1>3 DEF Write
<1>4. CASE Post
  BY <1>4 DEF Post
<1>5. CASE RouseProgram
  BY <1>5 DEF RouseProgram, FutexWake
<1>6. CASE SeeReply
  BY <1>6 DEF SeeReply
<1>7. CASE StopSpinning
  BY <1>7 DEF StopSpinning
<1>8. CASE TestReply
  BY <1>8 DEF TestReply
<1>9. CASE ParkNode
  BY <1>9 DEF ParkNode
<1>10. CASE NodeTimeout
  BY <1>10 DEF NodeTimeout
<1>11. CASE TestAgain
  BY <1>11 DEF TestAgain
<1>12. CASE AskKernel
  BY <1>12 DEF AskKernel
<1>13. CASE ReadReply
  BY <1>13 DEF ReadReply
<1>14. CASE StopReturns
  BY <1>14 DEF StopReturns
<1>15. CASE DropGone
  BY <1>15 DEF DropGone
<1>16. QED
  BY <1>1, <1>2, <1>3, <1>4, <1>5, <1>6, <1>7, <1>8, <1>9, <1>10, <1>11, <1>12, <1>13, <1>14, <1>15 DEF NodeSteps

(* The invariant through the steps of the program. *)
LEMMA ProgStepsKeep ==
  ASSUME ChannelAssumption, IInv, ProgSteps, UNCHANGED env
  PROVE  IInv'
<1> USE SuccFacts DEF ChannelAssumption, Numbers, Requests, NodePlaces, ProgPlaces,
     Requested, Answered, page, nodeVars, progVars, GotoNode, GotoProg,
     NodeSleepFlag, ProgSleepFlag,
     Alive, Harsh, IInv, Typed, QuietPart, OutPart, AskedPart, ReadingPart, FlagPart, GonePart,
     NoWakeLost, Awaiting, Quiet, Looping, Out, NotTaken, Working, Done,
     QuitTaken
<1>1. CASE SayHello
  BY <1>1 DEF SayHello
<1>2. CASE SeeRequest
  BY <1>2 DEF SeeRequest
<1>3. CASE StopPolling
  BY <1>3 DEF StopPolling
<1>4. CASE TestRequest
  BY <1>4 DEF TestRequest
<1>5. CASE ParkProgram
  BY <1>5 DEF ParkProgram
<1>6. CASE ProgTimeout
  BY <1>6 DEF ProgTimeout
<1>7. CASE Take
  BY <1>7 DEF Take
<1>8. CASE RunGuest
  BY <1>8 DEF RunGuest
<1>9. CASE StoreReply
  BY <1>9 DEF StoreReply
<1>10. CASE RouseNode
  BY <1>10 DEF RouseNode
<1>11. QED
  BY <1>1, <1>2, <1>3, <1>4, <1>5, <1>6, <1>7, <1>8, <1>9, <1>10 DEF ProgSteps

(* ... and through the steps that begin a turn or end a process. *)
LEMMA OtherKeep ==
  ASSUME ChannelAssumption, IInv, UNCHANGED env,
         GiveUp \/ WatchEnds \/ NodeDies \/ Hang \/ ProgramDies \/ \E r \in Requests : Begin(r)
  PROVE  IInv'
<1> USE SuccFacts DEF ChannelAssumption, Numbers, Requests, NodePlaces, ProgPlaces,
     Requested, Answered, page, nodeVars, progVars, GotoNode, GotoProg,
     NodeSleepFlag, ProgSleepFlag,
     Alive, Harsh, IInv, Typed, QuietPart, OutPart, AskedPart, ReadingPart, FlagPart, GonePart,
     NoWakeLost, Awaiting, Quiet, Looping, Out, NotTaken, Working, Done,
     QuitTaken
<1>1. CASE GiveUp
  BY <1>1 DEF GiveUp
<1>2. CASE WatchEnds
  BY <1>2 DEF WatchEnds
<1>3. CASE NodeDies
  BY <1>3 DEF NodeDies
<1>4. CASE Hang
  BY <1>4 DEF Hang
<1>5. CASE ProgramDies
  BY <1>5 DEF ProgramDies
<1>6. ASSUME NEW r \in Requests, Begin(r)  PROVE IInv'
  BY <1>6 DEF Begin
<1>7. QED
  BY <1>1, <1>2, <1>3, <1>4, <1>5, <1>6

LEMMA StepKeeps ==
  ASSUME ChannelAssumption, IInv, [ChannelNext]_channelVars
  PROVE  IInv'
<1>1. CASE NodeSteps /\ UNCHANGED env
  BY <1>1, NodeStepsKeep
<1>2. CASE ProgSteps /\ UNCHANGED env
  BY <1>2, ProgStepsKeep
<1>3. CASE /\ UNCHANGED env
           /\ \/ GiveUp \/ WatchEnds \/ NodeDies \/ Hang \/ ProgramDies
              \/ \E r \in Requests : Begin(r)
  BY <1>3, OtherKeep
<1>4. CASE UNCHANGED channelVars
  BY <1>4 DEF channelVars, page, nodeVars, progVars, Requested, Answered, Numbers,
     Alive, Harsh, IInv, Typed, QuietPart, OutPart, AskedPart, ReadingPart, FlagPart, GonePart,
     NoWakeLost, Awaiting, Quiet, Looping, Out, NotTaken, Working, Done,
     QuitTaken
<1>5. QED
  BY <1>1, <1>2, <1>3, <1>4 DEF ChannelNext

(* The relation between the two places in the code holds at every step. *)
THEOREM Inductive == ChannelSpec => []IInv
<1>1. ChannelInit => IInv
  BY InitInv, ChannelAssumption
<1>2. IInv /\ [ChannelNext]_channelVars => IInv'
  BY StepKeeps, ChannelAssumption
<1>3. QED
  BY <1>1, <1>2, PTL DEF ChannelSpec

(* TypeOK for any messages and any modulus of the numbers. *)
THEOREM TypeAlways == ChannelSpec => []TypeOK
<1>1. IInv => TypeOK
  BY DEF IInv, Typed, TypeOK, Numbers
<1>2. QED
  BY <1>1, Inductive, PTL

(* No message area is ever read by one side while the other writes it. *)
THEOREM PageOwnedAlways == ChannelSpec => []PageOwned
<1>1. IInv => PageOwned
  BY DEF PageOwned, Alive, Harsh, IInv, Typed, QuietPart, OutPart, AskedPart, ReadingPart, FlagPart, GonePart,
     NoWakeLost, Awaiting, Quiet, Looping, Out, NotTaken, Working, Done,
     QuitTaken
<1>2. QED
  BY <1>1, Inductive, PTL

(* Every reply read is the answer to the request of the turn that reads it, *)
(* however often the numbers have wrapped.                                  *)
THEOREM ReplyIsForTheRequestAlways ==
  ChannelSpec => []ReplyIsForTheRequest
<1>1. IInv => ReplyIsForTheRequest
  BY DEF IInv, ReadingPart, Done, ReplyIsForTheRequest
<1>2. QED
  BY <1>1, Inductive, PTL

(* No wake of either side is lost, with or without the sleeps' time limits  *)
(* and whichever process ends where.                                        *)
THEOREM NoWakeLostAlways == ChannelSpec => []NoWakeLost
<1>1. IInv => NoWakeLost
  BY DEF IInv
<1>2. QED
  BY <1>1, Inductive, PTL

-----------------------------------------------------------------------------
(* The channel implements TurnTaking: Begin asks, the end of ipc_run works, *)
(* the copy of the reply answers, and the end of the node or of its trust   *)
(* in the program is the end of the turns.                                  *)
TurnVars == <<Phase, asked, given>>

LEMMA TurnsInit ==
  ASSUME ChannelInit
  PROVE  Turns!Init
BY DEF ChannelInit, Turns!Init, Phase

(* The steps of the node, as turns. *)
LEMMA NodeStepsTake ==
  ASSUME ChannelAssumption, IInv, IInv', NodeSteps, UNCHANGED env
  PROVE  Turns!Next \/ UNCHANGED TurnVars
<1> USE SuccFacts DEF ChannelAssumption, Numbers, Requests, NodePlaces, ProgPlaces,
     Requested, Answered, page, nodeVars, progVars, GotoNode, GotoProg,
     NodeSleepFlag, ProgSleepFlag, Phase,
     Alive, Harsh, IInv, Typed, QuietPart, OutPart, AskedPart, ReadingPart, FlagPart, GonePart,
     NoWakeLost, Awaiting, Quiet, Looping, Out, NotTaken, Working, Done,
     QuitTaken
<1>1. CASE Hello
  <2>1. UNCHANGED TurnVars
    BY <1>1 DEF Hello, TurnVars
  <2>2. QED
    BY <2>1 DEF Turns!Next
<1>2. CASE NoHello
  <2>1. Turns!Over
    BY <1>2 DEF NoHello, Turns!Over
  <2>2. QED
    BY <2>1 DEF Turns!Next
<1>3. CASE Write
  <2>1. UNCHANGED TurnVars
    BY <1>3 DEF Write, TurnVars
  <2>2. QED
    BY <2>1 DEF Turns!Next
<1>4. CASE Post
  <2>1. UNCHANGED TurnVars
    BY <1>4 DEF Post, TurnVars
  <2>2. QED
    BY <2>1 DEF Turns!Next
<1>5. CASE RouseProgram
  <2>1. UNCHANGED TurnVars
    BY <1>5 DEF RouseProgram, FutexWake, TurnVars
  <2>2. QED
    BY <2>1 DEF Turns!Next
<1>6. CASE SeeReply
  <2>1. UNCHANGED TurnVars
    BY <1>6 DEF SeeReply, TurnVars
  <2>2. QED
    BY <2>1 DEF Turns!Next
<1>7. CASE StopSpinning
  <2>1. UNCHANGED TurnVars
    BY <1>7 DEF StopSpinning, TurnVars
  <2>2. QED
    BY <2>1 DEF Turns!Next
<1>8. CASE TestReply
  <2>1. UNCHANGED TurnVars
    BY <1>8 DEF TestReply, TurnVars
  <2>2. QED
    BY <2>1 DEF Turns!Next
<1>9. CASE ParkNode
  <2>1. UNCHANGED TurnVars
    BY <1>9 DEF ParkNode, TurnVars
  <2>2. QED
    BY <2>1 DEF Turns!Next
<1>10. CASE NodeTimeout
  <2>1. UNCHANGED TurnVars
    BY <1>10 DEF NodeTimeout, TurnVars
  <2>2. QED
    BY <2>1 DEF Turns!Next
<1>11. CASE TestAgain
  <2>1. UNCHANGED TurnVars
    BY <1>11 DEF TestAgain, TurnVars
  <2>2. QED
    BY <2>1 DEF Turns!Next
<1>12. CASE AskKernel
  <2>1. Turns!Over \/ UNCHANGED TurnVars
    BY <1>12 DEF AskKernel, Turns!Over, TurnVars
  <2>2. QED
    BY <2>1 DEF Turns!Next
<1>13. CASE ReadReply
  <2>1. Turns!Answer
    BY <1>13 DEF ReadReply, Turns!Answer
  <2>2. QED
    BY <2>1 DEF Turns!Next
<1>14. CASE StopReturns
  <2>1. Turns!Over
    BY <1>14 DEF StopReturns, Turns!Over
  <2>2. QED
    BY <2>1 DEF Turns!Next
<1>15. CASE DropGone
  <2>1. Turns!Over
    BY <1>15 DEF DropGone, Turns!Over
  <2>2. QED
    BY <2>1 DEF Turns!Next
<1>16. QED
  BY <1>1, <1>2, <1>3, <1>4, <1>5, <1>6, <1>7, <1>8, <1>9, <1>10, <1>11, <1>12, <1>13, <1>14, <1>15 DEF NodeSteps

(* The steps of the program, as turns. *)
LEMMA ProgStepsTake ==
  ASSUME ChannelAssumption, IInv, IInv', ProgSteps, UNCHANGED env
  PROVE  Turns!Next \/ UNCHANGED TurnVars
<1> USE SuccFacts DEF ChannelAssumption, Numbers, Requests, NodePlaces, ProgPlaces,
     Requested, Answered, page, nodeVars, progVars, GotoNode, GotoProg,
     NodeSleepFlag, ProgSleepFlag, Phase,
     Alive, Harsh, IInv, Typed, QuietPart, OutPart, AskedPart, ReadingPart, FlagPart, GonePart,
     NoWakeLost, Awaiting, Quiet, Looping, Out, NotTaken, Working, Done,
     QuitTaken
<1>1. CASE SayHello
  <2>1. UNCHANGED TurnVars
    BY <1>1 DEF SayHello, TurnVars
  <2>2. QED
    BY <2>1 DEF Turns!Next
<1>2. CASE SeeRequest
  <2>1. UNCHANGED TurnVars
    BY <1>2 DEF SeeRequest, TurnVars
  <2>2. QED
    BY <2>1 DEF Turns!Next
<1>3. CASE StopPolling
  <2>1. UNCHANGED TurnVars
    BY <1>3 DEF StopPolling, TurnVars
  <2>2. QED
    BY <2>1 DEF Turns!Next
<1>4. CASE TestRequest
  <2>1. UNCHANGED TurnVars
    BY <1>4 DEF TestRequest, TurnVars
  <2>2. QED
    BY <2>1 DEF Turns!Next
<1>5. CASE ParkProgram
  <2>1. UNCHANGED TurnVars
    BY <1>5 DEF ParkProgram, TurnVars
  <2>2. QED
    BY <2>1 DEF Turns!Next
<1>6. CASE ProgTimeout
  <2>1. UNCHANGED TurnVars
    BY <1>6 DEF ProgTimeout, TurnVars
  <2>2. QED
    BY <2>1 DEF Turns!Next
<1>7. CASE Take
  <2>1. UNCHANGED TurnVars
    BY <1>7 DEF Take, TurnVars
  <2>2. QED
    BY <2>1 DEF Turns!Next
<1>8. CASE RunGuest
  <2>1. Turns!Work \/ UNCHANGED TurnVars
    BY <1>8 DEF RunGuest, Turns!Work, TurnVars
  <2>2. QED
    BY <2>1 DEF Turns!Next
<1>9. CASE StoreReply
  <2>1. UNCHANGED TurnVars
    BY <1>9 DEF StoreReply, TurnVars
  <2>2. QED
    BY <2>1 DEF Turns!Next
<1>10. CASE RouseNode
  <2>1. UNCHANGED TurnVars
    BY <1>10 DEF RouseNode, TurnVars
  <2>2. QED
    BY <2>1 DEF Turns!Next
<1>11. QED
  BY <1>1, <1>2, <1>3, <1>4, <1>5, <1>6, <1>7, <1>8, <1>9, <1>10 DEF ProgSteps

(* The other steps, as turns. *)
LEMMA OtherTake ==
  ASSUME ChannelAssumption, IInv, IInv', UNCHANGED env,
         GiveUp \/ WatchEnds \/ NodeDies \/ Hang \/ ProgramDies \/ \E r \in Requests : Begin(r)
  PROVE  Turns!Next \/ UNCHANGED TurnVars
<1> USE SuccFacts DEF ChannelAssumption, Numbers, Requests, NodePlaces, ProgPlaces,
     Requested, Answered, page, nodeVars, progVars, GotoNode, GotoProg,
     NodeSleepFlag, ProgSleepFlag, Phase,
     Alive, Harsh, IInv, Typed, QuietPart, OutPart, AskedPart, ReadingPart, FlagPart, GonePart,
     NoWakeLost, Awaiting, Quiet, Looping, Out, NotTaken, Working, Done,
     QuitTaken
<1>1. CASE GiveUp
  <2>1. Turns!Over
    BY <1>1 DEF GiveUp, Turns!Over
  <2>2. QED
    BY <2>1 DEF Turns!Next
<1>2. CASE WatchEnds
  <2>1. UNCHANGED TurnVars
    BY <1>2 DEF WatchEnds, TurnVars
  <2>2. QED
    BY <2>1 DEF Turns!Next
<1>3. CASE NodeDies
  <2>1. Turns!Over
    BY <1>3 DEF NodeDies, Turns!Over
  <2>2. QED
    BY <2>1 DEF Turns!Next
<1>4. CASE Hang
  <2>1. UNCHANGED TurnVars
    BY <1>4 DEF Hang, TurnVars
  <2>2. QED
    BY <2>1 DEF Turns!Next
<1>5. CASE ProgramDies
  <2>1. UNCHANGED TurnVars
    BY <1>5 DEF ProgramDies, TurnVars
  <2>2. QED
    BY <2>1 DEF Turns!Next
<1>6. ASSUME NEW r \in Requests, Begin(r)  PROVE Turns!Next
  BY <1>6 DEF Begin, Turns!Ask, Turns!Next
<1>7. QED
  BY <1>1, <1>2, <1>3, <1>4, <1>5, <1>6

(* TakesTurns: what the caller of turn() sees is TurnTaking, for any        *)
(* messages, any modulus and any failure of either process.                 *)
THEOREM TakesTurnsAlways == ChannelSpec => TakesTurns
<1>1. ChannelInit => Turns!Init
  BY TurnsInit
<1>2. IInv /\ IInv' /\ [ChannelNext]_channelVars => [Turns!Next]_TurnVars
  <2> SUFFICES ASSUME IInv, IInv', [ChannelNext]_channelVars
               PROVE  Turns!Next \/ UNCHANGED TurnVars
    OBVIOUS
  <2>1. CASE NodeSteps /\ UNCHANGED env
    BY <2>1, ChannelAssumption, NodeStepsTake
  <2>2. CASE ProgSteps /\ UNCHANGED env
    BY <2>2, ChannelAssumption, ProgStepsTake
  <2>3. CASE /\ UNCHANGED env
             /\ \/ GiveUp \/ WatchEnds \/ NodeDies \/ Hang \/ ProgramDies
                \/ \E r \in Requests : Begin(r)
    BY <2>3, ChannelAssumption, OtherTake
  <2>4. CASE UNCHANGED channelVars
    BY <2>4 DEF channelVars, page, nodeVars, progVars, Phase, Answered, TurnVars
  <2>5. QED
    BY <2>1, <2>2, <2>3, <2>4 DEF ChannelNext
<1>3. QED
  BY <1>1, <1>2, Inductive, PTL DEF ChannelSpec, TakesTurns, Turns!Spec, TurnVars

-----------------------------------------------------------------------------
(* The guest and the node.                                                 *)

AnyMode == {"fast", "weak", "float", "inverted"}
AnyWord == {"rc", "warm", "xtal", "dead"}
Bits == {0, 1}
Drives == [ohms : {"none", "weak", "fast"}, volts : Nat]
Keys == [ohms : {"none", "weak", "fast"}, up : BOOLEAN]
Segments == [clocks : Nat, ns : Nat, period : Nat]
Crystals == {0, XtalPeriod}

Nodes ==
  [dir : [Pads -> Bits], out : [Pads -> Bits], mode : [Pads -> AnyMode],
   clocks : Nat, running : BOOLEAN, replyWord : AnyWord, replyAt : Nat,
   published : [Pads -> Drives], dirty : SUBSET Pads, pendingAt : Nat \cup {None},
   bankBits : [Banks -> Supplies], crystal : Crystals, clocked : Crystals,
   word : AnyWord, stalled : BOOLEAN, segments : Seq(Segments)]

Buses ==
  [dir : [Cogs -> [Pads -> Bits]], out : [Cogs -> [Pads -> Bits]], mode : [Pads -> AnyMode],
   moved : SUBSET Pads, powered : SUBSET Banks, high : SUBSET Banks, pubKey : [Pads -> Keys],
   dirty : SUBSET Pads, changeAt : Nat \cup {None}, yield : BOOLEAN,
   clk : [Cogs -> Nat], running : SUBSET Cogs, word : AnyWord, wordAt : Nat, reported : AnyWord]

(* A node's clock begins at nought.                                         *)
Clocked(n) == Len(n.segments) > 0 /\ n.segments[1].clocks = 0

TypeInv ==
  /\ ib \in Buses /\ node \in Nodes /\ Clocked(node)
  /\ pc \in {"engine", "turn", "reply"}
  /\ volts \in [Banks -> Supplies] /\ now \in Nat
  /\ "reason" \in DOMAIN turn
  /\ pc # "engine" => core = "runs"

-----------------------------------------------------------------------------
(* What the guest drives, and what its key says of a pad.                   *)
GuestDrive(b, p, v) == PadDrive(b.mode[p], Ored(b.dir, p), Ored(b.out, p), v[BankOf[p]])
MirroredDrive(n, p, v) == PadDrive(n.mode[p], n.dir[p], n.out[p], v[BankOf[p]])
Keyed(b) == \A p \in Pads : p \in b.dirty <=> GuestKey(b, p) # b.pubKey[p]

(* The two masks of a RUN.                                                  *)
PoweredBy(v) == {k \in Banks : v[k] # NoVolts}
HighBy(v) == {k \in PoweredBy(v) : v[k] # 0}

(* The guest has a change to report exactly when it has yielded.            *)
Yields ==
  core = "runs" =>
    ~ib.yield /\ (ib.changeAt = None <=> ~(pc = "reply" /\ "yield" \in turn.reason))

(* No change waits while the guest runs.                                    *)
Turned == pc # "engine" => node.pendingAt = None

(* The clock has stalled exactly when its source does not run, and the node *)
(* has the source of now while it runs a turn.                              *)
ClockSeen ==
  /\ node.stalled <=> ClockPeriod(node.word, node.clocked) = 0
  /\ pc # "engine" => node.clocked = node.crystal /\ node.crystal = CrystalOf(xi, xiMode)

BaseInv == TypeInv /\ Yields /\ Turned /\ ClockSeen

(* The guest's own record: what waits is what its keys tell apart.          *)
Fresh(b) == Keyed(b) /\ (b.changeAt = None => b.dirty = {})
Told == core = "runs" => Fresh(ib)

(* In a turn a pad whose key is the published one is driven as its net has  *)
(* it, the supplies being those of now.                                     *)
WhileInTurn ==
  pc # "engine" =>
    /\ node.dirty = {} /\ node.bankBits = volts
    /\ ib.powered = PoweredBy(volts) /\ ib.high = HighBy(volts)
    /\ \A p \in Pads \ ib.moved : node.mode[p] = ib.mode[p]
    /\ \A p \in Pads : GuestKey(ib, p) = ib.pubKey[p] => node.published[p] = GuestDrive(ib, p, volts)

(* Between two turns: the node mirrors the guest, and the pads that do not  *)
(* wait carry what it makes of the supplies it followed last.               *)
Mirrored ==
  /\ ib.moved = {} /\ node.mode = ib.mode
  /\ \A p \in Pads : node.dir[p] = Ored(ib.dir, p) /\ node.out[p] = Ored(ib.out, p)

Between ==
  pc = "engine" /\ core = "runs" =>
    /\ Mirrored
    /\ ib.powered = PoweredBy(node.bankBits) /\ ib.high = HighBy(node.bankBits)
    /\ \A p \in Pads \ node.dirty : node.published[p] = MirroredDrive(node, p, node.bankBits)
    /\ node.pendingAt = None => node.dirty = {}

(* The supplies do not move under a change that waits.                      *)
SuppliesWait == pc = "engine" /\ core = "runs" /\ node.pendingAt # None => node.bankBits = volts

(* What a slice makes of the bus b0.                                        *)
Sliced(b, b0) ==
  /\ b \in Buses /\ (b.yield <=> b.changeAt # None)
  /\ b.powered = b0.powered /\ b.high = b0.high /\ b.pubKey = b0.pubKey
  /\ b0.moved \subseteq b.moved /\ \A p \in Pads \ b.moved : b.mode[p] = b0.mode[p]
  /\ Fresh(b0) => Fresh(b)

NodeInv == BaseInv /\ Told /\ WhileInTurn /\ Between /\ SuppliesWait

-----------------------------------------------------------------------------
(* Least and greatest elements, and the guest's clock.                      *)

(* A nonempty set of naturals has a least element: what MachineClocks       *)
(* (machine_now_clocks) takes of the running cogs is one of them.           *)
LEMMA LeastIsIn == ASSUME NEW S \in SUBSET Nat, S # {}
  PROVE Least(S) \in S /\ \A y \in S : Least(S) <= y
<1> DEFINE R == {ss \in Nat \X Nat : ss[1] < ss[2]}
<1>1. IsWellFoundedOn(R, Nat) BY NatLessThanWellFounded DEF OpToRel
<1>2. \A x, y \in Nat : x < y => <<x, y>> \in R OBVIOUS
<1> HIDE DEF R
<1>3. PICK m \in S : \A y \in S : <<y, m>> \notin R BY <1>1, WFMin, Zenon
<1>4. \A y \in S : m <= y
  <2> TAKE y \in S
  <2>1. m \in Nat /\ y \in Nat /\ <<y, m>> \notin R BY <1>3
  <2>2. ~(y < m) BY <1>2, <2>1
  <2> QED BY <2>1, <2>2
<1>5. \E x \in S : \A y \in S : x <= y BY <1>4
<1> QED BY <1>5 DEF Least

(* So has one that is bounded a greatest.                                   *)
LEMMA GreatestIsIn ==
  ASSUME NEW S \in SUBSET Nat, S # {}, NEW top \in Nat, \A y \in S : y <= top
  PROVE Greatest(S) \in S
<1> DEFINE T == {k \in Nat : \A y \in S : y <= k}
<1>1. T # {} /\ T \in SUBSET Nat OBVIOUS
<1> DEFINE m == Least(T)
<1>2. m \in T /\ \A k \in T : m <= k BY <1>1, LeastIsIn
<1> HIDE DEF m
<1>3. m \in S
  <2>1. SUFFICES ASSUME m \notin S PROVE FALSE OBVIOUS
  <2>2. m \in Nat /\ \A y \in S : y \in Nat /\ y < m BY <1>2, <2>1
  <2>3. PICK y \in S : y \in Nat /\ y < m BY <2>2
  <2>4. m - 1 \in Nat /\ \A z \in S : z <= m - 1 BY <2>2, <2>3
  <2>6. m - 1 \in T BY <2>4
  <2>5. m <= m - 1 BY <1>2, <2>6
  <2> QED BY <2>2, <2>5
<1>4. \E x \in S : \A y \in S : y <= x BY <1>2, <1>3
<1> QED BY <1>4 DEF Greatest

(* The guest's clock (machine_now_clocks) is a count.                       *)
LEMMA MachineClocksIsNat == ASSUME NEW b \in Buses PROVE MachineClocks(b) \in Nat
<1> USE GuestAssumption
<1>1. /\ b.running \in SUBSET Cogs /\ \A c \in Cogs : b.clk[c] \in Nat BY DEF Buses
<1>2. CASE b.running # {}
  <2> DEFINE S == {b.clk[c] : c \in b.running}
  <2>1. S \in SUBSET Nat /\ S # {} BY <1>1, <1>2
  <2>2. Least(S) \in Nat BY <2>1, LeastIsIn
  <2> QED BY <1>2, <2>2 DEF MachineClocks
<1>3. CASE b.running = {}
  <2> DEFINE S == {b.clk[c] : c \in Cogs}
  <2>1. 0 \in Cogs BY DEF Cogs
  <2>2. S \in SUBSET Nat /\ S # {} BY <1>1, <2>1
  <2>3. \E top \in Nat : \A y \in S : y <= top
    <3> DEFINE U == {k \in Nat : k < NumCogs => \E top \in Nat : \A c \in 0..k : b.clk[c] <= top}
    <3> DEFINE W == Nat \ U
    <3>1. SUFFICES W = {}
      <4>1. NumCogs - 1 \in Nat /\ NumCogs - 1 < NumCogs OBVIOUS
      <4>2. NumCogs - 1 \in U BY <3>1, <4>1
      <4>3. PICK top \in Nat : \A c \in 0..NumCogs - 1 : b.clk[c] <= top BY <4>1, <4>2
      <4> QED BY <4>3 DEF Cogs
    <3>2. SUFFICES ASSUME W # {} PROVE FALSE OBVIOUS
    <3> DEFINE k == Least(W)
    <3>3. W \in SUBSET Nat OBVIOUS
    <3>4. k \in W /\ \A y \in W : k <= y BY <3>2, <3>3, LeastIsIn
    <3> HIDE DEF k
    <3>5. k \in Nat /\ k < NumCogs /\ ~(\E top \in Nat : \A c \in 0..k : b.clk[c] <= top) BY <3>4
    <3>6. k # 0
      <4>1. 0 \in Nat /\ b.clk[0] \in Nat BY <1>1, <2>1
      <4>2. \A c \in 0..0 : b.clk[c] <= b.clk[0] BY <4>1
      <4> QED BY <3>5, <4>1, <4>2
    <3>7. k - 1 \in Nat /\ k - 1 < NumCogs /\ ~(k <= k - 1) BY <3>5, <3>6
    <3>8. k - 1 \in U BY <3>4, <3>7
    <3>9. PICK t \in Nat : \A c \in 0..k - 1 : b.clk[c] <= t BY <3>7, <3>8
    <3>10. k \in Cogs BY <3>5 DEF Cogs
    <3>11. b.clk[k] \in Nat BY <1>1, <3>10
    <3>12. \A c \in 0..k : c \in 0..k - 1 \/ c = k BY <3>5
    <3>13. \A c \in 0..k : c \in Cogs BY <3>5 DEF Cogs
    <3>14. \A c \in 0..k : b.clk[c] <= t + b.clk[k]
      <4> TAKE c \in 0..k
      <4>1. b.clk[c] \in Nat BY <1>1, <3>13
      <4> QED BY <4>1, <3>9, <3>11, <3>12
    <3>15. t + b.clk[k] \in Nat BY <3>11
    <3> QED BY <3>5, <3>14, <3>15
  <2>4. Greatest(S) \in S BY <2>2, <2>3, GreatestIsIn
  <2> QED BY <1>3, <2>2, <2>4 DEF MachineClocks
<1> QED BY <1>2, <1>3

(* clocks_to_ns names an instant.                                           *)
LEMMA ClocksToNsIsNat ==
  ASSUME NEW segments \in Seq(Segments), Len(segments) > 0, segments[1].clocks = 0, NEW c \in Nat
  PROVE ClocksToNs(segments, c) \in Nat
<1> DEFINE from == {i \in DOMAIN segments : segments[i].clocks <= c}
           g == Greatest(from)
           s == segments[g]
<1>1. 1 \in from BY DEF Segments
<1>2. from \in SUBSET Nat /\ \A y \in from : y <= Len(segments) OBVIOUS
<1>3. Len(segments) \in Nat OBVIOUS
<1>4. g \in from BY <1>1, <1>2, <1>3, GreatestIsIn
<1> HIDE DEF g
<1>5. s \in Segments /\ s.clocks <= c BY <1>4
<1> HIDE DEF s
<1>6. s.clocks \in Nat /\ s.ns \in Nat /\ s.period \in Nat /\ c - s.clocks \in Nat BY <1>5 DEF Segments
<1>7. (c - s.clocks) * s.period \in Nat
  <2> DEFINE d == c - s.clocks e == s.period
  <2>1. d \in Nat /\ e \in Nat BY <1>6
  <2> HIDE DEF d, e
  <2>2. d * e \in Nat BY <2>1
  <2> QED BY <2>2 DEF d, e
<1>8. ClocksToNs(segments, c) = (c - s.clocks) * s.period + s.ns BY <1>1 DEF ClocksToNs, s, g
<1> QED BY <1>6, <1>7, <1>8

-----------------------------------------------------------------------------
(* What the node's operations keep.                                         *)

(* pad_drive answers with a drive.                                          *)
LEMMA PadDriveType ==
  ASSUME NEW word, NEW dir, NEW out, NEW v \in Supplies
  PROVE PadDrive(word, dir, out, v) \in Drives
BY GuestAssumption DEF PadDrive, Drives, Released, Supplies, NoVolts

(* drive_key tells two states of a pad apart exactly when their drives do,  *)
(* from the two masks of a RUN alone.                                       *)
LEMMA KeyTellsDrives ==
  ASSUME NEW w1, NEW w2, NEW d1, NEW d2, NEW o1, NEW o2, NEW v \in Supplies
  PROVE DriveKey(w1, d1, o1, v # NoVolts, v # NoVolts /\ v # 0)
          = DriveKey(w2, d2, o2, v # NoVolts, v # NoVolts /\ v # 0)
        <=> PadDrive(w1, d1, o1, v) = PadDrive(w2, d2, o2, v)
<1> DEFINE up1 == Level(w1, o1) = 1  up2 == Level(w2, o2) = 1
<1> HIDE DEF up1, up2
<1>1. v \in Nat \/ v = NoVolts BY GuestAssumption DEF Supplies
<1>2. PadDrive(w1, d1, o1, v) =
        IF d1 = 0 \/ v = NoVolts \/ w1 = "float" THEN [ohms |-> "none", volts |-> 0]
        ELSE [ohms |-> IF w1 = "weak" THEN "weak" ELSE "fast", volts |-> IF up1 THEN v ELSE 0]
  BY DEF PadDrive, Released, up1
<1>3. PadDrive(w2, d2, o2, v) =
        IF d2 = 0 \/ v = NoVolts \/ w2 = "float" THEN [ohms |-> "none", volts |-> 0]
        ELSE [ohms |-> IF w2 = "weak" THEN "weak" ELSE "fast", volts |-> IF up2 THEN v ELSE 0]
  BY DEF PadDrive, Released, up2
<1>4. DriveKey(w1, d1, o1, v # NoVolts, v # NoVolts /\ v # 0) =
        IF d1 = 0 \/ v = NoVolts \/ w1 = "float" THEN [ohms |-> "none", up |-> FALSE]
        ELSE [ohms |-> IF w1 = "weak" THEN "weak" ELSE "fast", up |-> up1 /\ v # NoVolts /\ v # 0]
  BY DEF DriveKey, up1
<1>5. DriveKey(w2, d2, o2, v # NoVolts, v # NoVolts /\ v # 0) =
        IF d2 = 0 \/ v = NoVolts \/ w2 = "float" THEN [ohms |-> "none", up |-> FALSE]
        ELSE [ohms |-> IF w2 = "weak" THEN "weak" ELSE "fast", up |-> up2 /\ v # NoVolts /\ v # 0]
  BY DEF DriveKey, up2
<1>6. NoVolts # 0 BY DEF NoVolts
<1> QED BY <1>2, <1>3, <1>4, <1>5, <1>6

(* pad_drive looks at the word, the masks and the supply alone.             *)
LEMMA KeyIsKey == ASSUME NEW b, NEW p PROVE
  GuestKey(b, p) \in Keys
BY DEF GuestKey, DriveKey, Keys

(* poll_clock_mode leaves the pads and the supplies alone, and knows        *)
(* afterwards whether the source it reads is running.                       *)
LEMMA PollKeeps ==
  ASSUME NEW n \in Nodes, Clocked(n), now \in Nat, n.stalled <=> ClockPeriod(n.word, n.clocked) = 0
  PROVE LET m == PollClockMode(n) IN
    /\ m \in Nodes /\ Clocked(m)
    /\ m.dir = n.dir /\ m.out = n.out /\ m.mode = n.mode /\ m.published = n.published
    /\ m.dirty = n.dirty /\ m.pendingAt = n.pendingAt /\ m.bankBits = n.bankBits
    /\ m.running = n.running
    /\ m.clocked = m.crystal
    /\ m.crystal = (IF n.replyWord # n.word THEN CrystalOf(xi, PolledMode(n)) ELSE n.crystal)
    /\ m.stalled <=> ClockPeriod(m.word, m.clocked) = 0
<1> USE GuestAssumption
<1> DEFINE moved == n.replyWord # n.word
           crystal == IF moved THEN CrystalOf(xi, PolledMode(n)) ELSE n.crystal
           known == [n EXCEPT !.crystal = crystal, !.clocked = crystal]
           period == ClockPeriod(n.replyWord, crystal)
           at == IF moved THEN n.replyAt ELSE n.clocks
           from == IF n.stalled THEN now ELSE ClocksToNs(n.segments, at)
           segment == [clocks |-> at, ns |-> from, period |-> period]
           m == PollClockMode(n)
<1>1. crystal \in Crystals BY DEF Crystals, CrystalOf, Nodes
<1>2. period \in Nat
  <2>1. n.replyWord \in AnyWord BY DEF Nodes
  <2>2. crystal \in Nat BY <1>1 DEF Crystals
  <2> HIDE DEF crystal
  <2> QED BY <2>1, <2>2 DEF ClockPeriod, AnyWord
<1>3. at \in Nat BY DEF Nodes
<1>4. from \in Nat
  <2>1. n.segments \in Seq(Segments) BY DEF Nodes
  <2> HIDE DEF at
  <2> QED BY <1>3, <2>1, ClocksToNsIsNat DEF Clocked
<1>5. segment \in Segments
  <2> HIDE DEF at, from, period
  <2> QED BY <1>2, <1>3, <1>4 DEF Segments
<1>6. m = IF ~moved /\ (crystal = n.clocked \/ ~DerivesFromCrystal(n.replyWord)) THEN known
          ELSE IF period = 0 THEN [known EXCEPT !.word = n.replyWord, !.stalled = TRUE]
          ELSE [known EXCEPT !.word = n.replyWord, !.stalled = FALSE, !.segments = Append(@, segment)]
  BY DEF PollClockMode
<1>7. n.replyWord \in AnyWord /\ n.segments \in Seq(Segments) /\ n.stalled \in BOOLEAN /\ n.word \in AnyWord
  BY DEF Nodes
<1>71. n.clocked \in Crystals BY DEF Nodes
<1> HIDE DEF crystal, segment
<1>8. known \in Nodes BY <1>1 DEF Nodes
<1>9. /\ known.dir = n.dir /\ known.out = n.out /\ known.mode = n.mode /\ known.published = n.published
      /\ known.dirty = n.dirty /\ known.pendingAt = n.pendingAt /\ known.bankBits = n.bankBits
      /\ known.running = n.running /\ known.segments = n.segments /\ known.word = n.word
      /\ known.stalled = n.stalled /\ known.crystal = crystal /\ known.clocked = crystal
  BY DEF Nodes
<1> HIDE DEF known
<1>10. CASE ~moved /\ (crystal = n.clocked \/ ~DerivesFromCrystal(n.replyWord))
  <2>1. m = known BY <1>6, <1>10
  <2>2. ClockPeriod(n.word, crystal) = ClockPeriod(n.word, n.clocked)
    <3>1. n.word = n.replyWord BY <1>10
    <3>2. CASE crystal = n.clocked BY <3>2
    <3>3. CASE ~DerivesFromCrystal(n.replyWord)
      <4>1. n.word \in {"rc", "warm"} BY <1>7, <3>1, <3>3 DEF AnyWord, DerivesFromCrystal
      <4> QED BY <4>1 DEF ClockPeriod
    <3> QED BY <1>10, <3>2, <3>3
  <2>3. Clocked(m) BY <2>1, <1>9 DEF Clocked
  <2>4. m.stalled <=> ClockPeriod(m.word, m.clocked) = 0 BY <2>1, <2>2, <1>9
  <2> HIDE DEF m
  <2> QED BY <2>1, <2>3, <2>4, <1>8, <1>9 DEF crystal, m
<1>11. CASE ~(~moved /\ (crystal = n.clocked \/ ~DerivesFromCrystal(n.replyWord))) /\ period = 0
  <2>1. m = [known EXCEPT !.word = n.replyWord, !.stalled = TRUE] BY <1>6, <1>11
  <2> HIDE DEF m
  <2>2. m \in Nodes BY <2>1, <1>7, <1>8 DEF Nodes
  <2>3. /\ m.dir = n.dir /\ m.out = n.out /\ m.mode = n.mode /\ m.published = n.published
        /\ m.dirty = n.dirty /\ m.pendingAt = n.pendingAt /\ m.bankBits = n.bankBits
        /\ m.running = n.running /\ m.segments = n.segments /\ m.word = n.replyWord
        /\ m.stalled = TRUE /\ m.crystal = crystal /\ m.clocked = crystal
    BY <2>1, <1>8, <1>9 DEF Nodes
  <2>4. ClockPeriod(m.word, m.clocked) = 0 BY <2>3, <1>11
  <2>5. Clocked(m) BY <2>3 DEF Clocked
  <2> QED BY <2>2, <2>3, <2>4, <2>5 DEF crystal, m
<1>12. CASE ~(~moved /\ (crystal = n.clocked \/ ~DerivesFromCrystal(n.replyWord))) /\ period # 0
  <2>1. m = [known EXCEPT !.word = n.replyWord, !.stalled = FALSE, !.segments = Append(@, segment)]
    BY <1>6, <1>12
  <2> HIDE DEF m
  <2> DEFINE segs == Append(n.segments, segment)
  <2>2. segs \in Seq(Segments) BY <1>5, <1>7
  <2>3. Len(segs) > 0 /\ segs[1] = n.segments[1] BY <1>5, <1>7 DEF Clocked
  <2> HIDE DEF segs
  <2>4. m = [known EXCEPT !.word = n.replyWord, !.stalled = FALSE, !.segments = segs] BY <2>1, <1>9 DEF segs
  <2>5. m \in Nodes BY <2>4, <2>2, <1>7, <1>8 DEF Nodes
  <2>6. /\ m.dir = n.dir /\ m.out = n.out /\ m.mode = n.mode /\ m.published = n.published
        /\ m.dirty = n.dirty /\ m.pendingAt = n.pendingAt /\ m.bankBits = n.bankBits
        /\ m.running = n.running /\ m.segments = segs /\ m.word = n.replyWord
        /\ m.stalled = FALSE /\ m.crystal = crystal /\ m.clocked = crystal
    BY <2>4, <1>8, <1>9 DEF Nodes
  <2>7. ClockPeriod(m.word, m.clocked) # 0 BY <2>6, <1>12
  <2>8. Clocked(m) BY <2>3, <2>6 DEF Clocked
  <2> QED BY <2>5, <2>6, <2>7, <2>8 DEF crystal, m
<1> QED BY <1>10, <1>11, <1>12

(* publish_pending touches the pads that wait, and only those.              *)
LEMMA PublishKeeps ==
  ASSUME NEW n \in Nodes, volts \in [Banks -> Supplies]
  PROVE LET m == PublishPending(n) IN
    /\ m \in Nodes /\ m.segments = n.segments
    /\ m.dir = n.dir /\ m.out = n.out /\ m.mode = n.mode /\ m.bankBits = n.bankBits
    /\ m.dirty = {} /\ m.pendingAt = None
    /\ m.stalled = n.stalled /\ m.word = n.word /\ m.clocked = n.clocked /\ m.crystal = n.crystal
    /\ \A p \in Pads : m.published[p] = IF p \in n.dirty THEN NodeDrive(n, p) ELSE n.published[p]
<1> USE GuestAssumption
<1> DEFINE pub == [p \in Pads |-> IF p \in n.dirty THEN NodeDrive(n, p) ELSE n.published[p]]
           m == PublishPending(n)
<1>1. pub \in [Pads -> Drives]
  <2> SUFFICES ASSUME NEW p \in Pads PROVE pub[p] \in Drives OBVIOUS
  <2>1. volts[BankOf[p]] \in Supplies OBVIOUS
  <2>2. NodeDrive(n, p) \in Drives BY <2>1, PadDriveType DEF NodeDrive
  <2> QED BY <2>2 DEF Nodes
<1>2. n.published \in [Pads -> Drives] BY DEF Nodes
<1>3. m = [n EXCEPT !.published = pub, !.dirty = {}, !.pendingAt = None] BY DEF PublishPending, Nodes
<1>4. \A p \in Pads : pub[p] = IF p \in n.dirty THEN NodeDrive(n, p) ELSE n.published[p] OBVIOUS
<1> HIDE DEF pub, m
<1>5. m \in Nodes BY <1>1, <1>3 DEF Nodes
<1>6. /\ m.segments = n.segments /\ m.published = pub
      /\ m.dir = n.dir /\ m.out = n.out /\ m.mode = n.mode /\ m.bankBits = n.bankBits
      /\ m.dirty = {} /\ m.pendingAt = None
      /\ m.stalled = n.stalled /\ m.word = n.word /\ m.clocked = n.clocked /\ m.crystal = n.crystal
  BY <1>3 DEF Nodes
<1> QED BY <1>4, <1>5, <1>6 DEF m

(* follow_supplies touches the pads of the banks that moved.                *)
LEMMA FollowKeeps ==
  ASSUME NEW n \in Nodes, volts \in [Banks -> Supplies]
  PROVE LET m == FollowSupplies(n) IN
    /\ m \in Nodes /\ m.segments = n.segments
    /\ m.dir = n.dir /\ m.out = n.out /\ m.mode = n.mode /\ m.bankBits = volts
    /\ m.dirty = n.dirty /\ m.pendingAt = n.pendingAt
    /\ m.stalled = n.stalled /\ m.word = n.word /\ m.clocked = n.clocked /\ m.crystal = n.crystal
    /\ \A p \in Pads : m.published[p] =
         IF volts[BankOf[p]] # n.bankBits[BankOf[p]] THEN NodeDrive(n, p) ELSE n.published[p]
<1> USE GuestAssumption
<1> DEFINE pub == [p \in Pads |->
             IF volts[BankOf[p]] # n.bankBits[BankOf[p]] THEN NodeDrive(n, p) ELSE n.published[p]]
           m == FollowSupplies(n)
<1>1. pub \in [Pads -> Drives]
  <2> SUFFICES ASSUME NEW p \in Pads PROVE pub[p] \in Drives OBVIOUS
  <2>1. volts[BankOf[p]] \in Supplies OBVIOUS
  <2>2. NodeDrive(n, p) \in Drives BY <2>1, PadDriveType DEF NodeDrive
  <2> QED BY <2>2 DEF Nodes
<1>3. m = [n EXCEPT !.published = pub, !.bankBits = volts] BY DEF FollowSupplies, Nodes
<1>4. \A p \in Pads : pub[p] =
        IF volts[BankOf[p]] # n.bankBits[BankOf[p]] THEN NodeDrive(n, p) ELSE n.published[p] OBVIOUS
<1> HIDE DEF pub, m
<1>5. m \in Nodes BY <1>1, <1>3 DEF Nodes
<1>6. /\ m.segments = n.segments /\ m.published = pub
      /\ m.dir = n.dir /\ m.out = n.out /\ m.mode = n.mode /\ m.bankBits = volts
      /\ m.dirty = n.dirty /\ m.pendingAt = n.pendingAt
      /\ m.stalled = n.stalled /\ m.word = n.word /\ m.clocked = n.clocked /\ m.crystal = n.crystal
  BY <1>3 DEF Nodes
<1> QED BY <1>4, <1>5, <1>6 DEF m

(* take_stop mirrors the guest; a yield leaves a change that waits.         *)
LEMMA TakeStopKeeps ==
  ASSUME TypeInv, "yield" \in turn.reason => ib.changeAt # None
  PROVE LET m == TakeStop(node) IN
    /\ m \in Nodes /\ Clocked(m)
    /\ m.mode = [p \in Pads |-> IF p \in ib.moved THEN ib.mode[p] ELSE node.mode[p]]
    /\ \A p \in Pads : m.dir[p] = Ored(ib.dir, p) /\ m.out[p] = Ored(ib.out, p)
    /\ m.running = (ib.running # {})
    /\ m.bankBits = node.bankBits /\ m.published = node.published
    /\ m.stalled = node.stalled /\ m.word = node.word /\ m.clocked = node.clocked
    /\ m.crystal = node.crystal /\ m.replyWord = ib.word
    /\ "yield" \in turn.reason => m.dirty = ib.dirty /\ m.pendingAt \in Nat
    /\ "yield" \notin turn.reason => m.dirty = node.dirty /\ m.pendingAt = node.pendingAt
<1> USE GuestAssumption
<1> DEFINE dirs == [p \in Pads |-> Ored(ib.dir, p)]
           outs == [p \in Pads |-> Ored(ib.out, p)]
           modes == [p \in Pads |-> IF p \in ib.moved THEN ib.mode[p] ELSE node.mode[p]]
           clocks == MachineClocks(ib)
           alive == ib.running # {}
           mirrored == [node EXCEPT !.dir = dirs, !.out = outs, !.mode = modes, !.clocks = clocks,
                          !.running = alive, !.replyWord = ib.word, !.replyAt = ib.wordAt]
           at == ClocksToNs(node.segments, ib.changeAt)
           m == TakeStop(node)
<1>1. ib \in Buses /\ node \in Nodes /\ Clocked(node) BY DEF TypeInv
<1>2. dirs \in [Pads -> Bits] /\ outs \in [Pads -> Bits] BY DEF Ored, Bits
<1>3. modes \in [Pads -> AnyMode] BY <1>1 DEF Nodes, Buses
<1>4. clocks \in Nat BY <1>1, MachineClocksIsNat
<1>5. alive \in BOOLEAN OBVIOUS
<1>6. ib.word \in AnyWord /\ ib.wordAt \in Nat /\ ib.dirty \in SUBSET Pads BY <1>1 DEF Buses
<1>7. ib.changeAt = None \/ at \in Nat
  <2>1. node.segments \in Seq(Segments) BY <1>1 DEF Nodes
  <2>2. ib.changeAt \in Nat \cup {None} BY <1>1 DEF Buses
  <2> QED BY <1>1, <2>1, <2>2, ClocksToNsIsNat DEF Clocked
<1>8. m = IF "yield" \in turn.reason THEN [mirrored EXCEPT !.pendingAt = at, !.dirty = ib.dirty]
          ELSE mirrored
  BY <1>1 DEF TakeStop, Nodes
<1> HIDE DEF m
<1>9. dirs = [p \in Pads |-> Ored(ib.dir, p)] /\ outs = [p \in Pads |-> Ored(ib.out, p)]
  OBVIOUS
<1> HIDE DEF dirs, outs, modes, clocks, alive, at
<1>10. mirrored \in Nodes BY <1>1, <1>2, <1>3, <1>4, <1>5, <1>6 DEF Nodes
<1>11. /\ mirrored.dir = dirs /\ mirrored.out = outs /\ mirrored.mode = modes
       /\ mirrored.running = alive /\ mirrored.bankBits = node.bankBits
       /\ mirrored.published = node.published /\ mirrored.stalled = node.stalled
       /\ mirrored.word = node.word /\ mirrored.clocked = node.clocked
       /\ mirrored.crystal = node.crystal /\ mirrored.replyWord = ib.word
       /\ mirrored.dirty = node.dirty /\ mirrored.pendingAt = node.pendingAt
       /\ mirrored.segments = node.segments
  BY <1>1 DEF Nodes
<1> HIDE DEF mirrored
<1>12. \A p \in Pads : dirs[p] = Ored(ib.dir, p) /\ outs[p] = Ored(ib.out, p) BY <1>9
<1>13. CASE "yield" \in turn.reason
  <2>1. m = [mirrored EXCEPT !.pendingAt = at, !.dirty = ib.dirty] /\ at \in Nat BY <1>7, <1>8, <1>13
  <2>2. m \in Nodes BY <2>1, <1>6, <1>10 DEF Nodes
  <2>3. /\ m.dir = dirs /\ m.out = outs /\ m.mode = modes
        /\ m.running = alive /\ m.bankBits = node.bankBits
        /\ m.published = node.published /\ m.stalled = node.stalled
        /\ m.word = node.word /\ m.clocked = node.clocked
        /\ m.crystal = node.crystal /\ m.replyWord = ib.word
        /\ m.dirty = ib.dirty /\ m.pendingAt = at /\ m.segments = node.segments
    BY <2>1, <1>10, <1>11 DEF Nodes
  <2>4. Clocked(m) BY <2>3, <1>1 DEF Clocked
  <2> QED BY <2>1, <2>2, <2>3, <2>4, <1>12, <1>13 DEF m, modes, alive
<1>14. CASE "yield" \notin turn.reason
  <2>1. m = mirrored BY <1>8, <1>14
  <2>2. Clocked(m) BY <2>1, <1>11, <1>1 DEF Clocked
  <2> QED BY <2>1, <2>2, <1>10, <1>11, <1>12, <1>14 DEF m, modes, alive
<1> QED BY <1>13, <1>14

(* The node at a wake: its pads as they were, and the crystal of now.       *)
LEMMA WokenFacts ==
  ASSUME BaseInv
  PROVE /\ Woken \in Nodes /\ Clocked(Woken)
        /\ Woken.dir = node.dir /\ Woken.out = node.out /\ Woken.mode = node.mode
        /\ Woken.published = node.published /\ Woken.dirty = node.dirty
        /\ Woken.pendingAt = node.pendingAt /\ Woken.bankBits = node.bankBits
        /\ Woken.clocked = Woken.crystal /\ Woken.crystal = CrystalOf(xi, PolledMode(node))
        /\ Woken.stalled <=> ClockPeriod(Woken.word, Woken.clocked) = 0
<1> DEFINE crystal == CrystalOf(xi, xiMode)
           n == [node EXCEPT !.crystal = crystal]
<1>1. node \in Nodes /\ Clocked(node) /\ now \in Nat /\ (node.stalled <=> ClockPeriod(node.word, node.clocked) = 0)
  BY DEF BaseInv, TypeInv, ClockSeen
<1>2. crystal \in Crystals BY DEF CrystalOf, Crystals
<1>3. Woken = PollClockMode(n) BY DEF Woken
<1>4. crystal = CrystalOf(xi, xiMode) OBVIOUS
<1> HIDE DEF crystal
<1>5. n \in Nodes BY <1>1, <1>2 DEF Nodes
<1>6. /\ n.dir = node.dir /\ n.out = node.out /\ n.mode = node.mode
      /\ n.published = node.published /\ n.dirty = node.dirty
      /\ n.pendingAt = node.pendingAt /\ n.bankBits = node.bankBits
      /\ n.segments = node.segments /\ n.replyWord = node.replyWord /\ n.word = node.word
      /\ n.stalled = node.stalled /\ n.clocked = node.clocked /\ n.crystal = crystal
  BY <1>1 DEF Nodes
<1> HIDE DEF n
<1>7. Clocked(n) /\ (n.stalled <=> ClockPeriod(n.word, n.clocked) = 0) BY <1>1, <1>6 DEF Clocked
<1>8. PolledMode(n) = PolledMode(node) BY <1>6 DEF PolledMode
<1>9. n.replyWord = n.word => PolledMode(node) = xiMode BY <1>6 DEF PolledMode
<1> HIDE DEF Woken
<1> QED BY <1>1, <1>3, <1>4, <1>5, <1>6, <1>7, <1>8, <1>9, PollKeeps

(* The node with a STOP folded in.                                          *)
LEMMA FoldedFacts ==
  ASSUME BaseInv, pc = "reply"
  PROVE /\ Folded \in Nodes /\ Clocked(Folded)
        /\ Folded.mode = [p \in Pads |-> IF p \in ib.moved THEN ib.mode[p] ELSE node.mode[p]]
        /\ \A p \in Pads : Folded.dir[p] = Ored(ib.dir, p) /\ Folded.out[p] = Ored(ib.out, p)
        /\ Folded.running = (ib.running # {})
        /\ Folded.published = node.published /\ Folded.bankBits = node.bankBits
        /\ Folded.clocked = Folded.crystal /\ Folded.crystal = CrystalOf(xi, PolledMode(TakeStop(node)))
        /\ Folded.stalled <=> ClockPeriod(Folded.word, Folded.clocked) = 0
        /\ "yield" \in turn.reason => Folded.dirty = ib.dirty /\ Folded.pendingAt \in Nat
        /\ "yield" \notin turn.reason => Folded.dirty = node.dirty /\ Folded.pendingAt = None
<1> DEFINE n == TakeStop(node)
<1>1. TypeInv /\ ("yield" \in turn.reason => ib.changeAt # None) BY DEF BaseInv, Yields, TypeInv
<1>2. now \in Nat /\ (node.stalled <=> ClockPeriod(node.word, node.clocked) = 0)
      /\ node.crystal = CrystalOf(xi, xiMode) /\ node.pendingAt = None
  BY DEF BaseInv, TypeInv, ClockSeen, Turned
<1>3. /\ n \in Nodes /\ Clocked(n)
      /\ n.mode = [p \in Pads |-> IF p \in ib.moved THEN ib.mode[p] ELSE node.mode[p]]
      /\ \A p \in Pads : n.dir[p] = Ored(ib.dir, p) /\ n.out[p] = Ored(ib.out, p)
      /\ n.running = (ib.running # {})
      /\ n.bankBits = node.bankBits /\ n.published = node.published
      /\ n.stalled = node.stalled /\ n.word = node.word /\ n.clocked = node.clocked
      /\ n.crystal = node.crystal
      /\ "yield" \in turn.reason => n.dirty = ib.dirty /\ n.pendingAt \in Nat
      /\ "yield" \notin turn.reason => n.dirty = node.dirty /\ n.pendingAt = node.pendingAt
  BY <1>1, TakeStopKeeps
<1>4. Folded = PollClockMode(n) BY DEF Folded
<1>5. n.replyWord = n.word => PolledMode(n) = xiMode BY DEF PolledMode
<1> HIDE DEF n, Folded
<1>6. n.stalled <=> ClockPeriod(n.word, n.clocked) = 0 BY <1>2, <1>3
<1>7. LET m == PollClockMode(n) IN
    /\ m \in Nodes /\ Clocked(m)
    /\ m.dir = n.dir /\ m.out = n.out /\ m.mode = n.mode /\ m.published = n.published
    /\ m.dirty = n.dirty /\ m.pendingAt = n.pendingAt /\ m.bankBits = n.bankBits
    /\ m.running = n.running
    /\ m.clocked = m.crystal
    /\ m.crystal = (IF n.replyWord # n.word THEN CrystalOf(xi, PolledMode(n)) ELSE n.crystal)
    /\ m.stalled <=> ClockPeriod(m.word, m.clocked) = 0
  BY <1>2, <1>3, <1>6, PollKeeps
<1>8. Folded.crystal = CrystalOf(xi, PolledMode(n)) BY <1>2, <1>3, <1>4, <1>5, <1>7
<1> QED BY <1>2, <1>3, <1>4, <1>7, <1>8 DEF n

-----------------------------------------------------------------------------
(* A slice.                                                                 *)

(* mark_changes leaves what the pads are alone, and has the waiting ones    *)
(* right.                                                                   *)
LEMMA MarkedFacts ==
  ASSUME NEW b \in Buses, b.yield <=> b.changeAt # None, NEW c \in Cogs
  PROVE LET m == Marked(b, c) IN
    /\ m \in Buses /\ (m.yield <=> m.changeAt # None) /\ Fresh(m)
    /\ m.powered = b.powered /\ m.high = b.high /\ m.pubKey = b.pubKey
    /\ m.moved = b.moved /\ m.mode = b.mode /\ m.dir = b.dir /\ m.out = b.out
<1> DEFINE dirty == {p \in Pads : GuestKey(b, p) # b.pubKey[p]}
           first == dirty # {} /\ b.changeAt = None
           at == IF first THEN b.clk[c] ELSE b.changeAt
           yield == b.yield \/ first
           m == Marked(b, c)
<1>1. b.clk[c] \in Nat /\ b.changeAt \in Nat \cup {None} /\ b.yield \in BOOLEAN BY DEF Buses
<1>2. m = [b EXCEPT !.dirty = dirty, !.changeAt = at, !.yield = yield] BY DEF Marked, Buses
<1>3. dirty \in SUBSET Pads OBVIOUS
<1>4. at \in Nat \cup {None} BY <1>1
<1>5. yield \in BOOLEAN BY <1>1
<1>6. yield <=> at # None BY <1>1 DEF None
<1>7. at = None => dirty = {} BY <1>1 DEF None
<1>8. \A p \in Pads : p \in dirty <=> GuestKey(b, p) # b.pubKey[p] OBVIOUS
<1> HIDE DEF dirty, at, yield, m
<1>9. m \in Buses BY <1>2, <1>3, <1>4, <1>5 DEF Buses
<1>10. /\ m.dirty = dirty /\ m.changeAt = at /\ m.yield = yield
       /\ m.powered = b.powered /\ m.high = b.high /\ m.pubKey = b.pubKey
       /\ m.moved = b.moved /\ m.mode = b.mode /\ m.dir = b.dir /\ m.out = b.out
  BY <1>2 DEF Buses
<1>11. \A p \in Pads : GuestKey(m, p) = GuestKey(b, p) BY <1>10 DEF GuestKey
<1>12. Keyed(m) BY <1>8, <1>10, <1>11 DEF Keyed
<1> QED BY <1>6, <1>7, <1>9, <1>10, <1>12 DEF m, Fresh

(* Instructions that retire alone.                                          *)
LEMMA RetireSlices ==
  ASSUME NEW b \in Buses, b.yield <=> b.changeAt # None, NEW c \in Cogs, NEW n \in Nat
  PROVE Sliced(Retire(b, c, n), b)
<1> DEFINE clk == [b.clk EXCEPT ![c] = @ + n]
           m == [b EXCEPT !.clk = clk]
<1>1. b.clk \in [Cogs -> Nat] BY DEF Buses
<1>2. clk \in [Cogs -> Nat] BY <1>1
<1>3. Retire(b, c, n) = m BY DEF Retire, Buses
<1> HIDE DEF clk
<1>4. m \in Buses BY <1>2 DEF Buses
<1>5. /\ m.dirty = b.dirty /\ m.changeAt = b.changeAt /\ m.yield = b.yield
      /\ m.powered = b.powered /\ m.high = b.high /\ m.pubKey = b.pubKey
      /\ m.moved = b.moved /\ m.mode = b.mode /\ m.dir = b.dir /\ m.out = b.out
  BY DEF Buses
<1> HIDE DEF m
<1>6. \A p \in Pads : GuestKey(m, p) = GuestKey(b, p) BY <1>5 DEF GuestKey
<1> QED BY <1>3, <1>4, <1>5, <1>6 DEF Sliced, Fresh, Keyed

(* An instruction that writes a pad's registers.                            *)
LEMMA WritePadSlices ==
  ASSUME NEW b \in Buses, b.yield <=> b.changeAt # None, NEW c \in Cogs, NEW p \in Pads,
         NEW dir \in 0..1, NEW out \in 0..1
  PROVE Sliced(WritePad(b, c, p, dir, out), b)
<1> DEFINE outs == [b.out EXCEPT ![c][p] = out]
           b1 == [b EXCEPT !.out = outs]
           b2 == Marked(b1, c)
           dirs == [b2.dir EXCEPT ![c][p] = dir]
           b3 == [b2 EXCEPT !.dir = dirs]
           b4 == Marked(b3, c)
<1>1. b.out \in [Cogs -> [Pads -> Bits]] BY DEF Buses
<1>2. outs \in [Cogs -> [Pads -> Bits]] BY <1>1 DEF Bits
<1>3. [b EXCEPT !.out[c][p] = out] = b1 BY DEF Buses
<1> HIDE DEF outs
<1>4. b1 \in Buses BY <1>2 DEF Buses
<1>5. /\ b1.changeAt = b.changeAt /\ b1.yield = b.yield
      /\ b1.powered = b.powered /\ b1.high = b.high /\ b1.pubKey = b.pubKey
      /\ b1.moved = b.moved /\ b1.mode = b.mode
  BY DEF Buses
<1> HIDE DEF b1
<1>6. /\ b2 \in Buses /\ (b2.yield <=> b2.changeAt # None)
      /\ b2.powered = b.powered /\ b2.high = b.high /\ b2.pubKey = b.pubKey
      /\ b2.moved = b.moved /\ b2.mode = b.mode
  BY <1>4, <1>5, MarkedFacts
<1>7. b2.dir \in [Cogs -> [Pads -> Bits]] BY <1>6 DEF Buses
<1>8. dirs \in [Cogs -> [Pads -> Bits]] BY <1>7 DEF Bits
<1>9. [b2 EXCEPT !.dir[c][p] = dir] = b3 BY <1>6 DEF Buses
<1> HIDE DEF dirs, b2
<1>10. b3 \in Buses BY <1>6, <1>8 DEF Buses
<1>11. /\ b3.changeAt = b2.changeAt /\ b3.yield = b2.yield
       /\ b3.powered = b2.powered /\ b3.high = b2.high /\ b3.pubKey = b2.pubKey
       /\ b3.moved = b2.moved /\ b3.mode = b2.mode
  BY <1>6 DEF Buses
<1> HIDE DEF b3
<1>12. /\ b4 \in Buses /\ (b4.yield <=> b4.changeAt # None) /\ Fresh(b4)
       /\ b4.powered = b.powered /\ b4.high = b.high /\ b4.pubKey = b.pubKey
       /\ b4.moved = b.moved /\ b4.mode = b.mode
  BY <1>6, <1>10, <1>11, MarkedFacts
<1>13. WritePad(b, c, p, dir, out) = b4 BY <1>3, <1>9 DEF WritePad, b2, b3, b4
<1> QED BY <1>12, <1>13 DEF Sliced

(* ipc_wrpin: where the guest does not drive the pad its key stays.         *)
LEMMA WrpinSlices ==
  ASSUME NEW b \in Buses, b.yield <=> b.changeAt # None, NEW c \in Cogs, NEW p \in Pads, NEW w \in Modes
  PROVE Sliced(Wrpin(b, c, p, w), b)
<1> USE GuestAssumption
<1> DEFINE modes == [b.mode EXCEPT ![p] = w]
           moved == IF b.mode[p] # w THEN b.moved \cup {p} ELSE b.moved
           b1 == [b EXCEPT !.mode = modes, !.moved = moved]
<1>1. b.mode \in [Pads -> AnyMode] /\ b.moved \in SUBSET Pads BY DEF Buses
<1>2. modes \in [Pads -> AnyMode] BY <1>1 DEF AnyMode
<1>3. moved \in SUBSET Pads /\ b.moved \subseteq moved BY <1>1
<1>4. \A q \in Pads \ moved : modes[q] = b.mode[q] BY <1>1
<1>5. \A q \in Pads : q # p => modes[q] = b.mode[q] BY <1>1
<1>6. Wrpin(b, c, p, w) = IF Ored(b.dir, p) = 1 THEN Marked(b1, c) ELSE b1 BY DEF Wrpin, Buses
<1> HIDE DEF modes, moved
<1>7. b1 \in Buses BY <1>2, <1>3 DEF Buses
<1>8. /\ b1.dirty = b.dirty /\ b1.changeAt = b.changeAt /\ b1.yield = b.yield
      /\ b1.powered = b.powered /\ b1.high = b.high /\ b1.pubKey = b.pubKey
      /\ b1.moved = moved /\ b1.mode = modes /\ b1.dir = b.dir /\ b1.out = b.out
  BY DEF Buses
<1> HIDE DEF b1
<1>9. CASE Ored(b.dir, p) = 1
  BY <1>3, <1>4, <1>6, <1>7, <1>8, <1>9, MarkedFacts DEF Sliced
<1>10. CASE Ored(b.dir, p) # 1
  <2>1. Ored(b.dir, p) = 0 BY <1>10 DEF Ored
  <2>2. \A q \in Pads : GuestKey(b1, q) = GuestKey(b, q)
    <3> TAKE q \in Pads
    <3>1. CASE q = p BY <2>1, <3>1, <1>8 DEF GuestKey, DriveKey
    <3>2. CASE q # p BY <3>2, <1>5, <1>8 DEF GuestKey
    <3> QED BY <3>1, <3>2
  <2>3. Fresh(b) => Fresh(b1) BY <2>2, <1>8 DEF Fresh, Keyed
  <2> QED BY <2>3, <1>3, <1>4, <1>6, <1>7, <1>8, <1>10 DEF Sliced
<1> QED BY <1>9, <1>10

(* A clock word selected, or a cog stopped: no pad moves.                   *)
LEMMA OtherSlices ==
  ASSUME NEW b \in Buses, b.yield <=> b.changeAt # None, NEW c \in Cogs
  PROVE /\ \A w \in Words : Sliced(SelectClock(b, c, w), b)
        /\ Sliced(StopCog(b, c), b)
<1> USE GuestAssumption
<1>1. ASSUME NEW w \in Words PROVE Sliced(SelectClock(b, c, w), b)
  <2> DEFINE at == b.clk[c] m == [b EXCEPT !.word = w, !.wordAt = at]
  <2>1. at \in Nat /\ w \in AnyWord BY DEF Buses, AnyWord
  <2> HIDE DEF at
  <2>2. m \in Buses BY <2>1 DEF Buses
  <2>3. /\ m.dirty = b.dirty /\ m.changeAt = b.changeAt /\ m.yield = b.yield
        /\ m.powered = b.powered /\ m.high = b.high /\ m.pubKey = b.pubKey
        /\ m.moved = b.moved /\ m.mode = b.mode /\ m.dir = b.dir /\ m.out = b.out
    BY DEF Buses
  <2> HIDE DEF m
  <2>4. \A p \in Pads : GuestKey(m, p) = GuestKey(b, p) BY <2>3 DEF GuestKey
  <2>5. Sliced(m, b) BY <2>2, <2>3, <2>4 DEF Sliced, Fresh, Keyed
  <2> QED BY <2>5 DEF SelectClock, m, at
<1>2. Sliced(StopCog(b, c), b)
  <2> DEFINE left == b.running \ {c} m == [b EXCEPT !.running = left]
  <2>1. left \in SUBSET Cogs BY DEF Buses
  <2>2. StopCog(b, c) = m BY DEF StopCog, Buses
  <2> HIDE DEF left
  <2>3. m \in Buses BY <2>1 DEF Buses
  <2>4. /\ m.dirty = b.dirty /\ m.changeAt = b.changeAt /\ m.yield = b.yield
        /\ m.powered = b.powered /\ m.high = b.high /\ m.pubKey = b.pubKey
        /\ m.moved = b.moved /\ m.mode = b.mode /\ m.dir = b.dir /\ m.out = b.out
    BY DEF Buses
  <2> HIDE DEF m
  <2>5. \A p \in Pads : GuestKey(m, p) = GuestKey(b, p) BY <2>4 DEF GuestKey
  <2> QED BY <2>2, <2>3, <2>4, <2>5 DEF Sliced, Fresh, Keyed
<1> QED BY <1>1, <1>2

(* Two stretches of a slice are one.                                        *)
LEMMA SlicesCompose ==
  ASSUME NEW a, NEW b, NEW c, Sliced(b, a), Sliced(c, b) PROVE Sliced(c, a)
BY DEF Sliced

(* Whatever a slice does, it ends in AfterSlice of such a bus.              *)
LEMMA SliceEnds ==
  ASSUME BaseInv, NEW c \in Cogs, RunSlice(c) \/ StallSlice(c)
  PROVE \E b, console, stalled : Sliced(b, ib) /\ AfterSlice(b, c, console, stalled)
<1> USE GuestAssumption
<1>1. ib \in Buses /\ (ib.yield <=> ib.changeAt # None)
  BY DEF BaseInv, TypeInv, Yields, RunSlice, StallSlice
<1>2. Sliced(ib, ib) BY <1>1 DEF Sliced
<1>3. CASE StallSlice(c) BY <1>2, <1>3 DEF StallSlice
<1>4. CASE RunSlice(c)
  <2>1. PICK n \in 1..Quantum :
       \/ AfterSlice(Retire(ib, c, n), c, FALSE, FALSE)
       \/ \E b \in Effects(Retire(ib, c, n), c) : AfterSlice(b, c, FALSE, FALSE)
       \/ AfterSlice(Retire(ib, c, n), c, TRUE, FALSE)
    BY <1>4 DEF RunSlice
  <2> DEFINE r == Retire(ib, c, n)
  <2>2. Sliced(r, ib) BY <1>1, RetireSlices
  <2>3. r \in Buses /\ (r.yield <=> r.changeAt # None) BY <2>2 DEF Sliced
  <2>4. ASSUME NEW b \in Effects(r, c) PROVE Sliced(b, r)
    <3> HIDE DEF r
    <3>1. \/ \E p \in Pads, d \in 0..1, o \in 0..1 : b = WritePad(r, c, p, d, o)
          \/ \E p \in Pads, w \in Modes : b = Wrpin(r, c, p, w)
          \/ \E w \in Words : b = SelectClock(r, c, w)
          \/ b = StopCog(r, c)
      BY <2>4 DEF Effects
    <3>2. CASE \E p \in Pads, d \in 0..1, o \in 0..1 : b = WritePad(r, c, p, d, o)
      BY <3>2, <2>3, WritePadSlices
    <3>3. CASE \E p \in Pads, w \in Modes : b = Wrpin(r, c, p, w) BY <3>3, <2>3, WrpinSlices
    <3>4. CASE \E w \in Words : b = SelectClock(r, c, w) BY <3>4, <2>3, OtherSlices
    <3>5. CASE b = StopCog(r, c) BY <3>5, <2>3, OtherSlices
    <3> QED BY <3>1, <3>2, <3>3, <3>4, <3>5
  <2>5. \A b \in Effects(r, c) : Sliced(b, ib) BY <2>2, <2>4, SlicesCompose
  <2> HIDE DEF r
  <2> QED BY <2>1, <2>2, <2>5 DEF r
<1> QED BY <1>3, <1>4

(* After a slice the reasons name a yield exactly when the guest has one.   *)
LEMMA AfterSliceFacts ==
  ASSUME NEW b, NEW c, NEW console, NEW stalled, "reason" \in DOMAIN turn,
         Sliced(b, ib), AfterSlice(b, c, console, stalled)
  PROVE /\ ib' \in Buses /\ ~ib'.yield
        /\ ib'.dirty = b.dirty /\ ib'.changeAt = b.changeAt
        /\ ib'.powered = ib.powered /\ ib'.high = ib.high /\ ib'.pubKey = ib.pubKey
        /\ ib'.moved = b.moved /\ ib'.mode = b.mode /\ ib'.dir = b.dir /\ ib'.out = b.out
        /\ Fresh(b) => Fresh(ib')
        /\ "reason" \in DOMAIN turn' /\ pc' \in {"turn", "reply"}
        /\ ib'.changeAt = None <=> ~(pc' = "reply" /\ "yield" \in turn'.reason)
        /\ UNCHANGED <<node, package, core, now, armed, events>>
<1> DEFINE why == Reasons(b, console) \cup (IF stalled THEN {"stall"} ELSE {})
<1>1. b \in Buses /\ (b.yield <=> b.changeAt # None)
      /\ b.powered = ib.powered /\ b.high = ib.high /\ b.pubKey = ib.pubKey
  BY DEF Sliced
<1>2. /\ ib' = [b EXCEPT !.yield = FALSE, !.reported = b.word]
      /\ turn' = [turn EXCEPT !.from = c + 1, !.stepped = TRUE, !.reason = why, !.last = c]
      /\ pc' = IF why = {} THEN "turn" ELSE "reply"
      /\ UNCHANGED <<node, package, core, now, armed, events>>
  BY DEF AfterSlice
<1>3. "yield" \in why <=> b.yield BY DEF Reasons
<1> HIDE DEF why
<1>4. "reason" \in DOMAIN turn' /\ turn'.reason = why BY <1>2
<1>5. b.word \in AnyWord BY <1>1 DEF Buses
<1>6. ib' \in Buses BY <1>1, <1>2, <1>5 DEF Buses
<1>7. /\ ib'.dirty = b.dirty /\ ib'.changeAt = b.changeAt /\ ~ib'.yield
      /\ ib'.powered = b.powered /\ ib'.high = b.high /\ ib'.pubKey = b.pubKey
      /\ ib'.moved = b.moved /\ ib'.mode = b.mode /\ ib'.dir = b.dir /\ ib'.out = b.out
  BY <1>1, <1>2 DEF Buses
<1>8. \A p \in Pads : GuestKey(ib', p) = GuestKey(b, p) BY <1>7 DEF GuestKey
<1>9. Fresh(b) => Fresh(ib') BY <1>7, <1>8 DEF Fresh, Keyed
<1>10. ib'.changeAt = None <=> ~(pc' = "reply" /\ "yield" \in turn'.reason)
  <2>1. CASE b.yield
    <3>1. why # {} BY <2>1, <1>3
    <3> QED BY <2>1, <3>1, <1>1, <1>2, <1>3, <1>4, <1>7
  <2>2. CASE ~b.yield BY <2>2, <1>1, <1>3, <1>4, <1>7
  <2> QED BY <2>1, <2>2
<1> QED BY <1>1, <1>2, <1>4, <1>6, <1>7, <1>9, <1>10

(* The STOP takes what yielded as published.                                *)
LEMMA StoppedFacts ==
  ASSUME BaseInv, pc = "reply"
  PROVE LET b == Stopped(ib) IN
    /\ b \in Buses /\ ~b.yield /\ b.changeAt = None /\ b.moved = {}
    /\ b.powered = ib.powered /\ b.high = ib.high /\ b.running = ib.running
    /\ b.mode = ib.mode /\ b.dir = ib.dir /\ b.out = ib.out
    /\ Fresh(ib) => Keyed(b) /\ b.dirty = {}
<1> DEFINE keys == [p \in Pads |-> IF p \in ib.dirty THEN GuestKey(ib, p) ELSE ib.pubKey[p]]
           b == Stopped(ib)
<1>1. ib \in Buses /\ ~ib.yield /\ (ib.changeAt = None <=> ~("yield" \in turn.reason))
  BY DEF BaseInv, TypeInv, Yields
<1>2. keys \in [Pads -> Keys]
  <2> SUFFICES ASSUME NEW p \in Pads PROVE keys[p] \in Keys OBVIOUS
  <2> QED BY <1>1, KeyIsKey DEF Buses
<1>3. \A p \in Pads : keys[p] = IF p \in ib.dirty THEN GuestKey(ib, p) ELSE ib.pubKey[p] OBVIOUS
<1>4. b = IF "yield" \in turn.reason
          THEN [ib EXCEPT !.pubKey = keys, !.dirty = {}, !.changeAt = None, !.moved = {}]
          ELSE [ib EXCEPT !.moved = {}]
  BY <1>1 DEF Stopped, Buses
<1> HIDE DEF keys, b
<1>5. CASE "yield" \in turn.reason
  <2>1. b = [ib EXCEPT !.pubKey = keys, !.dirty = {}, !.changeAt = None, !.moved = {}] BY <1>4, <1>5
  <2>2. b \in Buses BY <2>1, <1>1, <1>2 DEF Buses
  <2>3. /\ b.yield = ib.yield /\ b.changeAt = None /\ b.moved = {}
        /\ b.powered = ib.powered /\ b.high = ib.high /\ b.running = ib.running
        /\ b.mode = ib.mode /\ b.dir = ib.dir /\ b.out = ib.out
        /\ b.pubKey = keys /\ b.dirty = {}
    BY <2>1, <1>1 DEF Buses
  <2>4. \A p \in Pads : GuestKey(b, p) = GuestKey(ib, p) BY <2>3 DEF GuestKey
  <2>5. Fresh(ib) => Keyed(b) BY <2>3, <2>4, <1>3 DEF Fresh, Keyed
  <2> QED BY <2>2, <2>3, <2>5, <1>1 DEF b
<1>6. CASE "yield" \notin turn.reason
  <2>1. b = [ib EXCEPT !.moved = {}] BY <1>4, <1>6
  <2>2. b \in Buses BY <2>1, <1>1 DEF Buses
  <2>3. /\ b.yield = ib.yield /\ b.changeAt = ib.changeAt /\ b.moved = {}
        /\ b.powered = ib.powered /\ b.high = ib.high /\ b.running = ib.running
        /\ b.mode = ib.mode /\ b.dir = ib.dir /\ b.out = ib.out
        /\ b.pubKey = ib.pubKey /\ b.dirty = ib.dirty
    BY <2>1, <1>1 DEF Buses
  <2>4. \A p \in Pads : GuestKey(b, p) = GuestKey(ib, p) BY <2>3 DEF GuestKey
  <2>5. Fresh(ib) => Keyed(b) /\ b.dirty = {} BY <2>3, <2>4, <1>1, <1>6 DEF Fresh, Keyed
  <2> QED BY <2>2, <2>3, <2>5, <1>1, <1>6 DEF b
<1> QED BY <1>5, <1>6

(* take_banks: nothing waits after it that did not before.                  *)
LEMMA TakeBanksFacts ==
  ASSUME NEW b \in Buses, NEW powered \in SUBSET Banks, NEW high \in SUBSET Banks
  PROVE LET m == TakeBanks(b, powered, high) IN
    /\ m \in Buses /\ m.powered = powered /\ m.high = high
    /\ m.dirty = b.dirty /\ m.changeAt = b.changeAt /\ m.yield = b.yield /\ m.moved = b.moved
    /\ m.mode = b.mode /\ m.dir = b.dir /\ m.out = b.out /\ m.running = b.running
    /\ Keyed(b) /\ b.dirty = {} => Keyed(m)
<1> USE GuestAssumption
<1> DEFINE b1 == [b EXCEPT !.powered = powered, !.high = high]
           moved == {k \in Banks : (k \in powered) # (k \in b.powered) \/ (k \in high) # (k \in b.high)}
           keys == [p \in Pads |-> IF BankOf[p] \in moved THEN GuestKey(b1, p) ELSE b.pubKey[p]]
           m == [b1 EXCEPT !.pubKey = keys]
<1>1. b1 \in Buses BY DEF Buses
<1>2. /\ b1.dirty = b.dirty /\ b1.changeAt = b.changeAt /\ b1.yield = b.yield /\ b1.moved = b.moved
      /\ b1.mode = b.mode /\ b1.dir = b.dir /\ b1.out = b.out /\ b1.running = b.running
      /\ b1.powered = powered /\ b1.high = high
  BY DEF Buses
<1>3. TakeBanks(b, powered, high) = m BY DEF TakeBanks
<1> HIDE DEF b1
<1>4. \A k \in Banks \ moved : (k \in powered <=> k \in b.powered) /\ (k \in high <=> k \in b.high)
  OBVIOUS
<1> HIDE DEF moved
<1>5. keys \in [Pads -> Keys]
  <2> SUFFICES ASSUME NEW p \in Pads PROVE keys[p] \in Keys OBVIOUS
  <2> QED BY KeyIsKey DEF Buses
<1>6. \A p \in Pads : keys[p] = IF BankOf[p] \in moved THEN GuestKey(b1, p) ELSE b.pubKey[p] OBVIOUS
<1> HIDE DEF keys
<1>7. m \in Buses BY <1>1, <1>5 DEF Buses
<1>8. /\ m.dirty = b.dirty /\ m.changeAt = b.changeAt /\ m.yield = b.yield /\ m.moved = b.moved
      /\ m.mode = b.mode /\ m.dir = b.dir /\ m.out = b.out /\ m.running = b.running
      /\ m.powered = powered /\ m.high = high /\ m.pubKey = keys
  BY <1>1, <1>2 DEF Buses
<1> HIDE DEF m
<1>9. ASSUME Keyed(b), b.dirty = {}, NEW p \in Pads PROVE GuestKey(m, p) = m.pubKey[p]
  <2>1. GuestKey(m, p) = GuestKey(b1, p) BY <1>2, <1>8 DEF GuestKey
  <2>2. CASE BankOf[p] \in moved BY <2>1, <2>2, <1>6, <1>8
  <2>3. CASE BankOf[p] \notin moved
    <3>1. BankOf[p] \in Banks OBVIOUS
    <3>2. (BankOf[p] \in powered) = (BankOf[p] \in b.powered) /\ (BankOf[p] \in high) = (BankOf[p] \in b.high)
      BY <2>3, <3>1, <1>4
    <3>3. GuestKey(m, p) = GuestKey(b, p) BY <3>2, <1>8 DEF GuestKey, DriveKey
    <3>4. GuestKey(b, p) = b.pubKey[p] BY <1>9 DEF Keyed
    <3> QED BY <3>3, <3>4, <2>3, <1>6, <1>8
  <2> QED BY <2>2, <2>3
<1>10. Keyed(b) /\ b.dirty = {} => Keyed(m) BY <1>8, <1>9 DEF Keyed
<1> QED BY <1>3, <1>7, <1>8, <1>10

(* A RUN asks for no yield.                                                 *)
LEMMA RunFacts ==
  ASSUME NEW n, NEW start, NEW until, Run(n, start, until)
  PROVE "reason" \in DOMAIN turn' /\ "yield" \notin turn'.reason /\ pc' \in {"turn", "reply"}
<1> DEFINE horizon == NsToClocksCeil(n.segments, until)
           atHorizon == start = 0 /\ MachineClocks(ib) >= horizon
<1>1. /\ turn' = [horizon |-> horizon, until |-> until, from |-> start, mid |-> start # 0,
                  stepped |-> FALSE, last |-> 0,
                  reason |-> IF atHorizon THEN {"horizon"} ELSE {}]
      /\ pc' = IF atHorizon THEN "reply" ELSE "turn"
  BY DEF Run
<1> HIDE DEF horizon, atHorizon
<1> QED BY <1>1

(* The two masks are those of the supplies the node followed.               *)
LEMMA MasksOf == ASSUME NEW n \in Nodes
  PROVE /\ Powered(n) = PoweredBy(n.bankBits) /\ High(n) = HighBy(n.bankBits)
        /\ Powered(n) \in SUBSET Banks /\ High(n) \in SUBSET Banks
BY DEF Powered, High, PoweredBy, HighBy

-----------------------------------------------------------------------------
(* The base invariant.                                                      *)

LEMMA BaseInit == ASSUME Init PROVE BaseInv
<1> USE GuestAssumption
<1>1. ib \in Buses
  <2> DEFINE none == [ohms |-> "none", up |-> FALSE]
  <2>1. none \in Keys BY DEF Keys
  <2> HIDE DEF none
  <2>2. [p \in Pads |-> none] \in [Pads -> Keys] BY <2>1
  <2> QED BY <2>2 DEF Init, Buses, Bits, AnyMode, AnyWord, None, none
<1>2. node \in Nodes
  <2> DEFINE first == [clocks |-> 0, ns |-> 0, period |-> RcPeriod] segs == <<first>>
  <2>1. first \in Segments BY DEF Segments
  <2> HIDE DEF first
  <2>2. segs \in Seq(Segments) BY <2>1
  <2> HIDE DEF segs
  <2>3. Released \in Drives BY DEF Released, Drives
  <2>4. [p \in Pads |-> Released] \in [Pads -> Drives] BY <2>3
  <2>5. [k \in Banks |-> NoVolts] \in [Banks -> Supplies] BY DEF Supplies
  <2> QED BY <2>2, <2>4, <2>5 DEF Init, Nodes, Bits, AnyMode, AnyWord, None, Crystals, first, segs
<1>3. Clocked(node) BY DEF Init, Clocked
<1>4. "reason" \in DOMAIN turn BY DEF Init, NoTurn
<1>5. TypeInv BY <1>1, <1>2, <1>3, <1>4 DEF Init, TypeInv
<1>6. ~ib.yield /\ ib.changeAt = None /\ node.pendingAt = None BY DEF Init
<1>7. ClockSeen BY DEF Init, ClockSeen, ClockPeriod
<1>8. pc = "engine" BY DEF Init
<1> QED BY <1>5, <1>6, <1>7, <1>8 DEF BaseInv, Yields, Turned

(* The guest's own steps leave the node and the package alone.              *)
LEMMA BaseSlice ==
  ASSUME BaseInv, NEW c \in Cogs, RunSlice(c) \/ StallSlice(c) PROVE BaseInv'
<1>1. PICK b, console, stalled : Sliced(b, ib) /\ AfterSlice(b, c, console, stalled) BY SliceEnds
<1>2. "reason" \in DOMAIN turn /\ pc = "turn" BY DEF BaseInv, TypeInv, RunSlice, StallSlice
<1>3. /\ ib' \in Buses /\ ~ib'.yield
      /\ "reason" \in DOMAIN turn' /\ pc' \in {"turn", "reply"}
      /\ ib'.changeAt = None <=> ~(pc' = "reply" /\ "yield" \in turn'.reason)
      /\ UNCHANGED <<node, package, core, now, armed, events>>
  BY <1>1, <1>2, AfterSliceFacts
<1> QED BY <1>2, <1>3 DEF BaseInv, TypeInv, Yields, Turned, ClockSeen, Clocked, package

LEMMA BaseReply ==
  ASSUME BaseInv, ReplyStalls \/ ReplyYields \/ ReplyGoesOn \/ ReplyEnds PROVE BaseInv'
<1>1. pc = "reply" /\ core = "runs"
  BY DEF ReplyStalls, ReplyYields, ReplyGoesOn, ReplyEnds, Reply, BaseInv, TypeInv
<1>2. /\ xiMode' = PolledMode(TakeStop(node)) /\ UNCHANGED <<volts, xi, core, now, ops, events>>
  BY DEF ReplyStalls, ReplyYields, ReplyGoesOn, ReplyEnds, Reply
<1>3. /\ Folded \in Nodes /\ Clocked(Folded) /\ Folded.clocked = Folded.crystal
      /\ Folded.crystal = CrystalOf(xi, PolledMode(TakeStop(node)))
      /\ Folded.stalled <=> ClockPeriod(Folded.word, Folded.clocked) = 0
      /\ "yield" \notin turn.reason => Folded.pendingAt = None
  BY <1>1, FoldedFacts
<1>4. Stopped(ib) \in Buses /\ ~Stopped(ib).yield /\ Stopped(ib).changeAt = None BY <1>1, StoppedFacts
<1>5. volts \in [Banks -> Supplies] /\ now \in Nat BY DEF BaseInv, TypeInv
<1> DEFINE P == PublishPending(Folded)
<1>6. /\ P \in Nodes /\ Clocked(P) /\ (P.stalled <=> ClockPeriod(P.word, P.clocked) = 0)
  BY <1>3, <1>5, PublishKeeps DEF Clocked
<1> HIDE DEF P
<1>7. CASE ReplyGoesOn
  <2>1. /\ node' = Folded /\ "yield" \notin turn.reason
        /\ ib' = TakeBanks(Stopped(ib), Powered(node), High(node))
        /\ Run(Folded, (turn.last + 1) % NumCogs, turn.until)
    BY <1>7 DEF ReplyGoesOn
  <2>2. Powered(node) \in SUBSET Banks /\ High(node) \in SUBSET Banks BY MasksOf DEF BaseInv, TypeInv
  <2>3. ib' \in Buses /\ ~ib'.yield /\ ib'.changeAt = None BY <2>1, <2>2, <1>4, TakeBanksFacts
  <2>4. "reason" \in DOMAIN turn' /\ "yield" \notin turn'.reason /\ pc' \in {"turn", "reply"}
    BY <2>1, RunFacts
  <2> HIDE DEF Folded
  <2> QED BY <1>1, <1>2, <1>3, <1>5, <2>1, <2>3, <2>4
             DEF BaseInv, TypeInv, Yields, Turned, ClockSeen, Clocked
<1>8. CASE ReplyStalls \/ ReplyYields \/ ReplyEnds
  <2>1. ib' = Stopped(ib) /\ turn' = NoTurn /\ pc' = "engine" /\ node' \in {Folded, P}
    BY <1>8 DEF ReplyStalls, ReplyYields, ReplyEnds, Left, P
  <2>2. "reason" \in DOMAIN turn' BY <2>1 DEF NoTurn
  <2>3. node' \in Nodes /\ Clocked(node') /\ (node'.stalled <=> ClockPeriod(node'.word, node'.clocked) = 0)
    BY <2>1, <1>3, <1>6
  <2> HIDE DEF Folded
  <2> QED BY <1>1, <1>2, <1>4, <1>5, <2>1, <2>2, <2>3
             DEF BaseInv, TypeInv, Yields, Turned, ClockSeen, Clocked
<1> QED BY <1>7, <1>8

LEMMA BaseWake ==
  ASSUME BaseInv, WakeStalls \/ WakeWaits \/ WakePublishes \/ WakeRuns PROVE BaseInv'
<1>1. /\ pc = "engine" /\ core = "runs" /\ xiMode' = PolledMode(node)
      /\ UNCHANGED <<volts, xi, core, now, ops, events>>
  BY DEF WakeStalls, WakeWaits, WakePublishes, WakeRuns, Wake
<1>2. /\ Woken \in Nodes /\ Clocked(Woken) /\ Woken.clocked = Woken.crystal
      /\ Woken.crystal = CrystalOf(xi, PolledMode(node))
      /\ Woken.stalled <=> ClockPeriod(Woken.word, Woken.clocked) = 0
  BY WokenFacts
<1>3. ib \in Buses /\ ~ib.yield /\ ib.changeAt = None BY <1>1 DEF BaseInv, TypeInv, Yields
<1>4. volts \in [Banks -> Supplies] /\ now \in Nat BY DEF BaseInv, TypeInv
<1> DEFINE P == PublishPending(Woken) F == FollowSupplies(Woken)
<1>5. P \in Nodes /\ Clocked(P) /\ (P.stalled <=> ClockPeriod(P.word, P.clocked) = 0)
  BY <1>2, <1>4, PublishKeeps DEF Clocked
<1>6. /\ F \in Nodes /\ Clocked(F) /\ (F.stalled <=> ClockPeriod(F.word, F.clocked) = 0)
      /\ F.clocked = F.crystal /\ F.crystal = Woken.crystal /\ F.pendingAt = Woken.pendingAt
  BY <1>2, <1>4, FollowKeeps DEF Clocked
<1>7. CASE WakeRuns
  <2>1. /\ node' = F /\ Woken.pendingAt = None
        /\ ib' = TakeBanks(ib, Powered(F), High(F))
        /\ Run(F, 0, MachineNow(F) + Slice)
    BY <1>7 DEF WakeRuns
  <2> HIDE DEF F
  <2>2. Powered(F) \in SUBSET Banks /\ High(F) \in SUBSET Banks BY <1>6, MasksOf
  <2>3. ib' \in Buses /\ ~ib'.yield /\ ib'.changeAt = None BY <2>1, <2>2, <1>3, TakeBanksFacts
  <2>4. "reason" \in DOMAIN turn' /\ "yield" \notin turn'.reason /\ pc' \in {"turn", "reply"}
    BY <2>1, RunFacts
  <2> HIDE DEF Woken
  <2> QED BY <1>1, <1>2, <1>4, <1>6, <2>1, <2>3, <2>4
             DEF BaseInv, TypeInv, Yields, Turned, ClockSeen, Clocked
<1>8. CASE WakeStalls \/ WakeWaits \/ WakePublishes
  <2>1. UNCHANGED <<ib, turn, pc>> /\ node' \in {Woken, P}
    BY <1>8 DEF WakeStalls, WakeWaits, WakePublishes, P
  <2> HIDE DEF P
  <2>2. node' \in Nodes /\ Clocked(node') /\ (node'.stalled <=> ClockPeriod(node'.word, node'.clocked) = 0)
    BY <2>1, <1>2, <1>5
  <2> HIDE DEF Woken
  <2> QED BY <1>1, <1>3, <2>1, <2>2 DEF BaseInv, TypeInv, Yields, Turned, ClockSeen, Clocked
<1> QED BY <1>7, <1>8

(* What the engine does between two wakes, and the end of a pass, leave     *)
(* the bus and the node as they are.                                        *)
LEMMA BaseStep == ASSUME BaseInv, [Next]_vars PROVE BaseInv'
<1> USE GuestAssumption
<1>1. CASE \E c \in Cogs : RunSlice(c) \/ StallSlice(c) BY <1>1, BaseSlice
<1>2. CASE EndPass
  <2> DEFINE why == IF ~turn.stepped /\ ~turn.mid THEN {"nostep"}
                    ELSE IF MachineClocks(ib) >= turn.horizon THEN {"horizon"} ELSE {}
  <2>1. /\ turn' = [turn EXCEPT !.from = 0, !.mid = FALSE, !.stepped = FALSE, !.reason = why]
        /\ pc' = IF why = {} THEN "turn" ELSE "reply"
        /\ pc = "turn" /\ UNCHANGED <<ib, node, package, core, now, armed, ops, events>>
    BY <1>2 DEF EndPass
  <2>2. "yield" \notin why OBVIOUS
  <2> HIDE DEF why
  <2>3. "reason" \in DOMAIN turn' /\ turn'.reason = why BY <2>1 DEF BaseInv, TypeInv
  <2> QED BY <2>1, <2>2, <2>3 DEF BaseInv, TypeInv, Yields, Turned, ClockSeen, Clocked, package
<1>3. CASE ReplyStalls \/ ReplyYields \/ ReplyGoesOn \/ ReplyEnds BY <1>3, BaseReply
<1>4. CASE ProgramFails
  <2>1. "reason" \in DOMAIN turn' BY <1>4 DEF ProgramFails, NoTurn
  <2> QED BY <1>4, <2>1 DEF ProgramFails, BaseInv, TypeInv, Yields, Turned, ClockSeen, Clocked, package
<1>5. CASE WakeStalls \/ WakeWaits \/ WakePublishes \/ WakeRuns BY <1>5, BaseWake
<1>6. CASE IgnoreWake
  BY <1>6 DEF IgnoreWake, BaseInv, TypeInv, Yields, Turned, ClockSeen, Clocked, package
<1>7. ASSUME NEW k \in Banks, NEW v \in Supplies, SenseBank(k, v) PROVE BaseInv'
  BY <1>7 DEF SenseBank, Event, BaseInv, TypeInv, Yields, Turned, ClockSeen, Clocked
<1>8. ASSUME NEW signal \in {"none", "sine", "square"}, SenseXi(signal) PROVE BaseInv'
  BY <1>8 DEF SenseXi, Event, BaseInv, TypeInv, Yields, Turned, ClockSeen, Clocked
<1>9. CASE Hold
  BY <1>9 DEF Hold, Event, BaseInv, TypeInv, Yields, Turned, ClockSeen, Clocked, package
<1>10. ASSUME NEW t \in 1..MaxTime, Advance(t) PROVE BaseInv'
  BY <1>10 DEF Advance, BaseInv, TypeInv, Yields, Turned, ClockSeen, Clocked, package
<1>11. CASE UNCHANGED vars
  BY <1>11 DEF vars, BaseInv, TypeInv, Yields, Turned, ClockSeen, Clocked, package
<1> QED BY <1>1, <1>2, <1>3, <1>4, <1>5, <1>6, <1>7, <1>8, <1>9, <1>10, <1>11 DEF Next, Turn, NodeWake

(* The types of the guest and the node, for any pads, cogs and supplies.    *)
THEOREM GuestBaseAlways == Spec => []BaseInv
<1>1. Init => BaseInv BY BaseInit
<1>2. BaseInv /\ [Next]_vars => BaseInv' BY BaseStep
<1> QED BY <1>1, <1>2, PTL DEF Spec

-----------------------------------------------------------------------------
(* The wakes on their way.                                                  *)

WakesInv == armed \in SUBSET Nat /\ OnItsInstant /\ NeverStranded

(* What the node finds of its own pad change and clock at the end of a      *)
(* step between turns settles both properties.                              *)
LEMMA WakesSettled ==
  ASSUME pc' = "engine", armed' \in SUBSET Nat,
         node'.stalled => ClockPeriod(node'.word, CrystalOf(xi', xiMode')) = 0,
         ~node'.stalled /\ node'.pendingAt # None =>
           now' <= node'.pendingAt /\ \E w \in armed' : w <= node'.pendingAt,
         ~node'.stalled => armed' # {} \/ ib'.running = {}
  PROVE WakesInv'
BY DEF WakesInv, OnItsInstant, NeverStranded

LEMMA WakesWake ==
  ASSUME BaseInv, WakesInv, WakeStalls \/ WakeWaits \/ WakePublishes \/ WakeRuns PROVE WakesInv'
<1>1. /\ pc = "engine" /\ core = "runs" /\ xiMode' = PolledMode(node)
      /\ UNCHANGED <<volts, xi, core, now, ops, events>>
  BY DEF WakeStalls, WakeWaits, WakePublishes, WakeRuns, Wake
<1>2. /\ Woken \in Nodes /\ Woken.clocked = Woken.crystal
      /\ Woken.crystal = CrystalOf(xi, PolledMode(node))
      /\ Woken.stalled <=> ClockPeriod(Woken.word, Woken.clocked) = 0
  BY WokenFacts
<1>3. /\ armed \in SUBSET Nat /\ now \in Nat /\ volts \in [Banks -> Supplies]
      /\ Woken.pendingAt \in Nat \cup {None}
  BY <1>2 DEF WakesInv, BaseInv, TypeInv, Nodes
<1>4. CASE WakeStalls
  <2>1. Woken.stalled /\ node' = Woken /\ UNCHANGED <<ib, turn, pc>> /\ armed' = (armed \ {now}) \cup {}
    BY <1>4 DEF WakeStalls, Wake
  <2> HIDE DEF Woken
  <2> QED BY <2>1, <1>1, <1>2, <1>3, WakesSettled
<1>5. CASE WakeWaits
  <2>1. /\ ~Woken.stalled /\ node' = Woken /\ UNCHANGED <<ib, turn, pc>> /\ Woken.pendingAt > now
        /\ armed' = (armed \ {now}) \cup {Woken.pendingAt}
    BY <1>5 DEF WakeWaits, Wake
  <2> HIDE DEF Woken
  <2>2. Woken.pendingAt \in Nat BY <2>1, <1>3 DEF None
  <2>3. armed' \in SUBSET Nat /\ node'.pendingAt \in armed' BY <2>1, <2>2, <1>3
  <2>4. now' <= node'.pendingAt BY <2>1, <2>2, <1>1, <1>3
  <2>5. \E w \in armed' : w <= node'.pendingAt BY <2>1, <2>2, <2>3
  <2>6. pc' = "engine" /\ ~node'.stalled /\ armed' # {} BY <2>1, <2>3, <1>1
  <2> QED BY <2>3, <2>4, <2>5, <2>6, WakesSettled
<1>6. CASE WakePublishes
  <2>1. /\ ~Woken.stalled /\ node' = PublishPending(Woken) /\ UNCHANGED <<ib, turn, pc>>
        /\ armed' = (armed \ {now}) \cup {now + 1}
    BY <1>6 DEF WakePublishes, Wake
  <2>2. node'.pendingAt = None /\ ~node'.stalled BY <2>1, <1>2, <1>3, PublishKeeps
  <2>3. armed' \in SUBSET Nat /\ armed' # {} BY <2>1, <1>3
  <2> QED BY <2>1, <2>2, <2>3, <1>1, WakesSettled
<1>7. CASE WakeRuns
  <2>1. /\ armed' = (armed \ {now}) \cup {} /\ Run(FollowSupplies(Woken), 0, MachineNow(FollowSupplies(Woken)) + Slice)
    BY <1>7 DEF WakeRuns, Wake
  <2>2. pc' \in {"turn", "reply"} BY <2>1, RunFacts
  <2> QED BY <2>1, <2>2, <1>3 DEF WakesInv, OnItsInstant, NeverStranded
<1> QED BY <1>4, <1>5, <1>6, <1>7

LEMMA WakesReply ==
  ASSUME BaseInv, WakesInv, ReplyStalls \/ ReplyYields \/ ReplyGoesOn \/ ReplyEnds PROVE WakesInv'
<1>1. /\ pc = "reply" /\ xiMode' = PolledMode(TakeStop(node))
      /\ UNCHANGED <<volts, xi, core, now, ops, events>>
  BY DEF ReplyStalls, ReplyYields, ReplyGoesOn, ReplyEnds, Reply
<1>2. /\ Folded \in Nodes /\ Clocked(Folded) /\ Folded.clocked = Folded.crystal
      /\ Folded.crystal = CrystalOf(xi, PolledMode(TakeStop(node)))
      /\ Folded.stalled <=> ClockPeriod(Folded.word, Folded.clocked) = 0
      /\ Folded.running = (ib.running # {})
      /\ "yield" \in turn.reason => Folded.pendingAt \in Nat
      /\ "yield" \notin turn.reason => Folded.pendingAt = None
  BY <1>1, FoldedFacts
<1>3. Stopped(ib).running = ib.running BY <1>1, StoppedFacts
<1>4. armed \in SUBSET Nat /\ now \in Nat /\ volts \in [Banks -> Supplies]
  BY DEF WakesInv, BaseInv, TypeInv
<1>5. CASE ReplyStalls
  <2>1. Folded.stalled /\ node' = Folded /\ pc' = "engine" /\ armed' = armed \cup {}
    BY <1>5 DEF ReplyStalls, Reply, Left
  <2> HIDE DEF Folded
  <2> QED BY <2>1, <1>1, <1>2, <1>4, WakesSettled
<1>6. CASE ReplyYields
  <2>1. /\ ~Folded.stalled /\ "yield" \in turn.reason /\ pc' = "engine"
        /\ IF Folded.pendingAt <= now
           THEN node' = PublishPending(Folded) /\ armed' = armed \cup {now + 1}
           ELSE node' = Folded /\ armed' = armed \cup {Folded.pendingAt}
    BY <1>6 DEF ReplyYields, Reply, Left
  <2>2. Folded.pendingAt \in Nat BY <2>1, <1>2
  <2>3. CASE Folded.pendingAt <= now
    <3>1. node' = PublishPending(Folded) /\ armed' = armed \cup {now + 1} BY <2>1, <2>3
    <3>2. node'.pendingAt = None /\ ~node'.stalled BY <3>1, <2>1, <1>2, <1>4, PublishKeeps
    <3>3. armed' \in SUBSET Nat /\ armed' # {} BY <3>1, <1>4
    <3> QED BY <3>2, <3>3, <2>1, WakesSettled
  <2>4. CASE ~(Folded.pendingAt <= now)
    <3>1. node' = Folded /\ armed' = armed \cup {Folded.pendingAt} BY <2>1, <2>4
    <3> HIDE DEF Folded
    <3>2. armed' \in SUBSET Nat /\ node'.pendingAt \in armed' BY <3>1, <2>2, <1>4
    <3>3. now' <= node'.pendingAt BY <3>1, <2>2, <2>4, <1>1, <1>4
    <3>4. \E w \in armed' : w <= node'.pendingAt BY <3>1, <2>2, <3>2
    <3>5. pc' = "engine" /\ ~node'.stalled /\ armed' # {} BY <3>1, <3>2, <2>1
    <3> QED BY <3>2, <3>3, <3>4, <3>5, WakesSettled
  <2> QED BY <2>3, <2>4
<1>7. CASE ReplyGoesOn
  <2>1. /\ armed' = armed \cup {} /\ Run(Folded, (turn.last + 1) % NumCogs, turn.until)
    BY <1>7 DEF ReplyGoesOn, Reply
  <2>2. pc' \in {"turn", "reply"} BY <2>1, RunFacts
  <2> QED BY <2>1, <2>2, <1>4 DEF WakesInv, OnItsInstant, NeverStranded
<1>8. CASE ReplyEnds
  <2> DEFINE next == Max2(MachineNow(Folded), now + 1)
  <2>1. /\ ~Folded.stalled /\ "yield" \notin turn.reason /\ pc' = "engine"
        /\ node' = Folded /\ ib' = Stopped(ib)
        /\ armed' = armed \cup (IF Folded.running THEN {next} ELSE {})
    BY <1>8 DEF ReplyEnds, Reply, Left
  <2>2. Folded.segments \in Seq(Segments) /\ Folded.clocks \in Nat BY <1>2 DEF Nodes
  <2>3. MachineNow(Folded) \in Nat BY <2>2, <1>2, ClocksToNsIsNat DEF MachineNow, Clocked
  <2> HIDE DEF Folded
  <2>4. next \in Nat BY <2>3, <1>4 DEF Max2
  <2> HIDE DEF next
  <2>5. armed' \in SUBSET Nat /\ (armed' # {} \/ ib'.running = {}) BY <2>1, <2>4, <1>2, <1>3, <1>4
  <2>6. node'.pendingAt = None /\ ~node'.stalled BY <2>1, <1>2
  <2> QED BY <2>1, <2>5, <2>6, WakesSettled
<1> QED BY <1>5, <1>6, <1>7, <1>8

LEMMA WakesStep == ASSUME BaseInv, WakesInv, [Next]_vars PROVE WakesInv'
<1> USE GuestAssumption
<1>1. CASE \E c \in Cogs : RunSlice(c) \/ StallSlice(c)
  <2>1. PICK c \in Cogs : RunSlice(c) \/ StallSlice(c) BY <1>1
  <2>2. PICK b, console, stalled : AfterSlice(b, c, console, stalled) BY <2>1, SliceEnds
  <2>3. pc' \in {"turn", "reply"} /\ armed' = armed BY <2>2 DEF AfterSlice
  <2> QED BY <2>3 DEF WakesInv, OnItsInstant, NeverStranded
<1>2. CASE EndPass
  <2>1. pc' \in {"turn", "reply"} /\ armed' = armed BY <1>2 DEF EndPass
  <2> QED BY <2>1 DEF WakesInv, OnItsInstant, NeverStranded
<1>3. CASE ReplyStalls \/ ReplyYields \/ ReplyGoesOn \/ ReplyEnds BY <1>3, WakesReply
<1>4. CASE ProgramFails BY <1>4 DEF ProgramFails, WakesInv, OnItsInstant, NeverStranded
<1>5. CASE WakeStalls \/ WakeWaits \/ WakePublishes \/ WakeRuns BY <1>5, WakesWake
<1>6. CASE IgnoreWake BY <1>6 DEF IgnoreWake, WakesInv, OnItsInstant, NeverStranded
<1>7. ASSUME NEW k \in Banks, NEW v \in Supplies, SenseBank(k, v) PROVE WakesInv'
  BY <1>7 DEF SenseBank, Event, WakesInv, OnItsInstant, NeverStranded
<1>8. ASSUME NEW signal \in {"none", "sine", "square"}, SenseXi(signal) PROVE WakesInv'
  <2>1. /\ pc = "engine" /\ xi' = signal
        /\ armed' = IF CrystalOf(xi, xiMode) # CrystalOf(signal, xiMode) /\ node.stalled
                    THEN armed \cup {now + 1} ELSE armed
        /\ UNCHANGED <<ib, turn, pc, node, volts, xiMode, core, now, ops>>
    BY <1>8 DEF SenseXi, Event
  <2>2. now \in Nat BY DEF BaseInv, TypeInv
  <2>3. armed' \in SUBSET Nat /\ armed \subseteq armed' BY <2>1, <2>2 DEF WakesInv
  <2>4. OnItsInstant' BY <2>1, <2>3 DEF WakesInv, OnItsInstant
  <2>5. NeverStranded' BY <2>1, <2>3 DEF WakesInv, NeverStranded
  <2> QED BY <2>3, <2>4, <2>5 DEF WakesInv
<1>9. CASE Hold BY <1>9 DEF Hold, Event, WakesInv, OnItsInstant, NeverStranded, package
<1>10. ASSUME NEW t \in 1..MaxTime, Advance(t) PROVE WakesInv'
  <2>1. /\ now' = t /\ \A a \in armed : t <= a
        /\ UNCHANGED <<ib, turn, pc, node, package, core, armed, ops, events>>
    BY <1>10 DEF Advance
  <2>2. node.pendingAt \in Nat \cup {None} BY DEF BaseInv, TypeInv, Nodes
  <2>3. ASSUME pc = "engine", core = "runs", ~node.stalled, node.pendingAt # None
        PROVE t <= node.pendingAt /\ \E w \in armed : w <= node.pendingAt
    <3>1. PICK w \in armed : w <= node.pendingAt BY <2>3 DEF WakesInv, OnItsInstant
    <3>2. w \in Nat /\ t <= w BY <2>1 DEF WakesInv
    <3> QED BY <3>1, <3>2, <2>2, <2>3
  <2>4. OnItsInstant' BY <2>1, <2>3 DEF OnItsInstant
  <2>5. NeverStranded' BY <2>1 DEF WakesInv, NeverStranded, package
  <2> QED BY <2>1, <2>4, <2>5 DEF WakesInv
<1>11. CASE UNCHANGED vars BY <1>11 DEF vars, package, WakesInv, OnItsInstant, NeverStranded
<1> QED BY <1>1, <1>2, <1>3, <1>4, <1>5, <1>6, <1>7, <1>8, <1>9, <1>10, <1>11 DEF Next, Turn, NodeWake

LEMMA WakesAlways == Spec => []WakesInv
<1>1. Init => BaseInv /\ WakesInv
  <2> SUFFICES ASSUME Init PROVE BaseInv /\ WakesInv OBVIOUS
  <2>1. armed = {1} /\ node.pendingAt = None BY DEF Init
  <2> QED BY <2>1, BaseInit DEF WakesInv, OnItsInstant, NeverStranded
<1>2. BaseInv /\ WakesInv /\ [Next]_vars => BaseInv' /\ WakesInv' BY BaseStep, WakesStep
<1> QED BY <1>1, <1>2, PTL DEF Spec

(* publish_pending comes at the change's own instant: while it waits the    *)
(* clock has not passed it and a wake is on its way, whatever wakes, senses *)
(* and replies come between (lib.rs, ReplyYields and WakeWaits).            *)
THEOREM OnItsInstantAlways == Spec => []OnItsInstant
<1>1. WakesInv => OnItsInstant BY DEF WakesInv
<1> QED BY <1>1, WakesAlways, PTL

(* A guest that could run always has a wake on its way: a core stalled for  *)
(* want of a crystal is waked by the sense that brings it, whichever of the *)
(* clock word and the crystal comes first.                                  *)
THEOREM NeverStrandedAlways == Spec => []NeverStranded
<1>1. WakesInv => NeverStranded BY DEF WakesInv
<1> QED BY <1>1, WakesAlways, PTL

-----------------------------------------------------------------------------
(* The two records of what each net was told.                               *)

RecordInv == Told /\ WhileInTurn /\ Between /\ SuppliesWait

(* Under the masks of a RUN two buses have one key for a pad exactly when   *)
(* they drive it alike.                                                     *)
LEMMA KeysMeanDrives ==
  ASSUME NEW v \in [Banks -> Supplies], NEW a, NEW b, NEW p \in Pads,
         a.powered = PoweredBy(v), a.high = HighBy(v), b.powered = PoweredBy(v), b.high = HighBy(v)
  PROVE GuestKey(a, p) = GuestKey(b, p) <=> GuestDrive(a, p, v) = GuestDrive(b, p, v)
<1> USE GuestAssumption
<1> DEFINE s == v[BankOf[p]]
<1>1. BankOf[p] \in Banks /\ s \in Supplies OBVIOUS
<1>2. (BankOf[p] \in PoweredBy(v) <=> s # NoVolts) /\ (BankOf[p] \in HighBy(v) <=> s # NoVolts /\ s # 0)
  BY <1>1 DEF PoweredBy, HighBy
<1>3. ASSUME NEW x, x.powered = PoweredBy(v), x.high = HighBy(v)
      PROVE GuestKey(x, p) = DriveKey(x.mode[p], Ored(x.dir, p), Ored(x.out, p), s # NoVolts, s # NoVolts /\ s # 0)
  BY <1>2, <1>3 DEF GuestKey, DriveKey
<1> HIDE DEF s
<1>4. GuestKey(a, p) = DriveKey(a.mode[p], Ored(a.dir, p), Ored(a.out, p), s # NoVolts, s # NoVolts /\ s # 0)
  BY <1>3
<1>5. GuestKey(b, p) = DriveKey(b.mode[p], Ored(b.dir, p), Ored(b.out, p), s # NoVolts, s # NoVolts /\ s # 0)
  BY <1>3
<1>6. GuestDrive(a, p, v) = PadDrive(a.mode[p], Ored(a.dir, p), Ored(a.out, p), s) BY DEF GuestDrive, s
<1>7. GuestDrive(b, p, v) = PadDrive(b.mode[p], Ored(b.dir, p), Ored(b.out, p), s) BY DEF GuestDrive, s
<1> QED BY <1>1, <1>4, <1>5, <1>6, <1>7, KeyTellsDrives

LEMMA RecordSlice ==
  ASSUME BaseInv, RecordInv, NEW c \in Cogs, RunSlice(c) \/ StallSlice(c) PROVE RecordInv'
<1>1. PICK b, console, stalled : Sliced(b, ib) /\ AfterSlice(b, c, console, stalled) BY SliceEnds
<1>2. "reason" \in DOMAIN turn /\ pc = "turn" /\ core = "runs" /\ ib.changeAt = None
      /\ volts \in [Banks -> Supplies]
  BY DEF BaseInv, TypeInv, Yields, RunSlice, StallSlice
<1>3. /\ ib'.powered = ib.powered /\ ib'.high = ib.high /\ ib'.pubKey = ib.pubKey
      /\ ib'.moved = b.moved /\ ib'.mode = b.mode
      /\ Fresh(b) => Fresh(ib')
      /\ pc' \in {"turn", "reply"}
      /\ UNCHANGED <<node, package, core, now, armed, events>>
  BY <1>1, <1>2, AfterSliceFacts
<1>4. Fresh(ib) BY <1>2 DEF RecordInv, Told
<1>5. Fresh(ib') BY <1>1, <1>3, <1>4 DEF Sliced
<1>6. \A p \in Pads : GuestKey(ib, p) = ib.pubKey[p] BY <1>2, <1>4 DEF Fresh, Keyed
<1>7. /\ ib.powered = PoweredBy(volts) /\ ib.high = HighBy(volts)
      /\ node.dirty = {} /\ node.bankBits = volts
      /\ \A p \in Pads \ ib.moved : node.mode[p] = ib.mode[p]
      /\ \A p \in Pads : node.published[p] = GuestDrive(ib, p, volts)
  BY <1>2, <1>6 DEF RecordInv, WhileInTurn
<1>8. \A p \in Pads \ ib'.moved : node.mode[p] = ib'.mode[p] BY <1>1, <1>3, <1>7 DEF Sliced
<1>9. ASSUME NEW p \in Pads, GuestKey(ib', p) = ib'.pubKey[p]
      PROVE node.published[p] = GuestDrive(ib', p, volts)
  <2>1. GuestKey(ib', p) = GuestKey(ib, p) BY <1>3, <1>6, <1>9
  <2> QED BY <2>1, <1>2, <1>3, <1>7, KeysMeanDrives
<1>10. volts' = volts /\ node' = node /\ core' = core BY <1>3 DEF package
<1>11. WhileInTurn' BY <1>3, <1>7, <1>8, <1>9, <1>10 DEF WhileInTurn
<1>12. Told' BY <1>5 DEF Told
<1>13. Between' /\ SuppliesWait' BY <1>3 DEF Between, SuppliesWait
<1> QED BY <1>11, <1>12, <1>13 DEF RecordInv

LEMMA RecordReply ==
  ASSUME BaseInv, RecordInv, ReplyStalls \/ ReplyYields \/ ReplyGoesOn \/ ReplyEnds PROVE RecordInv'
<1>1. pc = "reply" /\ core = "runs" /\ volts \in [Banks -> Supplies]
      /\ ib \in Buses /\ (ib.changeAt = None <=> ~("yield" \in turn.reason))
  BY DEF ReplyStalls, ReplyYields, ReplyGoesOn, ReplyEnds, Reply, BaseInv, TypeInv, Yields
<1>2. volts' = volts /\ core' = core
  BY DEF ReplyStalls, ReplyYields, ReplyGoesOn, ReplyEnds, Reply
<1>3. /\ Folded \in Nodes
      /\ Folded.mode = [p \in Pads |-> IF p \in ib.moved THEN ib.mode[p] ELSE node.mode[p]]
      /\ \A p \in Pads : Folded.dir[p] = Ored(ib.dir, p) /\ Folded.out[p] = Ored(ib.out, p)
      /\ Folded.published = node.published /\ Folded.bankBits = node.bankBits
      /\ "yield" \in turn.reason => Folded.dirty = ib.dirty /\ Folded.pendingAt \in Nat
      /\ "yield" \notin turn.reason => Folded.dirty = node.dirty /\ Folded.pendingAt = None
  BY <1>1, FoldedFacts
<1> DEFINE S == Stopped(ib)
<1>4. /\ S \in Buses /\ S.moved = {} /\ S.powered = ib.powered /\ S.high = ib.high
      /\ S.mode = ib.mode /\ S.dir = ib.dir /\ S.out = ib.out
      /\ Fresh(ib) => Keyed(S) /\ S.dirty = {}
  BY <1>1, StoppedFacts
<1>5. Fresh(ib) BY <1>1 DEF RecordInv, Told
<1>6. /\ ib.powered = PoweredBy(volts) /\ ib.high = HighBy(volts)
      /\ node.dirty = {} /\ node.bankBits = volts
      /\ \A p \in Pads \ ib.moved : node.mode[p] = ib.mode[p]
      /\ \A p \in Pads : GuestKey(ib, p) = ib.pubKey[p] => node.published[p] = GuestDrive(ib, p, volts)
  BY <1>1 DEF RecordInv, WhileInTurn
<1>7. Folded.dirty = ib.dirty BY <1>1, <1>3, <1>5, <1>6 DEF Fresh
<1>8. \A p \in Pads \ ib.dirty : node.published[p] = GuestDrive(ib, p, volts)
  BY <1>5, <1>6 DEF Fresh, Keyed
<1>9. Folded.mode = ib.mode
  <2>1. ib.mode \in [Pads -> AnyMode] BY <1>1 DEF Buses
  <2>2. \A p \in Pads : Folded.mode[p] = ib.mode[p] BY <1>3, <1>6
  <2>3. Folded.mode \in [Pads -> AnyMode] BY <1>3 DEF Nodes
  <2> QED BY <2>1, <2>2, <2>3
<1>10. \A p \in Pads : MirroredDrive(Folded, p, volts) = GuestDrive(ib, p, volts)
  BY <1>3, <1>9 DEF MirroredDrive, GuestDrive
<1>11. \A p \in Pads : NodeDrive(Folded, p) = MirroredDrive(Folded, p, volts)
  BY DEF NodeDrive, MirroredDrive
<1>12. CASE ReplyGoesOn
  <2>1. /\ node' = Folded /\ "yield" \notin turn.reason
        /\ ib' = TakeBanks(S, Powered(node), High(node))
        /\ Run(Folded, (turn.last + 1) % NumCogs, turn.until)
    BY <1>12 DEF ReplyGoesOn
  <2>2. /\ Powered(node) \in SUBSET Banks /\ High(node) \in SUBSET Banks
        /\ Powered(node) = PoweredBy(volts) /\ High(node) = HighBy(volts)
    BY <1>6, MasksOf DEF BaseInv, TypeInv
  <2> HIDE DEF S
  <2>3. /\ ib'.powered = PoweredBy(volts) /\ ib'.high = HighBy(volts) /\ ib'.dirty = {}
        /\ ib'.moved = {} /\ ib'.mode = ib.mode /\ ib'.dir = ib.dir /\ ib'.out = ib.out
        /\ Keyed(ib')
    BY <2>1, <2>2, <1>4, <1>5, TakeBanksFacts
  <2>4. pc' \in {"turn", "reply"} BY <2>1, RunFacts
  <2>5. ib.dirty = {} BY <2>1, <1>1, <1>5 DEF Fresh
  <2>6. \A p \in Pads : GuestDrive(ib', p, volts) = GuestDrive(ib, p, volts) BY <2>3 DEF GuestDrive
  <2> HIDE DEF Folded
  <2>7. WhileInTurn'
    <3>1. node'.dirty = {} /\ node'.bankBits = volts' BY <2>1, <2>5, <1>2, <1>3, <1>6, <1>7
    <3>2. ib'.powered = PoweredBy(volts') /\ ib'.high = HighBy(volts') BY <2>3, <1>2
    <3>3. \A p \in Pads \ ib'.moved : node'.mode[p] = ib'.mode[p] BY <2>1, <2>3, <1>9
    <3>4. \A p \in Pads : node'.published[p] = GuestDrive(ib', p, volts')
      BY <2>1, <2>5, <2>6, <1>2, <1>3, <1>8
    <3> QED BY <3>1, <3>2, <3>3, <3>4 DEF WhileInTurn
  <2>8. Told' BY <2>3 DEF Told, Fresh
  <2>9. Between' /\ SuppliesWait' BY <2>4 DEF Between, SuppliesWait
  <2> QED BY <2>7, <2>8, <2>9 DEF RecordInv
<1>13. CASE ReplyStalls \/ ReplyYields \/ ReplyEnds
  <2> DEFINE P == PublishPending(Folded)
  <2>1. ib' = S /\ pc' = "engine" /\ node' \in {Folded, P}
    BY <1>13 DEF ReplyStalls, ReplyYields, ReplyEnds, Left
  <2>2. /\ P.mode = Folded.mode /\ P.dir = Folded.dir /\ P.out = Folded.out
        /\ P.bankBits = Folded.bankBits /\ P.dirty = {} /\ P.pendingAt = None
        /\ \A p \in Pads : P.published[p] = IF p \in Folded.dirty THEN NodeDrive(Folded, p) ELSE Folded.published[p]
    BY <1>1, <1>3, PublishKeeps
  <2> HIDE DEF S, P, Folded
  <2>3. /\ node'.mode = Folded.mode /\ node'.dir = Folded.dir /\ node'.out = Folded.out
        /\ node'.bankBits = volts
    BY <2>1, <2>2, <1>3, <1>6
  <2>4. Mirrored' BY <2>1, <2>3, <1>3, <1>4, <1>9 DEF Mirrored
  <2>5. \A p \in Pads \ node'.dirty : node'.published[p] = MirroredDrive(Folded, p, volts)
    <3>1. CASE node' = Folded BY <3>1, <1>3, <1>7, <1>8, <1>10
    <3>2. CASE node' = P
      <4> TAKE p \in Pads \ node'.dirty
      <4>1. CASE p \in ib.dirty BY <4>1, <3>2, <2>2, <1>7, <1>11
      <4>2. CASE p \notin ib.dirty BY <4>2, <3>2, <2>2, <1>3, <1>7, <1>8, <1>10
      <4> QED BY <4>1, <4>2
    <3> QED BY <2>1, <3>1, <3>2
  <2>6. \A p \in Pads : MirroredDrive(node', p, node'.bankBits) = MirroredDrive(Folded, p, volts)
    BY <2>3 DEF MirroredDrive
  <2>7. node'.pendingAt = None => node'.dirty = {} BY <2>1, <2>2, <1>3, <1>6 DEF None
  <2>8. ib'.powered = PoweredBy(node'.bankBits) /\ ib'.high = HighBy(node'.bankBits)
    BY <2>1, <2>3, <1>4, <1>6
  <2>9. Between' BY <2>4, <2>5, <2>6, <2>7, <2>8 DEF Between
  <2>10. SuppliesWait' BY <2>3, <1>2 DEF SuppliesWait
  <2>11. Told' BY <2>1, <1>4, <1>5 DEF Told, Fresh
  <2>12. WhileInTurn' BY <2>1 DEF WhileInTurn
  <2> QED BY <2>9, <2>10, <2>11, <2>12 DEF RecordInv
<1> QED BY <1>12, <1>13

LEMMA RecordWake ==
  ASSUME BaseInv, RecordInv, WakeStalls \/ WakeWaits \/ WakePublishes \/ WakeRuns PROVE RecordInv'
<1>1. /\ pc = "engine" /\ core = "runs" /\ volts' = volts /\ core' = core
      /\ volts \in [Banks -> Supplies] /\ ib \in Buses /\ ib.changeAt = None
  BY DEF WakeStalls, WakeWaits, WakePublishes, WakeRuns, Wake, BaseInv, TypeInv, Yields
<1>2. /\ Woken \in Nodes /\ Woken.dir = node.dir /\ Woken.out = node.out /\ Woken.mode = node.mode
      /\ Woken.published = node.published /\ Woken.dirty = node.dirty
      /\ Woken.pendingAt = node.pendingAt /\ Woken.bankBits = node.bankBits
  BY WokenFacts
<1>3. /\ Mirrored
      /\ ib.powered = PoweredBy(node.bankBits) /\ ib.high = HighBy(node.bankBits)
      /\ \A p \in Pads \ node.dirty : node.published[p] = MirroredDrive(node, p, node.bankBits)
      /\ node.pendingAt = None => node.dirty = {}
  BY <1>1 DEF RecordInv, Between
<1>4. Fresh(ib) /\ Keyed(ib) /\ ib.dirty = {} BY <1>1 DEF RecordInv, Told, Fresh
<1>5. \A v : \A p \in Pads : MirroredDrive(node, p, v) = GuestDrive(ib, p, v)
  BY <1>3 DEF Mirrored, MirroredDrive, GuestDrive
<1>6. \A p \in Pads : NodeDrive(Woken, p) = MirroredDrive(node, p, volts)
  BY <1>2 DEF NodeDrive, MirroredDrive
<1>7. CASE WakeStalls \/ WakeWaits
  <2>1. node' = Woken /\ UNCHANGED <<ib, turn, pc>> BY <1>7 DEF WakeStalls, WakeWaits
  <2> HIDE DEF Woken
  <2>2. \A p \in Pads : MirroredDrive(node', p, node'.bankBits) = MirroredDrive(node, p, node.bankBits)
    BY <2>1, <1>2 DEF MirroredDrive
  <2>3. Mirrored' BY <2>1, <1>2, <1>3 DEF Mirrored
  <2>4. Between' BY <2>1, <2>2, <2>3, <1>2, <1>3 DEF Between
  <2>5. SuppliesWait' BY <2>1, <1>1, <1>2 DEF RecordInv, SuppliesWait
  <2>6. Told' /\ WhileInTurn' BY <2>1, <1>1, <1>4 DEF Told, WhileInTurn
  <2> QED BY <2>4, <2>5, <2>6 DEF RecordInv
<1>8. CASE WakePublishes
  <2> DEFINE P == PublishPending(Woken)
  <2>1. node' = P /\ UNCHANGED <<ib, turn, pc>> /\ Woken.pendingAt \in 0..now BY <1>8 DEF WakePublishes
  <2>2. /\ P.mode = Woken.mode /\ P.dir = Woken.dir /\ P.out = Woken.out
        /\ P.bankBits = Woken.bankBits /\ P.dirty = {} /\ P.pendingAt = None
        /\ \A p \in Pads : P.published[p] = IF p \in Woken.dirty THEN NodeDrive(Woken, p) ELSE Woken.published[p]
    BY <1>1, <1>2, PublishKeeps
  <2>3. node.pendingAt # None BY <2>1, <1>2 DEF None
  <2>4. node.bankBits = volts BY <2>3, <1>1 DEF RecordInv, SuppliesWait
  <2> HIDE DEF P, Woken
  <2>5. \A p \in Pads : MirroredDrive(node', p, node'.bankBits) = MirroredDrive(node, p, volts)
    BY <2>1, <2>2, <2>4, <1>2 DEF MirroredDrive
  <2>6. \A p \in Pads : node'.published[p] = MirroredDrive(node, p, volts)
    <3> TAKE p \in Pads
    <3>1. CASE p \in node.dirty BY <3>1, <2>1, <2>2, <1>2, <1>6
    <3>2. CASE p \notin node.dirty BY <3>2, <2>1, <2>2, <2>4, <1>2, <1>3
    <3> QED BY <3>1, <3>2
  <2>7. Mirrored' BY <2>1, <2>2, <1>2, <1>3 DEF Mirrored
  <2>8. ib'.powered = PoweredBy(node'.bankBits) /\ ib'.high = HighBy(node'.bankBits)
    BY <2>1, <2>2, <1>2, <1>3
  <2>9. node'.dirty = {} /\ node'.pendingAt = None BY <2>1, <2>2
  <2>10. Between' BY <2>5, <2>6, <2>7, <2>8, <2>9 DEF Between
  <2>11. SuppliesWait' BY <2>9 DEF SuppliesWait
  <2>12. Told' /\ WhileInTurn' BY <2>1, <1>1, <1>4 DEF Told, WhileInTurn
  <2> QED BY <2>10, <2>11, <2>12 DEF RecordInv
<1>9. CASE WakeRuns
  <2> DEFINE F == FollowSupplies(Woken)
  <2>1. /\ node' = F /\ Woken.pendingAt = None
        /\ ib' = TakeBanks(ib, Powered(F), High(F))
        /\ Run(F, 0, MachineNow(F) + Slice)
    BY <1>9 DEF WakeRuns
  <2>2. /\ F \in Nodes /\ F.mode = Woken.mode /\ F.dir = Woken.dir /\ F.out = Woken.out
        /\ F.bankBits = volts /\ F.dirty = Woken.dirty
        /\ \A p \in Pads : F.published[p] =
             IF volts[BankOf[p]] # Woken.bankBits[BankOf[p]] THEN NodeDrive(Woken, p) ELSE Woken.published[p]
    BY <1>1, <1>2, FollowKeeps
  <2> HIDE DEF F, Woken
  <2>3. /\ Powered(F) \in SUBSET Banks /\ High(F) \in SUBSET Banks
        /\ Powered(F) = PoweredBy(volts) /\ High(F) = HighBy(volts)
    BY <2>2, MasksOf
  <2>4. /\ ib'.powered = PoweredBy(volts) /\ ib'.high = HighBy(volts) /\ ib'.dirty = {}
        /\ ib'.moved = {} /\ ib'.mode = ib.mode /\ ib'.dir = ib.dir /\ ib'.out = ib.out
        /\ Keyed(ib')
    BY <2>1, <2>3, <1>1, <1>3, <1>4, TakeBanksFacts DEF Mirrored
  <2>5. pc' \in {"turn", "reply"} BY <2>1, RunFacts
  <2>6. node.dirty = {} BY <2>1, <1>2, <1>3
  <2>7. \A p \in Pads : GuestDrive(ib', p, volts) = GuestDrive(ib, p, volts) BY <2>4 DEF GuestDrive
  <2>8. \A p \in Pads : F.published[p] = MirroredDrive(node, p, volts)
    <3> TAKE p \in Pads
    <3>1. CASE volts[BankOf[p]] # node.bankBits[BankOf[p]] BY <3>1, <2>2, <1>2, <1>6
    <3>2. CASE volts[BankOf[p]] = node.bankBits[BankOf[p]]
      <4>1. F.published[p] = MirroredDrive(node, p, node.bankBits) BY <3>2, <2>2, <2>6, <1>2, <1>3
      <4> QED BY <4>1, <3>2 DEF MirroredDrive
    <3> QED BY <3>1, <3>2
  <2>9. WhileInTurn'
    <3>1. node'.dirty = {} /\ node'.bankBits = volts' BY <2>1, <2>2, <2>6, <1>1, <1>2
    <3>2. ib'.powered = PoweredBy(volts') /\ ib'.high = HighBy(volts') BY <2>4, <1>1
    <3>3. \A p \in Pads \ ib'.moved : node'.mode[p] = ib'.mode[p] BY <2>1, <2>2, <2>4, <1>2, <1>3 DEF Mirrored
    <3>4. \A p \in Pads : node'.published[p] = GuestDrive(ib', p, volts')
      BY <2>1, <2>7, <2>8, <1>1, <1>5
    <3> QED BY <3>1, <3>2, <3>3, <3>4 DEF WhileInTurn
  <2>10. Told' BY <2>4 DEF Told, Fresh
  <2>11. Between' /\ SuppliesWait' BY <2>5 DEF Between, SuppliesWait
  <2> QED BY <2>9, <2>10, <2>11 DEF RecordInv
<1> QED BY <1>7, <1>8, <1>9

LEMMA RecordStep ==
  ASSUME Bounces = FALSE, BaseInv, RecordInv, [Next]_vars PROVE RecordInv'
<1>1. CASE \E c \in Cogs : RunSlice(c) \/ StallSlice(c) BY <1>1, RecordSlice
<1>2. CASE EndPass
  <2>1. pc = "turn" /\ pc' \in {"turn", "reply"} /\ UNCHANGED <<ib, node, volts, core>>
    BY <1>2 DEF EndPass, package
  <2> QED BY <2>1 DEF RecordInv, Told, WhileInTurn, Between, SuppliesWait
<1>3. CASE ReplyStalls \/ ReplyYields \/ ReplyGoesOn \/ ReplyEnds BY <1>3, RecordReply
<1>4. CASE ProgramFails
  BY <1>4 DEF ProgramFails, RecordInv, Told, WhileInTurn, Between, SuppliesWait
<1>5. CASE WakeStalls \/ WakeWaits \/ WakePublishes \/ WakeRuns BY <1>5, RecordWake
<1>6. CASE UNCHANGED <<ib, pc, node, volts, core>>
  BY <1>6 DEF RecordInv, Told, WhileInTurn, Between, SuppliesWait, Mirrored
<1>7. CASE IgnoreWake BY <1>6, <1>7 DEF IgnoreWake, package
<1>8. ASSUME NEW k \in Banks, NEW v \in Supplies, SenseBank(k, v) PROVE RecordInv'
  <2>1. pc = "engine" /\ node.pendingAt = None /\ UNCHANGED <<ib, pc, node, core>>
    BY <1>8 DEF SenseBank, Event
  <2> QED BY <2>1 DEF RecordInv, Told, WhileInTurn, Between, SuppliesWait, Mirrored
<1>9. ASSUME NEW signal \in {"none", "sine", "square"}, SenseXi(signal) PROVE RecordInv'
  BY <1>6, <1>9 DEF SenseXi
<1>10. CASE Hold
  BY <1>10 DEF Hold, Event, package, RecordInv, Told, WhileInTurn, Between, SuppliesWait
<1>11. ASSUME NEW t \in 1..MaxTime, Advance(t) PROVE RecordInv' BY <1>6, <1>11 DEF Advance, package
<1>12. CASE UNCHANGED vars BY <1>6, <1>12 DEF vars, package
<1> QED BY <1>1, <1>2, <1>3, <1>4, <1>5, <1>7, <1>8, <1>9, <1>10, <1>11, <1>12 DEF Next, Turn, NodeWake

LEMMA RecordInit == ASSUME Init PROVE RecordInv
<1>1. /\ pc = "engine" /\ ib.dirty = {} /\ ib.changeAt = None /\ ib.moved = {}
      /\ ib.mode = [p \in Pads |-> "fast"] /\ ib.powered = {} /\ ib.high = {}
      /\ ib.dir = [c \in Cogs |-> [p \in Pads |-> 0]] /\ ib.out = [c \in Cogs |-> [p \in Pads |-> 0]]
      /\ ib.pubKey = [p \in Pads |-> [ohms |-> "none", up |-> FALSE]]
      /\ node.dir = [p \in Pads |-> 0] /\ node.out = [p \in Pads |-> 0]
      /\ node.mode = [p \in Pads |-> "fast"] /\ node.pendingAt = None /\ node.dirty = {}
      /\ node.published = [p \in Pads |-> Released] /\ node.bankBits = [k \in Banks |-> NoVolts]
  BY DEF Init
<1>2. \A p \in Pads : Ored(ib.dir, p) = 0 /\ Ored(ib.out, p) = 0 BY <1>1 DEF Ored
<1>3. \A p \in Pads : GuestKey(ib, p) = ib.pubKey[p] BY <1>1, <1>2 DEF GuestKey, DriveKey
<1>4. Told BY <1>1, <1>3 DEF Told, Fresh, Keyed
<1>5. ib.powered = PoweredBy(node.bankBits) /\ ib.high = HighBy(node.bankBits)
  BY <1>1 DEF PoweredBy, HighBy
<1>6. \A p \in Pads : node.published[p] = MirroredDrive(node, p, node.bankBits)
  BY <1>1 DEF MirroredDrive, PadDrive
<1> QED BY <1>1, <1>2, <1>4, <1>5, <1>6 DEF RecordInv, WhileInTurn, Between, SuppliesWait, Mirrored

(* No pad change is lost or reported twice: whenever the guest runs, what   *)
(* it has still to report is what its nets do not carry, over every order   *)
(* of slices, yields, supply changes and clock changes (mark_changes,       *)
(* take_banks, follow_supplies and take_stop between them), as long as no   *)
(* supply moves while a change waits for its instant.                       *)
THEOREM NothingLostAlways == ASSUME Bounces = FALSE PROVE Spec => []NothingLost
<1>1. Init => BaseInv /\ RecordInv BY BaseInit, RecordInit
<1>2. BaseInv /\ RecordInv /\ [Next]_vars => BaseInv' /\ RecordInv' BY BaseStep, RecordStep
<1>3. BaseInv /\ RecordInv => NothingLost
  <2> SUFFICES ASSUME BaseInv, RecordInv, pc = "turn"
      PROVE ib.dirty = {p \in Pads : node.published[p] # GuestDrive(ib, p, volts)}
    BY DEF NothingLost, GuestDrive
  <2>1. core = "runs" /\ ib.changeAt = None BY DEF BaseInv, TypeInv, Yields
  <2>2. ib.dirty = {} /\ \A p \in Pads : GuestKey(ib, p) = ib.pubKey[p]
    BY <2>1 DEF RecordInv, Told, Fresh, Keyed
  <2>3. \A p \in Pads : node.published[p] = GuestDrive(ib, p, volts) BY <2>2 DEF RecordInv, WhileInTurn
  <2> QED BY <2>2, <2>3
<1> QED BY <1>1, <1>2, <1>3, PTL DEF Spec
=============================================================================
