---------------------------- MODULE MCSharedBus ----------------------------
(* Bytes of two bits, one-byte addresses, two-byte frames, blocks of two     *)
(* bytes and one check byte; two cells of one page, two blocks.  The data    *)
(* of a block is a byte that is also a data token, or one that looks like    *)
(* the start of a command frame.                                             *)
EXTENDS SharedBus, TLC

Idle(n) == [i \in 1..n |-> FF]

FlashOp(kind, more) ==
    LET o == [dev |-> "flash", mode |-> 0, kind |-> kind, bytes |-> <<kind>> \o more]
    IN o @@ [due |-> [k \in DOMAIN o.bytes |-> FlashDue(o, k)]]

FlashOps ==
    {FlashOp("Enable", <<>>), FlashOp("Disable", <<>>), FlashOp("Status", <<FF>>),
     FlashOp("Jedec", <<FF, FF>>), FlashOp("Read", <<"at0", FF, FF>>),
     FlashOp("Program", <<"at1", "a", "b">>), FlashOp("Program", <<"at0", "a">>),
     FlashOp("Erase", <<"at1">>)}

Counted(stage, cmd, b, n) == [j \in 1..n |-> Label(stage, cmd, b, j)]
One(stage, cmd, b) == <<Label(stage, cmd, b, 0)>>
Asked(cmd, arg) == Counted("frame", cmd, arg, FrameBytes) \o One("reply", cmd, arg)
Read(cmd, b) ==
    One("token", cmd, b) \o Counted("block", cmd, b, BlockBytes) \o Counted("check", cmd, b, CrcBytes)
Written(cmd, b) ==
    One("start", cmd, b) \o Counted("data", cmd, b, BlockBytes) \o Counted("seal", cmd, b, CrcBytes)
    \o One("accepted", cmd, b) \o One("busy", cmd, b)

CardOp(kind, mode, sent, due) ==
    [dev |-> "card", mode |-> mode, kind |-> kind, bytes |-> sent, due |-> due]

CardOps(mode) ==
    {CardOp("Greet", mode, <<"CMD0", FF, FF>>, Asked("CMD0", 0)),
     CardOp("Ready", mode, <<"CMD55", FF, FF, "CMD41", FF, FF>>,
            Asked("CMD55", 0) \o Asked("CMD41", 0)),
     CardOp("Read", mode, <<"CMD17", "at0">> \o Idle(5), Asked("CMD17", 0) \o Read("CMD17", 0)),
     CardOp("Read", mode, <<"CMD17", "at2">> \o Idle(3),
            Asked("CMD17", 2) \o One("refused", "CMD17", 2) \o One("idle", "CMD17", 0)),
     CardOp("ReadMany", mode, <<"CMD18", "at0">> \o Idle(11) \o <<"CMD12", FF, FF>>,
            Asked("CMD18", 0) \o One("gap", "CMD18", 0) \o Read("CMD18", 0)
            \o One("gap", "CMD18", 1) \o Read("CMD18", 1) \o Asked("CMD12", 0)),
     CardOp("Write", mode, <<"CMD24", "at1", FF, "FE", "FE", "FE", FF, FF, FF>>,
            Asked("CMD24", 1) \o Written("CMD24", 1)),
     CardOp("WriteMany", mode,
            <<"CMD25", "at0", FF, "FC", "Bin", "Bin", FF, FF, FF,
              "FC", "FE", "FE", FF, FF, FF, "FD", FF>>,
            Asked("CMD25", 0) \o Written("CMD25", 0) \o Written("CMD25", 1)
            \o One("stop", "CMD25", 0) \o One("stopped", "CMD25", 0))}

MCFramed == {"Bin"}
MCPlace == "at0" :> 0 @@ "at1" :> 1 @@ "at2" :> 2
MCOps == FlashOps \cup CardOps(0) \cup CardOps(3)
=============================================================================
