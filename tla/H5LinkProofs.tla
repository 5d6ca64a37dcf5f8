---------------------------- MODULE H5LinkProofs ----------------------------
(***************************************************************************)
(* What is proved of H5Link: the arithmetic of the download; the type      *)
(* invariant, for every set of controllers and lines; that the host counts *)
(* every command it completed exactly once and has 0 for its next sequence *)
(* number when it is done; and that the link implements the command pipe   *)
(* of CmdPipe.  The line may lose, repeat or delay what it likes, and the  *)
(* controllers, of any set that sends nothing unasked (Quiet), restart     *)
(* their numbers or not and refuse commands or not.                        *)
(***************************************************************************)
EXTENDS H5Link, SequenceTheorems, TLAPS

(* The arithmetic of the download, for every number of commands and every  *)
(* length.                                                                 *)
LEMMA AddPktsRange == ASSUME NEW num \in Nat, NEW end \in Nat
                      PROVE  AddPkts(num, end) \in 0..7
  BY SMT DEF AddPkts

LEMMA TotalIdxNat == ASSUME NEW num \in Nat, NEW end \in Nat
                     PROVE  TotalIdx(num, end) \in Nat
  BY AddPktsRange, SMT DEF TotalIdx

(* The purpose of the appended packets (rtb_download_fwc: "Make sure the   *)
(* next seqno is zero after download patch and hci reset"): num commands,  *)
(* packets 0 to TotalIdx and HCI_RESET are a multiple of eight.            *)
THEOREM PaddingAligns == ASSUME NEW num \in Nat, NEW end \in Nat
                         PROVE  (num + TotalIdx(num, end) + 2) % 8 = 0
  BY SMT DEF TotalIdx, AddPkts

(* Bit 7 of the index is left to the last packet as long as no packet      *)
(* before it has number 255: the bound within which the comment of         *)
(* rtb_download_fwc on the roll-over is right.                             *)
THEOREM RollOverSparesBit7 == ASSUME NEW n \in 0..254
                              PROVE  RollOver(n) \in 0..127
  BY SMT DEF RollOver

LEMMA CurrIdxRange == ASSUME NEW n \in Nat, NEW total \in Nat
                      PROVE  CurrIdx(n, total) \in 0..255
<1>1. RollOver(n) \in 0..128
  BY SMT DEF RollOver
<1>2. \A j \in 0..128 : OrBit7(j) \in 128..255
  BY SMT DEF OrBit7
<1>3. QED
  BY <1>1, <1>2, SMTT(30) DEF CurrIdx

(* The index kept in tx_index fits in seven bits.                          *)
LEMMA TxIndexRange == ASSUME NEW n \in Nat, NEW total \in Nat
                      PROVE  CurrIdx(n, total) % 128 \in 0..127
<1>1. PICK x \in 0..255 : x = CurrIdx(n, total)
  BY CurrIdxRange
<1>2. x % 128 \in 0..127
  BY SMT
<1>3. QED
  BY <1>1, <1>2, Zenon

-----------------------------------------------------------------------------
(* The type invariant.                                                     *)

(* What is attached does not change, and is one of the assumed cases.      *)
LEMMA ChipTyped == ASSUME TypeProgram PROVE chip \in Device /\ line \in Faults
  BY ChipsAssumption DEF TypeProgram

(* The line never carries a packet that was not put on it.                 *)
LEMMA PutTyped == ASSUME line \in Faults, NEW S, NEW w \in Seq(S), NEW ps \in Seq(S)
                  PROVE  Put(w, ps) \in Seq(S)
<1>1. /\ w \o ps \in Seq(S) /\ Len(w \o ps) = Len(w) + Len(ps)
      /\ Len(w) \in Nat /\ Len(ps) \in Nat
  BY ConcatProperties, LenProperties
<1> DEFINE n == IF Len(w) + Len(ps) <= line.cap THEN Len(w) + Len(ps) ELSE line.cap
<1>2. n \in Nat /\ n <= Len(w) + Len(ps)
  BY <1>1 DEF Faults
<1>3. \A k \in 1..n : (w \o ps)[k] \in S
  BY <1>1, <1>2, ElementOfSeq
<1>4. SubSeq(w \o ps, 1, n) \in Seq(S)
  BY <1>2, <1>3, SubSeqProperties
<1>5. QED
  BY <1>4, Zenon DEF Put

LEMMA PutOneTyped == ASSUME line \in Faults, NEW S, NEW w \in Seq(S), NEW p \in S
                     PROVE  Put(w, <<p>>) \in Seq(S)
<1>1. <<p>> \in Seq(S)
  OBVIOUS
<1>2. QED
  BY <1>1, PutTyped

LEMMA TakeTyped == ASSUME NEW S, NEW w \in Seq(S), w # << >>
                   PROVE  Head(w) \in S /\ Tail(w) \in Seq(S)
  BY HeadTailProperties

(* An acknowledgement removes a prefix of the unacknowledged events.       *)
LEMMA StillUnackedTyped == ASSUME NEW S \in SUBSET Packet, unacked \in Seq(S),
                                  NEW ack \in SEQ
                           PROVE  StillUnacked(ack) \in Seq(S)
<1> DEFINE n == (ack + 8 - unacked[1].seq) % 8
<1>1. CASE unacked # << >> /\ n <= Len(unacked)
  <2>1. Len(unacked) \in Nat /\ 1 \in 1..Len(unacked)
    BY <1>1, LenProperties, EmptySeq
  <2>2. unacked[1].seq \in SEQ
    BY <2>1, ElementOfSeq DEF Packet
  <2>3. n \in 0..7
    <3>1. PICK s \in 0..7, a \in 0..7 : s = unacked[1].seq /\ a = ack
      BY <2>2 DEF SEQ
    <3>2. (a + 8 - s) % 8 \in 0..7
      BY SMT
    <3>3. QED
      BY <3>1, <3>2, Zenon
  <2>4. \A k \in (n + 1)..Len(unacked) : unacked[k] \in S
    BY <2>1, <2>3, ElementOfSeq
  <2>5. SubSeq(unacked, n + 1, Len(unacked)) \in Seq(S)
    BY <2>1, <2>3, <2>4, SubSeqProperties
  <2>6. QED
    BY <1>1, <2>5 DEF StillUnacked
<1>2. CASE ~(unacked # << >> /\ n <= Len(unacked))
  BY <1>2 DEF StillUnacked
<1>3. QED
  BY <1>1, <1>2

(* What the program and the controller put together is a packet.           *)
LEMMA FrameTyped == ASSUME NEW kind \in LinkKinds \cup {"ack", "cmd", "evt"},
                           NEW seq \in SEQ, NEW ack \in SEQ, NEW o \in Ops \cup {"none"},
                           NEW idx \in 0..255, NEW st \in {0, 1}
                    PROVE  Frame(kind, seq, ack, o, idx, st) \in Packet
  BY DEF Frame, Packet

LEMMA CtlTyped == /\ \A kind \in LinkKinds : LinkCtl(kind) \in Packet
                  /\ \A ack \in SEQ : PureAck(ack) \in Packet
<1>1. 0 \in SEQ /\ 0 \in 0..255 /\ 0 \in {0, 1} /\ "none" \in Ops \cup {"none"}
  BY SMT DEF SEQ
<1>2. QED
  BY <1>1, FrameTyped DEF LinkCtl, PureAck

LEMMA Succ8Typed == \A n \in SEQ : Succ8(n) \in SEQ
  BY DEF SEQ, Succ8

LEMMA LinkReplyIn == ASSUME rxseq_txack \in SEQ, NEW kind, NEW S,
                            \A k \in LinkKinds : LinkCtl(k) \in S,
                            \A a \in SEQ : PureAck(a) \in S
                     PROVE  AckOwed \in Seq(S) /\ LinkReply(kind) \in Seq(S)
<1>1. AckOwed \in Seq(S)
  BY DEF AckOwed
<1>2. <<LinkCtl("syncresp")>> \in Seq(S) /\ <<LinkCtl("confresp")>> \in Seq(S)
  BY DEF LinkKinds
<1>3. <<PureAck(rxseq_txack)>> \in Seq(S)
  OBVIOUS
<1>4. QED
  BY <1>1, <1>2, <1>3, ConcatProperties DEF LinkReply

-----------------------------------------------------------------------------
(* The program's position and its link state.                              *)
LEMMA NextOpTyped == \A o \in Ops, typed, baud \in BOOLEAN : NextOp(o, typed, baud) \in Ops
  BY DEF NextOp, Ops, LinkOps, InitOps

LEMMA ProgramInv == ASSUME TypeProgram, Next PROVE TypeProgram'
<1> USE DEF TypeProgram
<1>1. CASE SendLinkReq \/ SendPatch
  BY <1>1 DEF SendLinkReq, SendPatch, Reliable, Transmit
<1>2. CASE SendCommand
  BY <1>2 DEF SendCommand, Reliable, Transmit
<1>3. CASE Poll \/ LoopAgain
  BY <1>3 DEF Poll, LoopAgain, cmdvars, loopvars
<1>4. CASE RecvEvent
  BY <1>4 DEF RecvEvent, TakePacket, HciRecvFrame, LinkStates
<1>5. CASE RecvLinkCtl
  BY <1>5 DEF RecvLinkCtl, TakePacket, LinkStates
<1>6. CASE RecvOutOfOrder \/ RecvAck
  BY <1>6 DEF RecvOutOfOrder, RecvAck, TakePacket
<1>7. CASE RecvNothing
  BY <1>7 DEF RecvNothing, loopvars, cmdvars, progvars
<1>8. CASE Retransmit
  BY <1>8 DEF Retransmit, cmdvars, progvars
<1>9. CASE GiveUp
  BY <1>9 DEF GiveUp, cmdvars
<1>10. CASE LinkReqDone \/ CommandDone
  <2>1. op' \in Ops
    BY <1>10, NextOpTyped, ChipTyped DEF LinkReqDone, CommandDone, Proceed, Device
  <2>2. QED
    BY <1>10, <2>1 DEF LinkReqDone, CommandDone, LoopDone, Proceed
<1>11. CASE PatchDone \/ ResetDone
  BY <1>11 DEF PatchDone, ResetDone, LoopDone, Ops
<1>12. CASE SetSpeed \/ StartDownload
  BY <1>12 DEF SetSpeed, StartDownload, cmdvars, loopvars, LinkStates
<1>13. CASE Expire
  BY <1>13 DEF Expire, cmdvars, progvars
<1>14. CASE Lose \/ Chip
  BY <1>14 DEF Lose, Chip, ChipReceives, ChipRecvLinkCtl, ChipRecvAck, ChipExecute,
       ChipDuplicate, ChipTake, ChipRetransmit, ChipEvent, ChipLinkReq, ChipSetSpeed,
       hostvars, cmdvars, loopvars, progvars
<1>15. CASE Finished
  BY <1>15 DEF Finished, vars, hostvars, cmdvars, loopvars, progvars
<1>16. QED
  BY <1>1, <1>2, <1>3, <1>4, <1>5, <1>6, <1>7, <1>8, <1>9, <1>10, <1>11, <1>12, <1>13,
     <1>14, <1>15 DEF Next, Host, HostSends, HostReceives, HostTimer, HostLoop

-----------------------------------------------------------------------------
(* The flags.                                                              *)
LEMMA FlagsInv == ASSUME TypeFlags, Next PROVE TypeFlags'
<1> USE DEF TypeFlags
<1>1. CASE SendLinkReq \/ SendPatch \/ SendCommand
  <2>1. CASE SendLinkReq
    BY <2>1 DEF SendLinkReq, Transmit, chipvars
  <2>2. CASE SendPatch
    BY <2>2 DEF SendPatch, Reliable, Transmit, chipvars
  <2>3. CASE SendCommand
    BY <2>3 DEF SendCommand, Reliable, Transmit, chipvars
  <2>4. QED
    BY <1>1, <2>1, <2>2, <2>3
<1>2. CASE Poll \/ LoopAgain
  BY <1>2 DEF Poll, LoopAgain, seqvars, cmdvars, chipvars
<1>3. CASE RecvEvent
  BY <1>3 DEF RecvEvent, TakePacket, HciRecvFrame, chipvars
<1>4. CASE RecvLinkCtl \/ RecvOutOfOrder \/ RecvAck
  BY <1>4, ZenonT(60) DEF RecvLinkCtl, RecvOutOfOrder, RecvAck, TakePacket, chipvars
<1>5. CASE RecvNothing \/ Retransmit \/ GiveUp
  BY <1>5 DEF RecvNothing, Retransmit, GiveUp, seqvars, cmdvars, chipvars
<1>6. CASE LinkReqDone \/ CommandDone \/ PatchDone \/ ResetDone
  BY <1>6, ZenonT(60) DEF LinkReqDone, CommandDone, PatchDone, ResetDone, LoopDone, chipvars
<1>7. CASE SetSpeed \/ StartDownload \/ Expire
  BY <1>7, ZenonT(60) DEF SetSpeed, StartDownload, Expire, seqvars, cmdvars, chipvars
<1>8. CASE ChipRecvLinkCtl \/ ChipRecvAck \/ ChipExecute \/ ChipDuplicate
  BY <1>8, ZenonT(60) DEF ChipRecvLinkCtl, ChipRecvAck, ChipExecute, ChipDuplicate, ChipTake,
       hostvars, seqvars, cmdvars
<1>9. CASE ChipRetransmit \/ ChipEvent \/ ChipLinkReq \/ ChipSetSpeed \/ Lose
  BY <1>9, ZenonT(60) DEF ChipRetransmit, ChipEvent, ChipLinkReq, ChipSetSpeed, Lose, hostvars,
       seqvars, cmdvars, chipvars
<1>10. CASE Finished
  BY <1>10 DEF Finished, vars, hostvars, seqvars, cmdvars, chipvars
<1>11. QED
  BY <1>1, <1>2, <1>3, <1>4, <1>5, <1>6, <1>7, <1>8, <1>9, <1>10 DEF Next, Host,
     HostSends, HostReceives, HostTimer, HostLoop, Chip, ChipReceives

-----------------------------------------------------------------------------
(* Numbers.                                                                *)
LEMMA TakePacketTyped == ASSUME TypeNumbers, TypePackets, TakePacket
                         PROVE  /\ burst' \in Nat /\ Head(c2h) \in Packet
                                /\ c2h' \in Seq(Packet)
                                /\ ready' \in Seq({"serial", "timer"})
<1>1. Len(c2h) \in Nat /\ Len(c2h) > 0
  BY LenProperties, EmptySeq DEF TakePacket, TypePackets
<1>2. burst' \in Nat
  BY <1>1 DEF TakePacket, TypeNumbers
<1>3. Head(c2h) \in Packet /\ c2h' \in Seq(Packet)
  BY TakeTyped DEF TakePacket, TypePackets
<1>4. Tail(ready) \in Seq({"serial", "timer"})
  BY TakeTyped DEF TakePacket, Handling, TypePackets
<1>5. QED
  BY <1>2, <1>3, <1>4 DEF TakePacket, TypePackets

LEMMA NumbersInv == ASSUME TypeOK, Next PROVE TypeNumbers'
<1> USE DEF TypeOK, TypeNumbers
<1>1. CASE SendLinkReq
  BY <1>1 DEF SendLinkReq, Transmit, chipvars, budgets, MaxRetry
<1>2. CASE SendCommand
  BY <1>2, Succ8Typed DEF SendCommand, Reliable, Transmit, chipvars, budgets, MaxRetry
<1>3. CASE SendPatch
  <2>1. CurrIdx(i, total_num) % 128 \in 0..127
    BY TxIndexRange
  <2>2. QED
    BY <1>3, <2>1, Succ8Typed DEF SendPatch, Reliable, Transmit, chipvars, budgets, MaxRetry
<1>4. CASE Poll \/ LoopAgain
  BY <1>4 DEF Poll, LoopAgain, seqvars, cmdvars, dlvars, loopvars, chipvars, pipevars, budgets
<1>5. CASE RecvEvent
  <2>1. burst' \in Nat /\ Head(c2h) \in Packet
    BY <1>5, TakePacketTyped DEF RecvEvent
  <2>2. PICK x \in 0..255 : x = Head(c2h).idx
    BY <2>1 DEF Packet
  <2>3. x % 128 \in 0..127
    BY SMT
  <2>4. /\ num_of_cmd_sent' \in {num_of_cmd_sent, num_of_cmd_sent + 1}
        /\ rx_index' \in {rx_index, x % 128}
    BY <1>5, <2>2 DEF RecvEvent, HciRecvFrame
  <2>5. rxseq_txack' \in SEQ
    BY <1>5, Succ8Typed DEF RecvEvent
  <2>6. QED
    BY <1>5, <2>1, <2>3, <2>4, <2>5 DEF RecvEvent, TakePacket, chipvars, pipevars, budgets
<1>6. CASE RecvOutOfOrder
  <2>1. burst' \in Nat /\ Head(c2h).seq \in SEQ
    BY <1>6, TakePacketTyped DEF RecvOutOfOrder, Packet
  <2>2. QED
    BY <1>6, <2>1 DEF RecvOutOfOrder, TakePacket, chipvars, pipevars, budgets
<1>7. CASE RecvLinkCtl \/ RecvAck
  <2>1. burst' \in Nat
    BY <1>7, TakePacketTyped DEF RecvLinkCtl, RecvAck
  <2>2. QED
    BY <1>7, <2>1 DEF RecvLinkCtl, RecvAck, TakePacket, chipvars, pipevars, budgets
<1>8. CASE RecvNothing \/ Retransmit \/ GiveUp
  <2>1. CASE RecvNothing
    BY <2>1 DEF RecvNothing, seqvars, cmdvars, dlvars, chipvars, pipevars, budgets
  <2>2. CASE Retransmit
    BY <2>2 DEF Retransmit, seqvars, cmdvars, dlvars, chipvars, pipevars, budgets
  <2>3. CASE GiveUp
    BY <2>3 DEF GiveUp, seqvars, cmdvars, dlvars, chipvars, pipevars, budgets
  <2>4. QED
    BY <1>8, <2>1, <2>2, <2>3
<1>9. CASE LinkReqDone \/ CommandDone \/ PatchDone \/ ResetDone
  BY <1>9 DEF LinkReqDone, CommandDone, PatchDone, ResetDone, LoopDone, chipvars, budgets
<1>10. CASE SetSpeed \/ Expire
  BY <1>10 DEF SetSpeed, Expire, seqvars, cmdvars, dlvars, loopvars, chipvars, pipevars,
       budgets
<1>11. CASE StartDownload
  <2>1. chip.endIdx \in Nat
    BY ChipTyped, SMT DEF Device, MaxEndIdx
  <2>2. TotalIdx(num_of_cmd_sent, chip.endIdx) \in Nat
    BY <2>1, TotalIdxNat
  <2>3. QED
    BY <1>11, <2>2 DEF StartDownload, seqvars, cmdvars, loopvars, chipvars, pipevars, budgets
<1>12. CASE ChipRecvLinkCtl \/ ChipRecvAck \/ ChipDuplicate
  BY <1>12 DEF ChipRecvLinkCtl, ChipRecvAck, ChipDuplicate, ChipTake, hostvars, seqvars,
       cmdvars, dlvars, loopvars, budgets
<1>13. CASE ChipExecute
  <2>1. cexp' \in SEQ /\ ctx' \in SEQ
    <3>1. cexp' = Succ8(cexp) /\ \E seq \in {0, ctx} : ctx' = Succ8(seq)
      BY <1>13, Zenon DEF ChipExecute
    <3>2. 0 \in SEQ
      BY DEF SEQ
    <3>3. QED
      BY <3>1, <3>2, Succ8Typed
  <2>2. QED
    BY <1>13, <2>1 DEF ChipExecute, ChipTake, hostvars, seqvars, cmdvars, dlvars,
         loopvars, budgets
<1>14. CASE ChipEvent
  BY <1>14, Succ8Typed DEF ChipEvent, hostvars, seqvars, cmdvars, dlvars, loopvars, pipevars
<1>15. CASE ChipRetransmit \/ ChipLinkReq \/ ChipSetSpeed \/ Lose
  <2>1. /\ losses' \in {losses, losses + 1} /\ noise' \in {noise, noise + 1}
        /\ UNCHANGED <<seqvars, cexp, ctx, num_of_cmd_sent, dlvars, retry, burst, pipevars>>
    BY <1>15 DEF ChipRetransmit, ChipLinkReq, ChipSetSpeed, Lose, hostvars, cmdvars,
         loopvars, chipvars, budgets
  <2>2. QED
    BY <2>1 DEF seqvars, dlvars, pipevars
<1>16. CASE Finished
  BY <1>16 DEF Finished, vars, hostvars, seqvars, cmdvars, dlvars, loopvars, chipvars,
       pipevars, budgets
<1>17. QED
  BY <1>1, <1>2, <1>3, <1>4, <1>5, <1>6, <1>7, <1>8, <1>9, <1>10, <1>11, <1>12, <1>13,
     <1>14, <1>15, <1>16 DEF Next, Host, HostSends, HostReceives, HostTimer, HostLoop,
     Chip, ChipReceives

-----------------------------------------------------------------------------
(* Packets: kept for retransmission, on the line, unacknowledged.          *)
LEMMA TransmitTyped == ASSUME line \in Faults, TypePackets, NEW p \in Packet, Transmit(p)
                       PROVE  TypePackets'
<1>1. h2c' \in Seq(Packet)
  BY PutOneTyped DEF TypePackets, Transmit
<1>2. QED
  BY <1>1 DEF TypePackets, Transmit, chipvars

(* A received packet is answered with packets, if with any.                *)
LEMMA ReceiveTyped == ASSUME TypeNumbers, TypePackets, TakePacket, h2c' \in Seq(Packet)
                      PROVE  TypePackets'
  BY TakePacketTyped DEF TakePacket, TypePackets, chipvars

LEMMA PacketsInv == ASSUME TypeOK, Next PROVE TypePackets'
<1> USE DEF TypeOK
<1>0. line \in Faults
  BY ChipTyped
<1>1. CASE SendLinkReq \/ SendCommand \/ SendPatch
  <2>1. /\ rxseq_txack \in SEQ /\ msgq_txseq \in SEQ /\ 0 \in SEQ
        /\ 0 \in 0..255 /\ 0 \in {0, 1} /\ op \in Ops
    BY SMT DEF TypeNumbers, TypeProgram, SEQ
  <2>2. CASE SendLinkReq
    <3>1. Frame(IF op = "OP_H5_SYNC" THEN "sync" ELSE "conf", 0, rxseq_txack, "none", 0, 0)
            \in Packet
      BY <2>1, FrameTyped, ZenonT(60) DEF LinkKinds
    <3>2. QED
      BY <2>2, <3>1, <1>0, TransmitTyped DEF SendLinkReq
  <2>3. CASE SendCommand
    <3>1. Frame("cmd", msgq_txseq, rxseq_txack, op, 0, 0) \in Packet
      BY <2>1, FrameTyped
    <3>2. QED
      BY <2>3, <3>1, <1>0, TransmitTyped DEF SendCommand, Reliable
  <2>4. CASE SendPatch
    <3>1. CurrIdx(i, total_num) \in 0..255
      BY CurrIdxRange DEF TypeNumbers
    <3>2. Frame("cmd", msgq_txseq, rxseq_txack, op, CurrIdx(i, total_num), 0) \in Packet
      BY <2>1, <3>1, FrameTyped
    <3>3. QED
      BY <2>4, <3>2, <1>0, TransmitTyped DEF SendPatch, Reliable
  <2>5. QED
    BY <1>1, <2>2, <2>3, <2>4
<1>2. CASE Poll
  <2>1. ready' \in {<<"serial">>, <<"timer">>, <<"serial", "timer">>, <<"timer", "serial">>}
    BY <1>2 DEF Poll
  <2>2. ready' \in Seq({"serial", "timer"})
    <3>1. \A fd, fd2 \in {"serial", "timer"} :
            <<fd>> \in Seq({"serial", "timer"}) /\ <<fd, fd2>> \in Seq({"serial", "timer"})
      OBVIOUS
    <3>2. QED
      BY <2>1, <3>1, Zenon
  <2>3. QED
    BY <1>2, <2>2 DEF Poll, TypePackets, chipvars
<1>3. CASE RecvEvent
  <2>1. PureAck(Succ8(rxseq_txack)) \in Packet
    BY CtlTyped, Succ8Typed DEF TypeNumbers
  <2>2. h2c' \in Seq(Packet)
    BY <1>3, <2>1, <1>0, PutOneTyped DEF RecvEvent, TypePackets
  <2>3. QED
    BY <1>3, <2>2, ReceiveTyped DEF RecvEvent
<1>4. CASE RecvOutOfOrder
  BY <1>4, ReceiveTyped DEF RecvOutOfOrder, TypePackets
<1>5. CASE RecvLinkCtl \/ RecvAck
  <2>1. AckOwed \in Seq(Packet) /\ LinkReply(Head(c2h).kind) \in Seq(Packet)
    BY CtlTyped, LinkReplyIn DEF TypeNumbers
  <2>2. h2c' \in Seq(Packet)
    BY <1>5, <2>1, <1>0, PutTyped DEF RecvLinkCtl, RecvAck, TypePackets
  <2>3. QED
    BY <1>5, <2>2, ReceiveTyped DEF RecvLinkCtl, RecvAck
<1>6. CASE RecvNothing
  BY <1>6, TakeTyped DEF RecvNothing, Handling, TypePackets, chipvars
<1>7. CASE Retransmit
  <2>1. h2c' \in Seq(Packet) /\ ready' \in Seq({"serial", "timer"})
    BY <1>7, <1>0, PutOneTyped, TakeTyped DEF Retransmit, Handling, TypePackets
  <2>2. QED
    BY <1>7, <2>1 DEF Retransmit, TypePackets, chipvars
<1>8. CASE GiveUp
  BY <1>8 DEF GiveUp, TypePackets, chipvars
<1>9. CASE LinkReqDone
  <2>1. PureAck(rxseq_txack) \in Packet
    BY CtlTyped DEF TypeNumbers
  <2>2. h2c' \in Seq(Packet)
    BY <1>9, <2>1, <1>0, PutOneTyped DEF LinkReqDone, TypePackets
  <2>3. QED
    BY <1>9, <2>2 DEF LinkReqDone, LoopDone, TypePackets, chipvars
<1>10. CASE CommandDone \/ PatchDone \/ ResetDone
  BY <1>10 DEF CommandDone, PatchDone, ResetDone, LoopDone, TypePackets, chipvars
<1>11. CASE LoopAgain \/ SetSpeed \/ StartDownload \/ Expire
  BY <1>11 DEF LoopAgain, SetSpeed, StartDownload, Expire, TypePackets, loopvars, chipvars
<1>12. CASE Lose
  BY <1>12, TakeTyped DEF Lose, TypePackets, hostvars, loopvars, chipvars
<1>13. CASE ChipReceives
  <2>1. CASE ChipTake
    <3>1. Head(h2c) \in Packet /\ h2c' \in Seq(Packet)
      BY <2>1, TakeTyped DEF ChipTake, TypePackets
    <3>2. StillUnacked(Head(h2c).ack) \in Seq(Packet)
      BY <3>1, StillUnackedTyped, ZenonT(60) DEF Packet, TypePackets
    <3>3. c2h' \in Seq(Packet) /\ unacked' \in Seq(Packet)
      <4>1. CASE ChipRecvLinkCtl
        BY <4>1, CtlTyped, <1>0, PutOneTyped DEF ChipRecvLinkCtl, LinkKinds, TypePackets
      <4>2. CASE ChipRecvAck
        BY <4>2, <3>2 DEF ChipRecvAck, TypePackets
      <4>3. CASE ChipExecute
        <5> DEFINE restart == chip.resets /\ Head(h2c).op = "OP_PATCH" /\ Head(h2c).idx >= 128
                   seq     == IF restart THEN 0 ELSE ctx
        <5>1. PICK st \in {0, 1} :
                LET cc == Frame("evt", seq, 0, Head(h2c).op, Head(h2c).idx, st)
                IN  /\ c2h' = Put(c2h, <<cc>>)
                    /\ unacked' = IF restart THEN <<cc>>
                                  ELSE Append(StillUnacked(Head(h2c).ack), cc)
          BY <4>3, Zenon DEF ChipExecute
        <5> DEFINE cc == Frame("evt", seq, 0, Head(h2c).op, Head(h2c).idx, st)
        <5> HIDE DEF restart
        <5>2. cc \in Packet
          <6>1. /\ Head(h2c).op \in Ops \cup {"none"} /\ Head(h2c).idx \in 0..255
                /\ 0 \in SEQ /\ seq \in SEQ
            BY <3>1, SMTT(30) DEF Packet, TypeNumbers, SEQ
          <6>2. QED
            BY <6>1, FrameTyped, ZenonT(60)
        <5>3. <<cc>> \in Seq(Packet) /\ Append(StillUnacked(Head(h2c).ack), cc) \in Seq(Packet)
          BY <5>2, <3>2, AppendProperties
        <5>4. Put(c2h, <<cc>>) \in Seq(Packet)
          BY <5>2, <1>0, PutOneTyped DEF TypePackets
        <5> HIDE DEF cc
        <5>5. QED
          BY <5>1, <5>3, <5>4 DEF cc
      <4>4. CASE ChipDuplicate
        BY <4>4, <3>2, CtlTyped, <1>0, PutOneTyped DEF ChipDuplicate, TypePackets, TypeNumbers
      <4>5. QED
        BY <1>13, <4>1, <4>2, <4>3, <4>4 DEF ChipReceives
    <3>4. QED
      BY <2>1, <3>1, <3>3 DEF ChipTake, TypePackets, hostvars, loopvars
  <2>2. QED
    BY <1>13, <2>1 DEF ChipReceives, ChipRecvLinkCtl, ChipRecvAck, ChipExecute, ChipDuplicate
<1>14. CASE ChipRetransmit
  <2>1. c2h' \in Seq(Packet)
    BY <1>14, <1>0, PutTyped DEF ChipRetransmit, TypePackets
  <2>2. QED
    BY <1>14, <2>1 DEF ChipRetransmit, TypePackets, hostvars, loopvars
<1>15. CASE ChipEvent
  <2>1. Frame("evt", ctx, 0, "none", 0, 0) \in Packet
    <3>1. ctx \in SEQ /\ 0 \in SEQ /\ 0 \in 0..255 /\ 0 \in {0, 1}
      BY SMT DEF TypeNumbers, SEQ
    <3>2. QED
      BY <3>1, FrameTyped
  <2>2. c2h' \in Seq(Packet) /\ unacked' \in Seq(Packet)
    BY <1>15, <2>1, <1>0, PutOneTyped, AppendProperties DEF ChipEvent, TypePackets
  <2>3. QED
    BY <1>15, <2>2 DEF ChipEvent, TypePackets, hostvars, loopvars
<1>16. CASE ChipLinkReq
  <2>1. c2h' \in Seq(Packet)
    BY <1>16, CtlTyped, <1>0, PutOneTyped DEF ChipLinkReq, LinkKinds, TypePackets
  <2>2. QED
    BY <1>16, <2>1 DEF ChipLinkReq, TypePackets, hostvars, loopvars, chipvars
<1>17. CASE ChipSetSpeed
  BY <1>17 DEF ChipSetSpeed, TypePackets, hostvars, loopvars
<1>18. CASE Finished
  BY <1>18 DEF Finished, TypePackets, vars, hostvars, loopvars, chipvars
<1>19. QED
  BY <1>1, <1>2, <1>3, <1>4, <1>5, <1>6, <1>7, <1>8, <1>9, <1>10, <1>11, <1>12, <1>13,
     <1>14, <1>15, <1>16, <1>17, <1>18 DEF Next, Host, HostSends, HostReceives, HostTimer,
     HostLoop, Chip

-----------------------------------------------------------------------------
LEMMA InitTyped == Init => TypeOK
<1> SUFFICES ASSUME Init PROVE TypeOK
  OBVIOUS
<1>1. TypeProgram
  <2>1. PICK c \in Chips : chip = c[1] /\ line = c[2]
    BY DEF Init
  <2>2. c = <<c[1], c[2]>>
    BY ChipsAssumption
  <2>3. <<chip, line>> \in Chips
    BY <2>1, <2>2, Zenon
  <2>4. QED
    BY <2>3 DEF Init, TypeProgram, LinkStates, Ops, LinkOps
<1>2. TypeFlags
  BY DEF Init, TypeFlags
<1>3. TypeNumbers
  BY DEF Init, TypeNumbers, SEQ
<1>4. TypePackets
  BY CtlTyped DEF Init, TypePackets, LinkKinds
<1>5. QED
  BY <1>1, <1>2, <1>3, <1>4 DEF TypeOK

LEMMA NextTyped == TypeOK /\ [Next]_vars => TypeOK'
<1>1. CASE UNCHANGED vars
  BY <1>1 DEF vars, hostvars, seqvars, cmdvars, dlvars, loopvars, progvars, chipvars,
       pipevars, budgets, TypeOK, TypeProgram, TypeFlags, TypeNumbers, TypePackets
<1>2. QED
  BY <1>1, ProgramInv, FlagsInv, NumbersInv, PacketsInv DEF TypeOK

(* Whatever the controller sends and the line loses, every variable keeps  *)
(* its type; in particular sequence numbers stay within three bits and the *)
(* index of the download within seven.                                     *)
THEOREM TypeCorrect == Spec => []TypeOK
  BY InitTyped, NextTyped, PTL DEF Spec

-----------------------------------------------------------------------------
(* Counting.                                                               *)

(* Until the download at most four commands are issued, so that their      *)
(* numbers do not wrap and a number alone tells an old event from the one  *)
(* awaited.                                                                *)
Preparing == op \in LinkOps \cup InitOps
Waiting   == pc \in {"poll", "batch", "exit"}

(* An upper bound on the commands completed when o is issued.              *)
Rank(o) == CASE o = "OP_LMP_VER" -> 0 [] o = "OP_ROM_VER" -> 1
             [] o = "OP_CHIP_TYPE" -> 2 [] OTHER -> 3

(* Packets that carry none but numbers already issued.                     *)
Commands(n) == {p \in Packet : p.kind = "cmd" => p.seq < n /\ p.op # "OP_PATCH"}
Events(n)   == {p \in Packet : p.kind = "evt" => p.seq < n}

(* Where the program is, and the state of its link then.                   *)
Stage ==
  /\ Preparing => pc \in {"issue", "poll", "batch", "exit"}
  /\ op \in LinkOps => link \in {"H5_SYNC", "H5_CONFIG", "H5_INIT"} /\ issued = 0
  /\ op \in InitOps => link = "H5_INIT"
  /\ op = "OP_PATCH" => \/ pc \in {"speed", "load"} /\ link = "H5_INIT"
                        \/ /\ pc \in {"issue", "poll", "batch", "exit"}
                           /\ link \in {"H5_PATCH", "H5_HCI_RESET", "H5_ACTIVE"}
  /\ op = "OP_HCI_RESET" => /\ pc \in {"issue", "poll", "batch", "exit", "done"}
                            /\ link \in {"H5_PATCH", "H5_HCI_RESET", "H5_ACTIVE"}

(* How many commands were issued, completed and counted.                   *)
Counts ==
  /\ msgq_txseq = issued % 8
  /\ op \in LinkOps => issued = 0 /\ completed = 0 /\ num_of_cmd_sent = 0
  /\ op \notin LinkOps => issued = completed + (IF Waiting THEN 1 ELSE 0)
  /\ op \in InitOps => /\ completed <= Rank(op)
                       /\ num_of_cmd_sent = completed + (IF Waiting /\ cmd_ok THEN 1 ELSE 0)
  /\ op = "OP_PATCH" /\ pc \in {"speed", "load"} => num_of_cmd_sent = completed
  /\ op = "OP_PATCH" /\ pc \notin {"speed", "load"} =>
       /\ total_num = TotalIdx(num_of_cmd_sent, chip.endIdx)
       /\ completed = num_of_cmd_sent + i /\ i <= total_num
  /\ op = "OP_HCI_RESET" =>
       /\ total_num = TotalIdx(num_of_cmd_sent, chip.endIdx)
       /\ completed = num_of_cmd_sent + total_num + (IF pc = "done" THEN 2 ELSE 1)

(* What is on the line, kept or unacknowledged before the download.        *)
Numbering ==
  Preparing =>
    /\ h2c \in Seq(Commands(issued)) /\ out \in Commands(issued)
    /\ c2h \in Seq(Events(issued)) /\ unacked \in Seq(Events(issued))
    /\ cexp = ctx

(* The event that completes the current command is the next one expected;  *)
(* once it has been accepted no event on the line is.                      *)
Expected ==
  Preparing =>
    /\ rxseq_txack \in {completed, completed + 1}
    /\ op \in LinkOps \/ pc = "issue" => rxseq_txack = completed
    /\ op \in InitOps /\ Waiting /\ cmd_ok => rxseq_txack = completed + 1

(* No controller sends anything unasked.                                   *)
Quiet == \A c \in Chips : c[2].noise = 0

IInv == Stage /\ Counts /\ Numbering /\ Expected

-----------------------------------------------------------------------------
(* More numbers issued, more packets allowed.                              *)
LEMMA Monotonic == ASSUME NEW n \in Nat
                   PROVE  /\ Commands(n) \subseteq Commands(n + 1)
                          /\ Events(n) \subseteq Events(n + 1)
                          /\ Seq(Commands(n)) \subseteq Seq(Commands(n + 1))
                          /\ Seq(Events(n)) \subseteq Seq(Events(n + 1))
<1>1. \A p \in Packet : p.seq < n => p.seq < n + 1
  BY DEF Packet, SEQ
<1>2. Commands(n) \subseteq Commands(n + 1) /\ Events(n) \subseteq Events(n + 1)
  BY <1>1, Zenon DEF Commands, Events
<1>3. QED
  BY <1>2, SeqMonotonic

LEMMA Subsets == \A n : Commands(n) \in SUBSET Packet /\ Events(n) \in SUBSET Packet
  BY DEF Commands, Events

(* Link control packets and acknowledgements are always allowed.           *)
LEMMA CtlAllowed ==
  \A n : /\ \A kind \in LinkKinds : LinkCtl(kind) \in Commands(n) \cap Events(n)
         /\ \A ack \in SEQ : PureAck(ack) \in Commands(n) \cap Events(n)
<1>1. \A kind \in LinkKinds : LinkCtl(kind).kind \notin {"cmd", "evt"}
  BY DEF LinkKinds, LinkCtl, Frame
<1>2. \A ack \in SEQ : PureAck(ack).kind = "ack"
  BY DEF PureAck, Frame
<1>3. QED
  BY <1>1, <1>2, CtlTyped DEF Commands, Events

-----------------------------------------------------------------------------
(* Everything IInv mentions but the line and the retained packet.          *)
countvars == <<chip, line, op, pc, link, issued, completed, num_of_cmd_sent, msgq_txseq,
               total_num, i, cmd_ok, rxseq_txack, cexp, ctx>>

(* A step that moves packets only.                                         *)
LEMMA PacketsOnly == ASSUME IInv, UNCHANGED countvars,
                            Preparing => Numbering'
                     PROVE  IInv'
<1>1. Stage' /\ Counts'
  BY DEF IInv, Stage, Counts, countvars, Preparing, Waiting
<1>2. Expected'
  BY DEF IInv, Expected, countvars, Preparing, Waiting
<1>3. Numbering'
  BY DEF IInv, Numbering, countvars, Preparing
<1>4. QED
  BY <1>1, <1>2, <1>3 DEF IInv

LEMMA InitIInv == Init => IInv
<1> SUFFICES ASSUME Init PROVE IInv
  OBVIOUS
<1>1. Stage /\ Counts /\ Expected
  BY DEF Init, Stage, Counts, Expected, Preparing, Waiting, LinkOps, InitOps
<1>2. Numbering
  BY CtlAllowed DEF Init, Numbering, LinkKinds
<1>3. QED
  BY <1>1, <1>2 DEF IInv

LEMMA SendLinkReqIInv == ASSUME TypeOK, IInv, SendLinkReq PROVE IInv'
<1>0. line \in Faults
  BY ChipTyped DEF TypeOK
<1>1. op \in LinkOps /\ Preparing /\ pc = "issue" /\ pc' = "poll"
  BY DEF SendLinkReq, Transmit, Preparing
<1>2. UNCHANGED <<chip, line, op, link, issued, completed, num_of_cmd_sent, msgq_txseq,
                  total_num, i, cmd_ok, rxseq_txack, c2h, unacked, cexp, ctx>>
  BY DEF SendLinkReq, Transmit, chipvars
<1>3. Stage' /\ Counts' /\ Expected'
  BY <1>1, <1>2 DEF IInv, Stage, Counts, Expected, Preparing, Waiting, LinkOps, InitOps
<1>4. out' \in Commands(issued) /\ h2c' = Put(h2c, <<out'>>)
  <2>1. /\ rxseq_txack \in SEQ /\ 0 \in SEQ /\ 0 \in 0..255 /\ 0 \in {0, 1}
    BY SMTT(30) DEF TypeOK, TypeNumbers, SEQ
  <2>2. Frame(IF op = "OP_H5_SYNC" THEN "sync" ELSE "conf", 0, rxseq_txack, "none", 0, 0)
          \in Commands(issued)
    BY <2>1, FrameTyped DEF Commands, Frame, LinkKinds
  <2>3. QED
    BY <2>2 DEF SendLinkReq, Transmit
<1>5. Numbering'
  BY <1>1, <1>2, <1>4, <1>0, PutOneTyped DEF IInv, Numbering, Preparing
<1>6. QED
  BY <1>3, <1>5 DEF IInv

LEMMA ReliableIInv == ASSUME TypeOK, IInv, SendCommand \/ SendPatch PROVE IInv'
<1>0. line \in Faults
  BY ChipTyped DEF TypeOK
<1>1. /\ pc = "issue" /\ pc' = "poll" /\ issued' = issued + 1
      /\ msgq_txseq' = Succ8(msgq_txseq) /\ op \in InitOps \cup {"OP_HCI_RESET", "OP_PATCH"}
      /\ op \in InitOps => cmd_ok' = FALSE
      /\ UNCHANGED <<chip, line, op, link, completed, num_of_cmd_sent, total_num, i, rxseq_txack,
                     c2h, unacked, cexp, ctx>>
  BY DEF SendCommand, SendPatch, Reliable, Transmit, chipvars, InitOps
<1>2. msgq_txseq' = issued' % 8
  <2>1. \A n \in Nat : ((n % 8) + 1) % 8 = (n + 1) % 8
    BY SMT
  <2>2. QED
    BY <1>1, <2>1 DEF IInv, Counts, Succ8, TypeOK, TypeNumbers
<1>3. Stage' /\ Counts' /\ Expected'
  BY <1>1, <1>2 DEF IInv, Stage, Counts, Expected, Preparing, Waiting, LinkOps, InitOps,
     TypeOK, TypeNumbers
<1>4. CASE op \in InitOps
  <2>1. issued <= 3 /\ msgq_txseq = issued
    BY <1>1, <1>4 DEF IInv, Counts, Rank, Waiting, TypeOK, TypeNumbers, InitOps, LinkOps
  <2>2. out' \in Commands(issued') /\ h2c' = Put(h2c, <<out'>>)
    <3>1. /\ rxseq_txack \in SEQ /\ msgq_txseq \in SEQ /\ 0 \in 0..255 /\ 0 \in {0, 1}
          /\ op \in Ops
      BY SMT DEF TypeOK, TypeNumbers, TypeProgram
    <3>2. Frame("cmd", msgq_txseq, rxseq_txack, op, 0, 0) \in Packet
      BY <3>1, FrameTyped
    <3>3. msgq_txseq < issued' /\ op # "OP_PATCH"
      BY <1>1, <1>4, <2>1 DEF InitOps, TypeOK, TypeNumbers
    <3>4. Frame("cmd", msgq_txseq, rxseq_txack, op, 0, 0) \in Commands(issued')
      BY <3>2, <3>3 DEF Commands, Frame
    <3>5. QED
      BY <3>4, <1>4 DEF SendCommand, SendPatch, Reliable, Transmit, InitOps
  <2>3. /\ h2c \in Seq(Commands(issued')) /\ c2h \in Seq(Events(issued'))
        /\ unacked \in Seq(Events(issued')) /\ cexp = ctx
    BY <1>1, <1>4, Monotonic DEF IInv, Numbering, Preparing, TypeOK, TypeNumbers
  <2>4. Numbering'
    BY <1>1, <2>2, <2>3, <1>0, PutOneTyped DEF Numbering
  <2>5. QED
    BY <1>3, <2>4 DEF IInv
<1>5. CASE op \notin InitOps
  <2>1. ~Preparing'
    BY <1>1, <1>5 DEF Preparing, LinkOps, InitOps
  <2>2. QED
    BY <1>3, <2>1 DEF IInv, Numbering
<1>6. QED
  BY <1>4, <1>5

-----------------------------------------------------------------------------
(* Receiving.                                                              *)
LEMMA RecvEventIInv == ASSUME TypeOK, IInv, RecvEvent PROVE IInv'
<1>0. line \in Faults
  BY ChipTyped DEF TypeOK
<1> DEFINE e == Head(c2h)
<1>1. /\ pc = "batch" /\ c2h # << >> /\ e.kind = "evt" /\ e.seq = rxseq_txack
      /\ c2h' = Tail(c2h) /\ rxseq_txack' = Succ8(rxseq_txack)
      /\ h2c' = Put(h2c, <<PureAck(Succ8(rxseq_txack))>>)
      /\ UNCHANGED <<chip, line, op, pc, issued, completed, msgq_txseq, total_num, i, out,
                     unacked, cexp, ctx>>
  BY DEF RecvEvent, TakePacket, Handling, chipvars, pipevars
<1>2. CASE Preparing
  <2>1. e \in Events(issued) /\ c2h' \in Seq(Events(issued))
    BY <1>1, <1>2, TakeTyped DEF IInv, Numbering
  <2>2. e.seq < issued
    BY <1>1, <2>1 DEF Events
  <2>3. /\ op \in InitOps /\ link = "H5_INIT" /\ issued = completed + 1 /\ completed <= 3
        /\ num_of_cmd_sent = completed + (IF cmd_ok THEN 1 ELSE 0)
        /\ rxseq_txack = completed /\ ~cmd_ok
    BY <1>1, <1>2, <2>2, SMTT(30) DEF IInv, Stage, Counts, Expected, Preparing, Waiting, Rank,
       TypeOK, TypeNumbers, InitOps, LinkOps, SEQ
  <2>4. rxseq_txack' = completed + 1
    BY <1>1, <2>3 DEF Succ8, TypeOK, TypeNumbers
  <2>5. /\ link' = "H5_INIT"
        /\ num_of_cmd_sent' = completed + (IF cmd_ok' THEN 1 ELSE 0)
    <3>1. \/ cmd_ok' = TRUE /\ num_of_cmd_sent' = num_of_cmd_sent + 1
          \/ cmd_ok' = FALSE /\ num_of_cmd_sent' = num_of_cmd_sent
      BY <2>3 DEF RecvEvent, HciRecvFrame, TypeOK, TypeFlags
    <3>2. link' = link
      BY <2>3 DEF RecvEvent, HciRecvFrame
    <3>3. QED
      BY <2>3, <3>1, <3>2 DEF TypeOK, TypeNumbers
  <2>6. Stage' /\ Counts' /\ Expected'
    BY <1>1, <1>2, <2>3, <2>4, <2>5 DEF IInv, Stage, Counts, Expected, Preparing, Waiting,
       LinkOps, InitOps, TypeOK, TypeNumbers
  <2>7. h2c' \in Seq(Commands(issued))
    <3>1. PureAck(Succ8(rxseq_txack)) \in Commands(issued)
      BY CtlAllowed, Succ8Typed DEF TypeOK, TypeNumbers
    <3>2. QED
      BY <1>1, <1>2, <3>1, <1>0, PutOneTyped DEF IInv, Numbering
  <2>8. Numbering'
    BY <1>1, <1>2, <2>1, <2>7 DEF IInv, Numbering
  <2>9. QED
    BY <2>6, <2>8 DEF IInv
<1>3. CASE ~Preparing
  <2>1. op \in {"OP_PATCH", "OP_HCI_RESET"}
    BY <1>3 DEF Preparing, TypeOK, TypeProgram, Ops
  <2>2. link \in {"H5_PATCH", "H5_HCI_RESET", "H5_ACTIVE"}
    BY <1>1, <2>1 DEF IInv, Stage
  <2>3. /\ link' \in {"H5_PATCH", "H5_HCI_RESET", "H5_ACTIVE"}
        /\ num_of_cmd_sent' = num_of_cmd_sent
    BY <2>2 DEF RecvEvent, HciRecvFrame
  <2>4. ~Preparing'
    BY <1>1, <1>3 DEF Preparing
  <2>5. Stage' /\ Counts'
    BY <1>1, <2>1, <2>3 DEF IInv, Stage, Counts, Preparing, Waiting, LinkOps, InitOps
  <2>6. QED
    BY <2>4, <2>5 DEF IInv, Numbering, Expected
<1>4. QED
  BY <1>2, <1>3

(* The other packets: only a link control packet changes the link state,   *)
(* and only an event out of order, during the download, the number.        *)
LEMMA RecvOtherIInv ==
  ASSUME TypeOK, IInv, RecvOutOfOrder \/ RecvLinkCtl \/ RecvAck PROVE IInv'
<1>0. line \in Faults
  BY ChipTyped DEF TypeOK
<1>1. /\ pc = "batch" /\ c2h # << >> /\ c2h' = Tail(c2h)
      /\ UNCHANGED <<chip, line, op, pc, issued, completed, num_of_cmd_sent, msgq_txseq,
                     total_num, i, cmd_ok, out, unacked, cexp, ctx>>
      /\ link # "H5_PATCH" => rxseq_txack' = rxseq_txack
      /\ link' # link => /\ link \in {"H5_SYNC", "H5_CONFIG"}
                         /\ link' \in {"H5_CONFIG", "H5_INIT"}
  BY DEF RecvOutOfOrder, RecvLinkCtl, RecvAck, TakePacket, Handling, chipvars, pipevars
<1>2. Stage' /\ Counts'
  BY <1>1 DEF IInv, Stage, Counts, Preparing, Waiting, LinkOps, InitOps
<1>3. CASE Preparing
  <2>1. link # "H5_PATCH"
    BY <1>3 DEF IInv, Stage, Preparing
  <2>2. Expected'
    BY <1>1, <2>1 DEF IInv, Expected, Preparing, Waiting
  <2>3. c2h' \in Seq(Events(issued))
    BY <1>1, <1>3, TakeTyped DEF IInv, Numbering
  <2>4. h2c' \in Seq(Commands(issued))
    <3>1. /\ AckOwed \in Seq(Commands(issued))
          /\ LinkReply(Head(c2h).kind) \in Seq(Commands(issued))
      BY CtlAllowed, LinkReplyIn DEF TypeOK, TypeNumbers
    <3>2. h2c \in Seq(Commands(issued))
      BY <1>3 DEF IInv, Numbering
    <3>3. QED
      BY <3>1, <3>2, <1>0, PutTyped DEF RecvOutOfOrder, RecvLinkCtl, RecvAck
  <2>5. Numbering'
    BY <1>1, <1>3, <2>3, <2>4 DEF IInv, Numbering
  <2>6. QED
    BY <1>2, <2>2, <2>5 DEF IInv
<1>4. CASE ~Preparing
  BY <1>1, <1>2, <1>4 DEF IInv, Expected, Numbering, Preparing
<1>5. QED
  BY <1>3, <1>4

-----------------------------------------------------------------------------
(* The rest of the wait loop, and what follows it.                         *)
LEMMA LoopIInv == ASSUME TypeOK, IInv, Poll \/ LoopAgain \/ RecvNothing \/ GiveUp \/ Expire
                  PROVE  IInv'
<1>1. /\ pc \in {"poll", "batch"} /\ pc' \in {"poll", "batch", "exit"}
      /\ UNCHANGED <<chip, line, op, link, issued, completed, num_of_cmd_sent, msgq_txseq,
                     total_num, i, cmd_ok, rxseq_txack, h2c, out, c2h, unacked, cexp, ctx>>
  BY DEF Poll, LoopAgain, RecvNothing, GiveUp, Expire, Handling, LoopBottom, seqvars,
     cmdvars, dlvars, loopvars, progvars, chipvars, pipevars
<1>2. QED
  BY <1>1 DEF IInv, Stage, Counts, Numbering, Expected, Preparing, Waiting

LEMMA RetransmitIInv == ASSUME TypeOK, IInv, Retransmit PROVE IInv'
<1>0. line \in Faults
  BY ChipTyped DEF TypeOK
<1>1. UNCHANGED countvars /\ UNCHANGED <<out, c2h, unacked>> /\ h2c' = Put(h2c, <<out>>)
  BY DEF Retransmit, countvars, seqvars, cmdvars, dlvars, progvars, chipvars, pipevars
<1>2. Preparing => Numbering'
  BY <1>1, <1>0, PutOneTyped DEF IInv, Numbering, Preparing, countvars
<1>3. QED
  BY <1>1, <1>2, PacketsOnly

LEMMA LinkReqDoneIInv == ASSUME TypeOK, IInv, LinkReqDone PROVE IInv'
<1>0. line \in Faults
  BY ChipTyped DEF TypeOK
<1>1. /\ pc = "batch" /\ op \in LinkOps /\ pc' = "issue"
      /\ \/ op = "OP_H5_SYNC" /\ op' = "OP_H5_CONFIG" /\ link = "H5_CONFIG"
         \/ op = "OP_H5_CONFIG" /\ op' = "OP_LMP_VER" /\ link = "H5_INIT"
      /\ h2c' \in {h2c, Put(h2c, <<PureAck(rxseq_txack)>>)}
      /\ UNCHANGED <<chip, line, link, issued, completed, num_of_cmd_sent, msgq_txseq,
                     total_num, i, rxseq_txack, out, c2h, unacked, cexp, ctx>>
  BY DEF LinkReqDone, LoopDone, LoopBottom, Proceed, Answered, NextOp, LinkOps, chipvars
<1>2. Stage' /\ Counts' /\ Expected'
  BY <1>1 DEF IInv, Stage, Counts, Expected, Preparing, Waiting, Rank, LinkOps, InitOps
<1>3. PureAck(rxseq_txack) \in Commands(issued)
  BY CtlAllowed DEF TypeOK, TypeNumbers
<1>4. Numbering'
  BY <1>1, <1>3, <1>0, PutOneTyped DEF IInv, Numbering, Preparing
<1>5. QED
  BY <1>2, <1>4 DEF IInv

LEMMA CommandDoneIInv == ASSUME TypeOK, IInv, CommandDone PROVE IInv'
<1>1. /\ pc = "batch" /\ op \in InitOps /\ cmd_ok /\ completed' = completed + 1
      /\ op' = NextOp(op, chip.typed, chip.baud)
      /\ pc' \in {"issue", "speed", "load"}
      /\ op' = "OP_PATCH" => pc' \in {"speed", "load"}
      /\ op' # "OP_PATCH" => pc' = "issue"
      /\ UNCHANGED <<chip, line, link, issued, num_of_cmd_sent, msgq_txseq, total_num, i,
                     rxseq_txack, h2c, out, c2h, unacked, cexp, ctx>>
  <2>1. op = "OP_SET_BAUD" => op' = "OP_PATCH"
    BY DEF CommandDone, Proceed, NextOp
  <2>2. QED
    BY <2>1 DEF CommandDone, LoopDone, LoopBottom, Proceed, Answered, InitOps, chipvars
<1>2. \/ op' \in InitOps /\ Rank(op') >= Rank(op) + 1
      \/ op' = "OP_PATCH"
  BY <1>1 DEF NextOp, InitOps, Rank
<1>3. /\ link = "H5_INIT" /\ issued = completed + 1 /\ completed <= Rank(op)
      /\ num_of_cmd_sent = completed + 1 /\ rxseq_txack = completed + 1
      /\ Preparing /\ msgq_txseq = issued % 8
  BY <1>1 DEF IInv, Stage, Counts, Expected, Preparing, Waiting, LinkOps, InitOps
<1>4. Stage' /\ Counts' /\ Expected'
  BY <1>1, <1>2, <1>3 DEF Stage, Counts, Expected, Preparing, Waiting, Rank, LinkOps,
     InitOps, TypeOK, TypeNumbers
<1>5. Numbering'
  BY <1>1, <1>3 DEF IInv, Numbering
<1>6. QED
  BY <1>4, <1>5 DEF IInv

LEMMA PatchDoneIInv == ASSUME TypeOK, IInv, PatchDone \/ ResetDone PROVE IInv'
<1>1. /\ pc = "batch" /\ completed' = completed + 1
      /\ UNCHANGED <<chip, line, link, issued, num_of_cmd_sent, msgq_txseq, total_num>>
      /\ \/ /\ op = "OP_PATCH" /\ pc' = "issue" /\ i' = i + 1
            /\ op' = IF i < total_num THEN "OP_PATCH" ELSE "OP_HCI_RESET"
         \/ op = "OP_HCI_RESET" /\ op' = op /\ pc' = "done" /\ i' = i
  BY DEF PatchDone, ResetDone, LoopDone, LoopBottom
<1>2. ~Preparing'
  BY <1>1 DEF Preparing, LinkOps, InitOps
<1>3. Stage' /\ Counts'
  BY <1>1 DEF IInv, Stage, Counts, Preparing, Waiting, LinkOps, InitOps, TypeOK, TypeNumbers
<1>4. QED
  BY <1>2, <1>3 DEF IInv, Numbering, Expected

LEMMA DownloadIInv == ASSUME TypeOK, IInv, SetSpeed \/ StartDownload PROVE IInv'
<1>1. op = "OP_PATCH"
  BY DEF SetSpeed, StartDownload, IInv, Stage, Preparing, TypeOK, TypeProgram, Ops
<1>2. /\ pc \in {"speed", "load"}
      /\ UNCHANGED <<chip, line, op, issued, completed, num_of_cmd_sent, msgq_txseq>>
      /\ \/ pc' = "load" /\ link' = link
         \/ /\ pc' = "issue" /\ link' = "H5_PATCH" /\ i' = 0
            /\ total_num' = TotalIdx(num_of_cmd_sent, chip.endIdx)
  BY DEF SetSpeed, StartDownload, seqvars, cmdvars, dlvars, pipevars
<1>3. chip.endIdx \in Nat
  BY ChipTyped, SMT DEF TypeOK, Device, MaxEndIdx
<1>4. TotalIdx(num_of_cmd_sent, chip.endIdx) \in Nat
  BY <1>3, TotalIdxNat DEF TypeOK, TypeNumbers
<1>5. ~Preparing'
  BY <1>1, <1>2 DEF Preparing, LinkOps, InitOps
<1>6. Stage' /\ Counts'
  BY <1>1, <1>2, <1>4 DEF IInv, Stage, Counts, Preparing, Waiting, LinkOps, InitOps,
     TypeOK, TypeNumbers
<1>7. QED
  BY <1>5, <1>6 DEF IInv, Numbering, Expected

-----------------------------------------------------------------------------
(* The line and the controller.                                            *)
LEMMA LoseIInv == ASSUME TypeOK, IInv, Lose PROVE IInv'
<1>1. UNCHANGED countvars /\ UNCHANGED <<out, unacked>>
  BY DEF Lose, countvars, hostvars, seqvars, cmdvars, dlvars, loopvars, progvars, chipvars,
     pipevars
<1>2. \/ h2c # << >> /\ h2c' = Tail(h2c) /\ c2h' = c2h
      \/ c2h # << >> /\ c2h' = Tail(c2h) /\ h2c' = h2c
  BY DEF Lose
<1>3. Preparing => Numbering'
  <2> SUFFICES ASSUME Preparing PROVE Numbering'
    OBVIOUS
  <2>1. h2c \in Seq(Commands(issued)) /\ c2h \in Seq(Events(issued))
    BY DEF IInv, Numbering
  <2>2. h2c' \in Seq(Commands(issued)) /\ c2h' \in Seq(Events(issued))
    BY <1>2, <2>1, TakeTyped
  <2>3. QED
    BY <1>1, <2>2 DEF IInv, Numbering, countvars
<1>4. QED
  BY <1>1, <1>3, PacketsOnly

(* A packet the controller does not execute: its answer is no event, and   *)
(* an acknowledgement it carries only shortens what is unacknowledged.     *)
LEMMA ChipAnswerIInv ==
  ASSUME TypeOK, IInv, ChipRecvLinkCtl \/ ChipRecvAck \/ ChipDuplicate PROVE IInv'
<1>0. line \in Faults
  BY ChipTyped DEF TypeOK
<1>1. /\ UNCHANGED countvars /\ UNCHANGED out
      /\ h2c # << >> /\ h2c' = Tail(h2c)
  BY DEF ChipRecvLinkCtl, ChipRecvAck, ChipDuplicate, ChipTake, countvars, hostvars, seqvars,
     cmdvars, dlvars, loopvars, progvars
<1>2. Preparing => Numbering'
  <2> SUFFICES ASSUME Preparing PROVE Numbering'
    OBVIOUS
  <2>1. /\ h2c \in Seq(Commands(issued)) /\ c2h \in Seq(Events(issued))
        /\ unacked \in Seq(Events(issued))
    BY DEF IInv, Numbering
  <2>2. h2c' \in Seq(Commands(issued)) /\ Head(h2c) \in Packet
    BY <1>1, <2>1, TakeTyped, Subsets
  <2>3. Head(h2c).ack \in SEQ
    BY <2>2 DEF Packet
  <2>4. StillUnacked(Head(h2c).ack) \in Seq(Events(issued))
    BY <2>1, <2>3, Subsets, StillUnackedTyped
  <2>5. unacked' \in Seq(Events(issued))
    BY <2>1, <2>4 DEF ChipRecvLinkCtl, ChipRecvAck, ChipDuplicate
  <2>6. c2h' \in Seq(Events(issued))
    <3>1. /\ Put(c2h, <<LinkCtl("syncresp")>>) \in Seq(Events(issued))
          /\ Put(c2h, <<LinkCtl("confresp")>>) \in Seq(Events(issued))
      BY <2>1, CtlAllowed, <1>0, PutOneTyped DEF LinkKinds
    <3>2. Put(c2h, <<PureAck(cexp)>>) \in Seq(Events(issued))
      BY <2>1, CtlAllowed, <1>0, PutOneTyped DEF TypeOK, TypeNumbers
    <3>3. QED
      BY <2>1, <3>1, <3>2 DEF ChipRecvLinkCtl, ChipRecvAck, ChipDuplicate
  <2>7. QED
    BY <1>1, <2>2, <2>5, <2>6 DEF IInv, Numbering, countvars
<1>3. QED
  BY <1>1, <1>2, PacketsOnly

LEMMA ChipExecuteIInv == ASSUME TypeOK, IInv, ChipExecute PROVE IInv'
<1>0. line \in Faults
  BY ChipTyped DEF TypeOK
<1> DEFINE p == Head(h2c)
<1>1. /\ UNCHANGED <<chip, line, op, pc, link, issued, completed, num_of_cmd_sent, msgq_txseq,
                     total_num, i, cmd_ok, rxseq_txack, out>>
      /\ h2c # << >> /\ h2c' = Tail(h2c) /\ p.kind = "cmd" /\ p.seq = cexp
      /\ cexp' = Succ8(cexp)
  BY DEF ChipExecute, ChipTake, hostvars, seqvars, cmdvars, dlvars, loopvars, progvars
<1>2. Stage' /\ Counts' /\ Expected'
  BY <1>1 DEF IInv, Stage, Counts, Expected, Preparing, Waiting
<1>3. CASE Preparing
  <2>1. /\ p \in Commands(issued) /\ h2c' \in Seq(Commands(issued)) /\ p \in Packet
        /\ c2h \in Seq(Events(issued)) /\ unacked \in Seq(Events(issued)) /\ cexp = ctx
    BY <1>1, <1>3, TakeTyped, Subsets DEF IInv, Numbering
  <2>2. ctx < issued /\ p.op # "OP_PATCH"
    BY <1>1, <2>1 DEF Commands
  <2>3. PICK st \in {0, 1} :
          LET cc == Frame("evt", ctx, 0, p.op, p.idx, st)
          IN  /\ ctx' = Succ8(ctx) /\ c2h' = Put(c2h, <<cc>>)
              /\ unacked' = Append(StillUnacked(p.ack), cc)
    BY <2>2 DEF ChipExecute
  <2> DEFINE cc == Frame("evt", ctx, 0, p.op, p.idx, st)
  <2>4. cc \in Packet
    <3>1. p.op \in Ops \cup {"none"} /\ p.idx \in 0..255
      BY <2>1 DEF Packet
    <3>2. ctx \in SEQ /\ 0 \in SEQ
      BY SMT DEF TypeOK, TypeNumbers, SEQ
    <3>3. QED
      BY <3>1, <3>2, FrameTyped, ZenonT(60)
  <2>5. cc \in Events(issued)
    BY <2>2, <2>4 DEF Events, Frame
  <2>6. c2h' \in Seq(Events(issued))
    BY <2>1, <2>3, <2>5, <1>0, PutOneTyped
  <2>7. unacked' \in Seq(Events(issued))
    <3>1. p.ack \in SEQ
      BY <2>1 DEF Packet
    <3>2. StillUnacked(p.ack) \in Seq(Events(issued))
      BY <2>1, <3>1, Subsets, StillUnackedTyped
    <3>3. QED
      BY <2>3, <2>5, <3>2, AppendProperties
  <2>8. Numbering'
    BY <1>1, <1>3, <2>1, <2>3, <2>6, <2>7 DEF IInv, Numbering
  <2>9. QED
    BY <1>2, <2>8 DEF IInv
<1>4. CASE ~Preparing
  BY <1>1, <1>2, <1>4 DEF IInv, Numbering, Preparing
<1>5. QED
  BY <1>3, <1>4

(* What the controller does of its own accord, when it sends nothing       *)
(* unasked.                                                                *)
LEMMA ChipAloneIInv ==
  ASSUME TypeOK, IInv, ChipRetransmit \/ ChipLinkReq \/ ChipSetSpeed PROVE IInv'
<1>0. line \in Faults
  BY ChipTyped DEF TypeOK
<1>1. /\ UNCHANGED countvars /\ UNCHANGED <<out, h2c, unacked>>
  BY DEF ChipRetransmit, ChipLinkReq, ChipSetSpeed, countvars, hostvars, seqvars,
     cmdvars, dlvars, loopvars, progvars, pipevars, chipvars
<1>2. Preparing => Numbering'
  <2> SUFFICES ASSUME Preparing PROVE Numbering'
    OBVIOUS
  <2>1. c2h \in Seq(Events(issued)) /\ unacked \in Seq(Events(issued))
    BY DEF IInv, Numbering
  <2>2. /\ Put(c2h, unacked) \in Seq(Events(issued))
        /\ \A kind \in LinkKinds : Put(c2h, <<LinkCtl(kind)>>) \in Seq(Events(issued))
    BY <2>1, CtlAllowed, <1>0, PutTyped, <1>0, PutOneTyped
  <2>3. c2h' \in Seq(Events(issued))
    BY <2>1, <2>2 DEF ChipRetransmit, ChipLinkReq, ChipSetSpeed, LinkKinds
  <2>4. QED
    BY <1>1, <2>3 DEF IInv, Numbering, countvars
<1>3. QED
  BY <1>1, <1>2, PacketsOnly

LEMMA UnchangedIInv == ASSUME TypeOK, IInv, UNCHANGED vars PROVE IInv'
<1>1. /\ UNCHANGED countvars /\ UNCHANGED <<out, h2c, c2h, unacked>>
  BY DEF vars, countvars, hostvars, seqvars, cmdvars, dlvars, loopvars, progvars, pipevars,
     chipvars
<1>2. Preparing => Numbering'
  BY <1>1 DEF IInv, Numbering, Preparing, countvars
<1>3. QED
  BY <1>1, <1>2, PacketsOnly

-----------------------------------------------------------------------------
LEMMA NextIInv == ASSUME Quiet, TypeOK, IInv, [Next]_vars PROVE IInv'
<1>1. CASE HostSends
  BY <1>1, SendLinkReqIInv, ReliableIInv DEF HostSends
<1>2. CASE HostReceives \/ HostTimer \/ Expire
  BY <1>2, RecvEventIInv, RecvOtherIInv, LoopIInv, RetransmitIInv DEF HostReceives, HostTimer
<1>3. CASE HostLoop
  BY <1>3, LoopIInv, LinkReqDoneIInv, CommandDoneIInv, PatchDoneIInv, DownloadIInv
     DEF HostLoop
<1>4. CASE Lose
  BY <1>4, LoseIInv
<1>5. CASE ChipReceives
  BY <1>5, ChipAnswerIInv, ChipExecuteIInv DEF ChipReceives
<1>6. CASE ChipEvent
  <2>1. line.noise = 0
    BY DEF Quiet, TypeOK, TypeProgram
  <2>2. QED
    BY <1>6, <2>1 DEF ChipEvent, TypeOK, TypeNumbers
<1>7. CASE ChipRetransmit \/ ChipLinkReq \/ ChipSetSpeed
  BY <1>7, ChipAloneIInv
<1>8. CASE Finished \/ UNCHANGED vars
  BY <1>8, UnchangedIInv DEF Finished
<1>9. QED
  BY <1>1, <1>2, <1>3, <1>4, <1>5, <1>6, <1>7, <1>8 DEF Next, Host, Chip

LEMMA CountInvariance == ASSUME Quiet PROVE Spec => [](TypeOK /\ IInv)
<1>1. Init => TypeOK /\ IInv
  BY InitTyped, InitIInv
<1>2. (TypeOK /\ IInv) /\ [Next]_vars => (TypeOK /\ IInv)'
  BY NextTyped, NextIInv
<1>3. QED
  BY <1>1, <1>2, PTL DEF Spec

(* No completion is counted twice and none is missed (h5_init_hci_cc),     *)
(* although a command may be sent again whose answer is already on the     *)
(* line: for a controller that sends nothing unasked, any losses.          *)
THEOREM CountExact == ASSUME Quiet PROVE Spec => []CountedOnce
<1>1. TypeOK /\ IInv => CountedOnce
  <2> SUFFICES ASSUME TypeOK, IInv, op \in InitOps, pc # "exit" PROVE CountedOnce
    BY DEF CountedOnce
  <2>1. pc \in {"issue", "poll", "batch"}
    BY DEF IInv, Stage, Preparing
  <2>2. QED
    BY <2>1 DEF IInv, Counts, CountedOnce, Waiting
<1>2. QED
  BY <1>1, CountInvariance, PTL

(* The packets added to the download do what they are added for            *)
(* (rtb_download_fwc: "Make sure the next seqno is zero after download     *)
(* patch and hci reset"): whatever the size of the firmware, the commands  *)
(* before it and the losses on the line.                                   *)
THEOREM SeqAligned == ASSUME Quiet PROVE Spec => []NextSeqZero
<1>1. TypeOK /\ IInv => NextSeqZero
  <2> SUFFICES ASSUME TypeOK, IInv, pc = "done" PROVE msgq_txseq = 0
    BY DEF NextSeqZero
  <2>1. op = "OP_HCI_RESET"
    BY DEF IInv, Stage, Preparing, TypeOK, TypeProgram, Ops
  <2>2. /\ completed = num_of_cmd_sent + TotalIdx(num_of_cmd_sent, chip.endIdx) + 2
        /\ issued = completed /\ msgq_txseq = issued % 8
    <3>1. op \notin LinkOps /\ ~Waiting
      BY <2>1 DEF LinkOps, Waiting
    <3>2. QED
      BY <2>1, <3>1 DEF IInv, Counts, TypeOK, TypeNumbers
  <2>3. chip.endIdx \in Nat
    BY ChipTyped, SMT DEF TypeOK, Device, MaxEndIdx
  <2>4. QED
    BY <2>2, <2>3, PaddingAligns DEF TypeOK, TypeNumbers
<1>2. QED
  BY <1>1, CountInvariance, PTL
-----------------------------------------------------------------------------
(* The command pipe: that the link implements CmdPipe, for every set of    *)
(* controllers that send nothing unasked.  Each command is issued,         *)
(* executed and completed once, in that order, and no refusal is taken for *)
(* a completion.                                                           *)

CaughtUp  == executed = issued                     \* nothing left to execute
Completed == op \notin LinkOps /\ (Waiting => Answered)

(* No member of B behind a member of A.                                    *)
NoneAfter(w, A, B) == \A j, k \in 1..Len(w) : j < k /\ w[j] \in A => w[k] \notin B

(* Commands on the line: those the controller has executed, the one it has *)
(* not, by their number and by what is known of them.                      *)
Idle    == {p \in Packet : p.kind # "cmd"}
Due     == {p \in Packet : p.kind = "cmd" /\ p.seq = cexp}
Spent   == {p \in Packet : p.kind = "cmd" /\ Succ8(p.seq) = cexp}
Current == {p \in Packet : p.kind = "cmd" /\ p = out /\ ~CaughtUp}

(* Events: the completion of the current command, and those of the one     *)
(* before it, which is told apart by its number and by its content.        *)
Precedes(e) ==
  IF op = "OP_PATCH"
  THEN IF i > 0 THEN e.op = "OP_PATCH" /\ e.idx = CurrIdx(i - 1, total_num)
       ELSE e.op \in InitOps
  ELSE e.op # op

Other == {e \in Packet : e.kind # "evt"}
Fresh == {e \in Packet : /\ e.kind = "evt" /\ CaughtUp /\ e.op = out.op /\ e.idx = out.idx
                         /\ Succ8(e.seq) = ctx /\ (refused => e.st = 1)}
Stale == {e \in Packet : /\ e.kind = "evt" /\ Waiting /\ op \notin LinkOps
                         /\ Succ8(e.seq) = out.ack /\ Precedes(e)}

CmdsOn(w)  == /\ w \in Seq(Idle \cup Spent \cup Current)
              /\ NoneAfter(w, Due, Spent)
EvtsOn(w)  == /\ w \in Seq(Other \cup Fresh \cup Stale)
              /\ NoneAfter(w, Fresh, Stale)
              /\ Completed => w \in Seq(Other \cup Fresh)
Retains(w) == w \in Seq(IF CaughtUp THEN Fresh ELSE Stale) /\ Len(w) <= 1

(* The controller has executed all that was issued, or all but the command *)
(* the host waits for, and awaits the next one.                            *)
Sync ==
  \/ CaughtUp /\ cexp = msgq_txseq
  \/ /\ issued = executed + 1 /\ Waiting /\ op \notin LinkOps
     /\ msgq_txseq = Succ8(cexp) /\ out.ack = ctx /\ ~refused

(* The packet kept for retransmission is the current command or, where     *)
(* none is awaited, the one before.                                        *)
Kept ==
  /\ op \in LinkOps => out.op = "none"
  /\ Waiting /\ op \notin LinkOps =>
       /\ out.kind = "cmd" /\ out.op = op /\ Succ8(out.seq) = msgq_txseq
       /\ op # "OP_PATCH" => cmd_opcode = op
       /\ op = "OP_PATCH" => out.idx = CurrIdx(i, total_num) /\ tx_index = out.idx % 128
  /\ op = "OP_PATCH" /\ pc \in {"speed", "load"} => out.op \in InitOps /\ completed <= 4
  /\ pc = "issue" =>
       /\ op \in InitOps => out.op # op
       /\ op = "OP_PATCH" /\ i > 0 => /\ out.op = "OP_PATCH" /\ rx_index = out.idx % 128
                                      /\ out.idx = CurrIdx(i - 1, total_num)
       /\ op = "OP_PATCH" /\ i = 0 => out.op \in InitOps /\ rx_index = -1 /\ link = "H5_PATCH"
       /\ op = "OP_HCI_RESET" => out.op = "OP_PATCH"
  /\ op \in {"OP_PATCH", "OP_HCI_RESET"} /\ pc \notin {"speed", "load"} => total_num >= 1

(* A command is completed by its own event only, once it was executed.     *)
Settled ==
  Completed =>
    /\ CaughtUp /\ rxseq_txack = ctx /\ ~refused
    /\ op = "OP_HCI_RESET" \/ (op = "OP_PATCH" /\ Waiting /\ i = total_num) =>
         link # "H5_PATCH"

(* The first packet's index does not tell it from the commands before, but *)
(* none of their events is accepted any more.                              *)
FirstPacket ==
  op = "OP_PATCH" /\ Waiting /\ i = 0 /\ ~Answered =>
    rxseq_txack = out.ack /\ link = "H5_PATCH"

Refused == refused => Waiting /\ CaughtUp /\ op \in InitOps \cup {"OP_HCI_RESET"}

PInv == /\ Sync /\ Kept /\ Settled /\ FirstPacket /\ Refused
        /\ CmdsOn(h2c) /\ EvtsOn(c2h) /\ Retains(unacked)

-----------------------------------------------------------------------------
(* Sequence numbers and indices.                                           *)
LEMMA Succ8Steps == \A m, n \in SEQ : /\ Succ8(n) # n
                                      /\ Succ8(m) = Succ8(n) => m = n
                                      /\ m = Succ8(n) => (m + 8 - n) % 8 = 1
  BY SMT DEF SEQ, Succ8

(* Without its bit 7 an index differs from the one before it, ...          *)
LEMMA IndexLow == ASSUME NEW n \in Nat, NEW total \in Nat
                  PROVE  CurrIdx(n, total) % 128 = RollOver(n) % 128
<1>1. RollOver(n) \in 0..128
  BY SMT DEF RollOver
<1>2. \A j \in 0..128 : OrBit7(j) % 128 = j % 128
  BY SMT DEF OrBit7
<1>3. QED
  BY <1>1, <1>2 DEF CurrIdx

LEMMA IndexChanges == ASSUME NEW n \in Nat, n > 0, NEW total \in Nat
                      PROVE  CurrIdx(n, total) % 128 # CurrIdx(n - 1, total) % 128
<1>1. RollOver(n) % 128 # RollOver(n - 1) % 128
  BY SMT DEF RollOver
<1>2. n - 1 \in Nat
  BY SMT
<1>3. QED
  BY <1>1, <1>2, IndexLow

(* ... and no packet but the last has the number of the last for index.    *)
LEMMA IndexOfLast == ASSUME NEW n \in Nat, NEW total \in Nat, n < total
                     PROVE  CurrIdx(n, total) % 128 # total
<1>1. RollOver(n) % 128 # total
  BY SMT DEF RollOver
<1>2. QED
  BY <1>1, IndexLow

LEMMA LastMarked == ASSUME NEW total \in Nat PROVE CurrIdx(total, total) >= 128
<1>1. RollOver(total) \in 0..128
  BY SMT DEF RollOver
<1>2. \A j \in 0..128 : OrBit7(j) >= 128
  BY SMT DEF OrBit7
<1>3. QED
  BY <1>1, <1>2 DEF CurrIdx

LEMMA SomePackets == ASSUME NEW num \in 0..4, NEW end \in Nat
                     PROVE  TotalIdx(num, end) >= 1
  BY SMT DEF TotalIdx, AddPkts

-----------------------------------------------------------------------------
(* A wire: what Put and the reader do to it.                               *)
LEMMA PutPrefix ==
  ASSUME line \in Faults, NEW S, NEW w \in Seq(S), NEW ps \in Seq(S)
  PROVE  /\ Put(w, ps) \in Seq(S) /\ Len(Put(w, ps)) \in 0..(Len(w) + Len(ps))
         /\ \A k \in 1..Len(Put(w, ps)) :
              Put(w, ps)[k] = IF k <= Len(w) THEN w[k] ELSE ps[k - Len(w)]
<1>1. /\ w \o ps \in Seq(S) /\ Len(w \o ps) = Len(w) + Len(ps)
      /\ Len(w) \in Nat /\ Len(ps) \in Nat
      /\ \A k \in 1..(Len(w) + Len(ps)) :
           (w \o ps)[k] = IF k <= Len(w) THEN w[k] ELSE ps[k - Len(w)]
  BY ConcatProperties, LenProperties
<1> DEFINE n == IF Len(w) + Len(ps) <= line.cap THEN Len(w) + Len(ps) ELSE line.cap
<1>2. n \in Nat /\ n <= Len(w) + Len(ps)
  BY <1>1 DEF Faults
<1>3. /\ Len(SubSeq(w \o ps, 1, n)) = n
      /\ \A k \in 1..n : SubSeq(w \o ps, 1, n)[k] = (w \o ps)[k]
  BY <1>1, <1>2
<1>4. CASE hfast # cfast
  BY <1>1, <1>4 DEF Put
<1>5. CASE hfast = cfast
  <2>1. Put(w, ps) = SubSeq(w \o ps, 1, n)
    BY <1>5, Zenon DEF Put
  <2>2. Put(w, ps) \in Seq(S)
    BY PutTyped
  <2> HIDE DEF n
  <2>3. QED
    BY <1>1, <1>2, <1>3, <2>1, <2>2
<1>6. QED
  BY <1>4, <1>5

LEMMA NoneAfterPut ==
  ASSUME line \in Faults, NEW S, NEW w \in Seq(S), NEW ps \in Seq(S), NEW A, NEW B,
         NoneAfter(w, A, B), \A k \in 1..Len(ps) : ps[k] \notin B
  PROVE  NoneAfter(Put(w, ps), A, B)
<1>1. Len(w) \in Nat /\ Len(ps) \in Nat
  BY LenProperties
<1> DEFINE v == Put(w, ps)
<1>2. /\ Len(v) \in 0..(Len(w) + Len(ps))
      /\ \A k \in 1..Len(v) : v[k] = IF k <= Len(w) THEN w[k] ELSE ps[k - Len(w)]
  BY PutPrefix
<1> HIDE DEF v
<1>3. ASSUME NEW j \in 1..Len(v), NEW k \in 1..Len(v), j < k, v[j] \in A PROVE v[k] \notin B
  <2>1. CASE k <= Len(w)
    BY <1>1, <1>2, <1>3, <2>1 DEF NoneAfter
  <2>2. CASE k > Len(w)
    <3>1. k - Len(w) \in 1..Len(ps) /\ v[k] = ps[k - Len(w)]
      BY <1>1, <1>2, <2>2
    <3>2. QED
      BY <3>1
  <2>3. QED
    BY <1>1, <2>1, <2>2
<1>4. QED
  BY <1>3 DEF NoneAfter, v

LEMMA SeqOfElements == ASSUME NEW S, NEW T, NEW w \in Seq(S), \A k \in 1..Len(w) : w[k] \in T
                       PROVE  w \in Seq(T)
<1>1. Len(w) \in Nat /\ w \in [1..Len(w) -> S]
  BY LenProperties
<1>2. w \in [1..Len(w) -> T]
  BY <1>1
<1>3. QED
  BY <1>1, <1>2, SeqDef

LEMMA NoneAfterTail ==
  ASSUME NEW S, NEW w \in Seq(S), w # << >>, NEW A, NEW B, NoneAfter(w, A, B)
  PROVE  /\ NoneAfter(Tail(w), A, B)
         /\ Head(w) \in A => Tail(w) \in Seq(S \ B)
<1>1. /\ Len(w) \in Nat /\ Len(w) > 0 /\ Len(Tail(w)) = Len(w) - 1 /\ Head(w) = w[1]
      /\ \A k \in 1..Len(Tail(w)) : Tail(w)[k] = w[k + 1]
      /\ Tail(w) \in Seq(S)
  BY LenProperties, EmptySeq, HeadTailProperties
<1>2. NoneAfter(Tail(w), A, B)
  BY <1>1 DEF NoneAfter
<1>3. ASSUME Head(w) \in A PROVE Tail(w) \in Seq(S \ B)
  <2>1. \A k \in 1..Len(Tail(w)) : Tail(w)[k] \in S \ B
    <3> TAKE k \in 1..Len(Tail(w))
    <3>1. 1 \in 1..Len(w) /\ k + 1 \in 1..Len(w) /\ 1 < k + 1
      BY <1>1
    <3>2. w[k + 1] \notin B
      BY <1>1, <1>3, <3>1 DEF NoneAfter
    <3>3. QED
      BY <1>1, <3>2, ElementOfSeq
  <2>2. QED
    BY <1>1, <2>1, SeqOfElements
<1>4. QED
  BY <1>2, <1>3

LEMMA NoneAfterNone == ASSUME NEW S, NEW w \in Seq(S), NEW A, NEW B,
                              S \cap A = {} \/ S \cap B = {}
                       PROVE  NoneAfter(w, A, B)
<1>1. \A k \in 1..Len(w) : w[k] \in S
  BY ElementOfSeq
<1>2. QED
  BY <1>1 DEF NoneAfter

-----------------------------------------------------------------------------
(* What those packets are.                                                 *)
LEMMA Members == /\ Idle \subseteq Packet /\ Spent \subseteq Packet /\ Current \subseteq Packet
                 /\ Other \subseteq Packet /\ Fresh \subseteq Packet /\ Stale \subseteq Packet
                 /\ Idle \cap Due = {} /\ Idle \cap Spent = {}
                 /\ Other \cap Fresh = {} /\ Other \cap Stale = {}
                 /\ CaughtUp => Current = {}
                 /\ ~CaughtUp => Fresh = {}
                 /\ op \in LinkOps \/ ~Waiting => Stale = {}
  BY DEF Idle, Spent, Current, Due, Other, Fresh, Stale

LEMMA CtlAnyTime == /\ \A kind \in LinkKinds : LinkCtl(kind) \in Idle \cap Other
                    /\ \A ack \in SEQ : PureAck(ack) \in Idle \cap Other
<1>1. \A kind \in LinkKinds : LinkCtl(kind).kind \notin {"cmd", "evt"}
  BY DEF LinkKinds, LinkCtl, Frame
<1>2. \A ack \in SEQ : PureAck(ack).kind = "ack"
  BY DEF PureAck, Frame
<1>3. QED
  BY <1>1, <1>2, CtlTyped DEF Idle, Other

LEMMA SpentNotDue == ASSUME TypeOK PROVE Spent \cap Due = {}
<1>1. \A p \in Packet : p.seq \in SEQ /\ Succ8(p.seq) # p.seq
  BY Succ8Steps DEF Packet
<1>2. QED
  BY <1>1 DEF Spent, Due

(* The event awaited is not mistaken for one of the command before.        *)
LEMMA Disjoint == ASSUME TypeOK, IInv, Kept PROVE Fresh \cap Stale = {}
<1> SUFFICES ASSUME NEW e \in Packet, Waiting, op \notin LinkOps, Precedes(e),
                    e.op = out.op, e.idx = out.idx
             PROVE  FALSE
  BY DEF Fresh, Stale
<1>1. out.op = op
  BY DEF Kept
<1>2. CASE op = "OP_PATCH"
  <2>1. out.idx = CurrIdx(i, total_num) /\ i \in Nat /\ total_num \in Nat
    BY <1>2 DEF Kept, TypeOK, TypeNumbers
  <2>2. CASE i > 0
    <3>1. e.idx = CurrIdx(i - 1, total_num)
      BY <1>2, <2>2 DEF Precedes
    <3>2. QED
      BY <2>1, <2>2, <3>1, IndexChanges
  <2>3. CASE i = 0
    BY <1>1, <1>2, <2>3 DEF Precedes, InitOps
  <2>4. QED
    BY <2>1, <2>2, <2>3
<1>3. CASE op # "OP_PATCH"
  BY <1>1, <1>3 DEF Precedes
<1>4. QED
  BY <1>2, <1>3

(* Until the first command nothing has been issued and no event was sent.  *)
LEMMA LinkPhase ==
  ASSUME TypeOK, IInv, PInv, op \in LinkOps
  PROVE  /\ CaughtUp /\ h2c \in Seq(Idle) /\ c2h \in Seq(Other) /\ unacked = << >>
         /\ rxseq_txack = ctx /\ cexp = msgq_txseq /\ ~refused /\ ~Completed /\ Stale = {}
<1>1. CaughtUp /\ cexp = msgq_txseq /\ ~Completed /\ ~refused
  BY DEF PInv, Sync, Refused, Completed, LinkOps, InitOps
<1>2. issued = 0 /\ completed = 0 /\ msgq_txseq = 0 /\ Preparing
  <2>1. 0 % 8 = 0
    BY SMT
  <2>2. QED
    BY <2>1 DEF IInv, Counts, Preparing
<1>3. rxseq_txack = 0 /\ ctx = cexp
  BY <1>2 DEF IInv, Expected, Numbering
<1>4. Commands(0) \subseteq Idle /\ Events(0) \subseteq Other
  BY DEF Commands, Events, Idle, Other, Packet, SEQ
<1>5. h2c \in Seq(Idle) /\ c2h \in Seq(Other) /\ unacked \in Seq(Other)
  BY <1>2, <1>4, SeqMonotonic DEF IInv, Numbering
<1>6. unacked = << >>
  <2>1. unacked \in Seq(Fresh) /\ (\A e \in Fresh : e \notin Other)
    BY <1>1, Members DEF PInv, Retains
  <2>2. SUFFICES ASSUME unacked # << >> PROVE FALSE
    OBVIOUS
  <2>3. Head(unacked) \in Fresh /\ Head(unacked) \in Other
    BY <1>5, <2>1, <2>2, HeadTailProperties
  <2>4. QED
    BY <2>1, <2>3
<1>7. QED
  BY <1>1, <1>2, <1>3, <1>5, <1>6, Members

-----------------------------------------------------------------------------
(* What the line and the controller may do to the packets.                 *)
LEMMA CmdsOnTail == ASSUME NEW w, CmdsOn(w), w # << >> PROVE CmdsOn(Tail(w))
  BY TakeTyped, NoneAfterTail DEF CmdsOn

LEMMA CmdsOnPut == ASSUME TypeOK, NEW w, CmdsOn(w), NEW ps \in Seq(Idle) PROVE CmdsOn(Put(w, ps))
<1>0. line \in Faults
  BY ChipTyped DEF TypeOK
<1> DEFINE S == Idle \cup Spent \cup Current
<1>1. ps \in Seq(S) /\ \A k \in 1..Len(ps) : ps[k] \notin Spent
  BY SeqMonotonic, ElementOfSeq, Members
<1>2. w \in Seq(S) /\ NoneAfter(w, Due, Spent)
  BY DEF CmdsOn
<1>3. Put(w, ps) \in Seq(S)
  BY <1>0, <1>1, <1>2, PutTyped
<1>4. NoneAfter(Put(w, ps), Due, Spent)
  BY <1>0, <1>1, <1>2, NoneAfterPut
<1>5. QED
  BY <1>3, <1>4 DEF CmdsOn

(* The kept packet sent again.                                             *)
LEMMA CmdsOnResend == ASSUME TypeOK, IInv, PInv, Waiting PROVE CmdsOn(Put(h2c, <<out>>))
<1>0. line \in Faults /\ out \in Packet /\ cexp \in SEQ
  BY ChipTyped DEF TypeOK, TypePackets, TypeNumbers
<1> DEFINE S == Idle \cup Spent \cup Current
<1>1. h2c \in Seq(S) /\ NoneAfter(h2c, Due, Spent)
  BY DEF PInv, CmdsOn
<1>2. CASE op \in LinkOps
  <2>1. out.kind # "cmd"
    <3>1. out \in Commands(0)
      BY <1>2 DEF IInv, Numbering, Counts, Preparing
    <3>2. QED
      BY <3>1 DEF Commands, Packet, SEQ
  <2>2. <<out>> \in Seq(Idle)
    BY <1>0, <2>1 DEF Idle
  <2>3. QED
    BY <2>2, CmdsOnPut DEF PInv
<1>3. CASE op \notin LinkOps
  <2>1. out.kind = "cmd" /\ Succ8(out.seq) = msgq_txseq /\ out.seq \in SEQ
    BY <1>0, <1>3 DEF PInv, Kept, Packet
  <2>2. CASE CaughtUp
    <3>1. out \in Spent
      BY <1>0, <2>1, <2>2 DEF PInv, Sync, Spent, CaughtUp, TypeOK, TypeNumbers
    <3>2. h2c \in Seq(Idle \cup Spent)
      BY <1>1, <2>2, Members
    <3>3. (Idle \cup Spent) \cap Due = {}
      BY Members, SpentNotDue
    <3>4. Put(h2c, <<out>>) \in Seq(Idle \cup Spent)
      BY <1>0, <3>1, <3>2, PutOneTyped
    <3>5. NoneAfter(Put(h2c, <<out>>), Due, Spent)
      BY <3>3, <3>4, NoneAfterNone
    <3>6. QED
      BY <3>4, <3>5, SeqMonotonic DEF CmdsOn
  <2>3. CASE ~CaughtUp
    <3>1. out \in Current /\ out.seq = cexp
      BY <1>0, <2>1, <2>3, Succ8Steps DEF PInv, Sync, Current
    <3>2. out \notin Spent
      BY <1>0, <3>1, SpentNotDue DEF Due, Current
    <3>3. <<out>> \in Seq(S) /\ \A k \in 1..Len(<<out>>) : <<out>>[k] \notin Spent
      BY <3>1, <3>2
    <3>4. Put(h2c, <<out>>) \in Seq(S)
      BY <1>0, <1>1, <3>3, PutTyped
    <3>5. NoneAfter(Put(h2c, <<out>>), Due, Spent)
      BY <1>0, <1>1, <3>3, NoneAfterPut
    <3>6. QED
      BY <3>4, <3>5 DEF CmdsOn
  <2>4. QED
    BY <2>2, <2>3
<1>4. QED
  BY <1>2, <1>3

LEMMA EvtsOnTail == ASSUME NEW w, EvtsOn(w), w # << >> PROVE EvtsOn(Tail(w))
  BY TakeTyped, NoneAfterTail DEF EvtsOn

LEMMA EvtsOnPut == ASSUME TypeOK, NEW w, EvtsOn(w), NEW ps \in Seq(Other) PROVE EvtsOn(Put(w, ps))
<1>0. line \in Faults
  BY ChipTyped DEF TypeOK
<1> DEFINE S == Other \cup Fresh \cup Stale
<1>1. /\ ps \in Seq(S) /\ ps \in Seq(Other \cup Fresh)
      /\ \A k \in 1..Len(ps) : ps[k] \notin Stale
  BY SeqMonotonic, ElementOfSeq, Members
<1>2. w \in Seq(S) /\ NoneAfter(w, Fresh, Stale)
  BY DEF EvtsOn
<1>3. Put(w, ps) \in Seq(S)
  BY <1>0, <1>1, <1>2, PutTyped
<1>4. NoneAfter(Put(w, ps), Fresh, Stale)
  BY <1>0, <1>1, <1>2, NoneAfterPut
<1>5. Completed => Put(w, ps) \in Seq(Other \cup Fresh)
  BY <1>0, <1>1, PutTyped DEF EvtsOn
<1>6. QED
  BY <1>3, <1>4, <1>5 DEF EvtsOn

(* The unacknowledged event sent again.                                    *)
LEMMA EvtsOnRepeat == ASSUME TypeOK, IInv, PInv PROVE EvtsOn(Put(c2h, unacked))
<1>0. line \in Faults
  BY ChipTyped DEF TypeOK
<1> DEFINE S == Other \cup Fresh \cup Stale
<1>1. c2h \in Seq(S) /\ NoneAfter(c2h, Fresh, Stale)
  BY DEF PInv, EvtsOn
<1>2. CASE CaughtUp
  <2>1. unacked \in Seq(Fresh)
    BY <1>2 DEF PInv, Retains
  <2>2. /\ unacked \in Seq(S) /\ unacked \in Seq(Other \cup Fresh)
        /\ \A k \in 1..Len(unacked) : unacked[k] \notin Stale
    BY <2>1, SeqMonotonic, ElementOfSeq, Disjoint DEF PInv
  <2>3. Put(c2h, unacked) \in Seq(S)
    BY <1>0, <1>1, <2>2, PutTyped
  <2>4. NoneAfter(Put(c2h, unacked), Fresh, Stale)
    BY <1>0, <1>1, <2>2, NoneAfterPut
  <2>5. Completed => Put(c2h, unacked) \in Seq(Other \cup Fresh)
    BY <1>0, <2>2, PutTyped DEF PInv, EvtsOn
  <2>6. QED
    BY <2>3, <2>4, <2>5 DEF EvtsOn
<1>3. CASE ~CaughtUp
  <2>1. unacked \in Seq(Stale) /\ Fresh = {} /\ ~Completed
    BY <1>3, Members DEF PInv, Retains, Settled
  <2>2. unacked \in Seq(S)
    BY <2>1, SeqMonotonic
  <2>3. Put(c2h, unacked) \in Seq(S)
    BY <1>0, <1>1, <2>2, PutTyped
  <2>4. NoneAfter(Put(c2h, unacked), Fresh, Stale)
    BY <2>1, <2>3, NoneAfterNone
  <2>5. QED
    BY <2>1, <2>3, <2>4 DEF EvtsOn
<1>4. QED
  BY <1>2, <1>3

(* An acknowledgement removes the one unacknowledged event or nothing.     *)
LEMMA StillUnackedOne ==
  ASSUME NEW S \in SUBSET Packet, unacked \in Seq(S), Len(unacked) <= 1, NEW ack \in SEQ
  PROVE  /\ StillUnacked(ack) \in {unacked, << >>}
         /\ unacked # << >> /\ ack = Succ8(unacked[1].seq) => StillUnacked(ack) = << >>
<1> DEFINE n == (ack + 8 - unacked[1].seq) % 8
<1>1. CASE unacked = << >>
  BY <1>1 DEF StillUnacked
<1>2. CASE unacked # << >>
  <2>1. Len(unacked) = 1 /\ unacked[1].seq \in SEQ
    <3>0. Len(unacked) \in Nat \ {0}
      BY <1>2, EmptySeq
    <3>1. Len(unacked) = 1
      BY <3>0
    <3>2. unacked[1] \in Packet
      BY <3>1, ElementOfSeq, SMTT(30)
    <3>3. QED
      BY <3>1, <3>2 DEF Packet
  <2>2. n \in 0..7
    <3>1. PICK s \in 0..7, a \in 0..7 : s = unacked[1].seq /\ a = ack
      BY <2>1 DEF SEQ
    <3>2. (a + 8 - s) % 8 \in 0..7
      BY SMT
    <3>3. QED
      BY <3>1, <3>2, Zenon
  <2>3. ack = Succ8(unacked[1].seq) => n = 1
    BY <2>1, Succ8Steps
  <2>4. StillUnacked(ack) = IF n <= 1 THEN SubSeq(unacked, n + 1, 1) ELSE unacked
    BY <1>2, <2>1 DEF StillUnacked
  <2>5. SubSeq(unacked, 2, 1) = << >>
    BY SubSeqEmpty
  <2>6. SubSeq(unacked, 1, 1) = unacked
    BY <2>1, SubSeqFull
  <2> HIDE DEF n
  <2>7. n <= 1 => n = 0 \/ n = 1
    BY <2>2
  <2>8. QED
    BY <2>2, <2>3, <2>4, <2>5, <2>6, <2>7
<1>3. QED
  BY <1>1, <1>2

LEMMA RetainsLess == ASSUME PInv, NEW ack \in SEQ PROVE Retains(StillUnacked(ack))
<1> DEFINE S == IF CaughtUp THEN Fresh ELSE Stale
<1>1. S \in SUBSET Packet /\ unacked \in Seq(S) /\ Len(unacked) <= 1
  BY Members DEF PInv, Retains
<1> HIDE DEF S
<1>2. StillUnacked(ack) \in {unacked, << >>}
  BY <1>1, StillUnackedOne
<1>3. << >> \in Seq(S) /\ Len(<< >>) <= 1
  BY EmptySeq
<1>4. QED
  BY <1>1, <1>2, <1>3 DEF Retains, S

-----------------------------------------------------------------------------
(* Everything PInv mentions but the packets, the link and the place.       *)
pipestate == <<op, total_num, tx_index, rx_index, i, out, cmd_opcode, cmd_ok, rxseq_txack,
               msgq_txseq, issued, executed, completed, cexp, ctx, refused>>

LEMMA SetsSame ==
  /\ UNCHANGED <<issued, executed, out, ctx, refused>> => Fresh' = Fresh
  /\ UNCHANGED <<op, i, total_num, out>> /\ Waiting' = Waiting => Stale' = Stale
  /\ UNCHANGED cexp => Spent' = Spent /\ Due' = Due
  /\ UNCHANGED <<issued, executed, out>> => Current' = Current
  /\ Idle' = Idle /\ Other' = Other
<1>1. UNCHANGED <<op, i, total_num>> => \A e : Precedes(e)' <=> Precedes(e)
  BY DEF Precedes
<1>2. UNCHANGED <<issued, executed>> => CaughtUp' = CaughtUp
  BY DEF CaughtUp
<1>3. UNCHANGED <<issued, executed, out, ctx, refused>> => Fresh' = Fresh
  BY <1>2 DEF Fresh
<1>4. UNCHANGED <<op, i, total_num, out>> /\ Waiting' = Waiting => Stale' = Stale
  BY <1>1 DEF Stale
<1>5. UNCHANGED <<issued, executed, out>> => Current' = Current
  BY <1>2 DEF Current
<1>6. QED
  BY <1>3, <1>4, <1>5 DEF Spent, Due, Idle, Other

(* A step that moves packets only.                                         *)
LEMMA PacketsOnlyPInv ==
  ASSUME PInv, UNCHANGED pipestate, op \notin LinkOps => link' = link,
         pc' = pc \/ (Waiting /\ Waiting'),
         CmdsOn(h2c'), EvtsOn(c2h'), Retains(unacked')
  PROVE  PInv'
<1>1. Waiting' = Waiting /\ CaughtUp' = CaughtUp
  BY DEF Waiting, CaughtUp, pipestate
<1>2. (op \notin LinkOps => Answered' = Answered) /\ Completed' = Completed
  BY <1>1 DEF Completed, Answered, pipestate, LinkOps
<1>3. /\ Fresh' = Fresh /\ Stale' = Stale /\ Spent' = Spent /\ Due' = Due
      /\ Current' = Current /\ Idle' = Idle /\ Other' = Other
  BY <1>1, SetsSame DEF pipestate
<1>4. (CmdsOn(h2c))' /\ (EvtsOn(c2h))' /\ (Retains(unacked))'
  BY <1>1, <1>2, <1>3 DEF CmdsOn, EvtsOn, Retains, NoneAfter
<1>5. Sync' /\ Refused'
  BY <1>1 DEF PInv, Sync, Refused, pipestate
<1>6. Kept'
  BY <1>1 DEF PInv, Kept, pipestate, LinkOps, Waiting
<1>7. Settled' /\ FirstPacket'
  BY <1>1, <1>2 DEF PInv, Settled, FirstPacket, Completed, pipestate, LinkOps
<1>8. QED
  BY <1>4, <1>5, <1>6, <1>7 DEF PInv

LEMMA InitPInv == Init => PInv
<1> SUFFICES ASSUME Init PROVE PInv
  OBVIOUS
<1>1. op \in LinkOps /\ CaughtUp /\ ~Completed /\ ~Waiting /\ pc = "issue"
  BY DEF Init, CaughtUp, Completed, LinkOps, Waiting
<1>2. Sync /\ Settled /\ FirstPacket /\ Refused
  BY <1>1 DEF Init, Sync, Settled, FirstPacket, Refused
<1>3. Kept
  BY <1>1 DEF Init, Kept, LinkCtl, Frame, LinkOps, InitOps
<1>4. CmdsOn(h2c) /\ EvtsOn(c2h) /\ Retains(unacked)
  BY <1>1, EmptySeq DEF Init, CmdsOn, EvtsOn, Retains, NoneAfter
<1>5. QED
  BY <1>2, <1>3, <1>4 DEF PInv

-----------------------------------------------------------------------------
(* The steps that leave the pipe alone.                                    *)
LEMMA LoopPInv == ASSUME TypeOK, PInv, Poll \/ LoopAgain \/ RecvNothing \/ GiveUp \/ Expire
                  PROVE  PInv'
<1>1. /\ pc \in {"poll", "batch"} /\ pc' \in {"poll", "batch", "exit"}
      /\ UNCHANGED pipestate /\ UNCHANGED <<link, h2c, c2h, unacked>>
  BY DEF Poll, LoopAgain, RecvNothing, GiveUp, Expire, Handling, LoopBottom, seqvars,
     cmdvars, dlvars, loopvars, progvars, chipvars, pipevars, pipestate
<1>2. Waiting /\ Waiting'
  BY <1>1 DEF Waiting
<1>3. CmdsOn(h2c') /\ EvtsOn(c2h') /\ Retains(unacked')
  BY <1>1 DEF PInv
<1>4. QED
  BY <1>1, <1>2, <1>3, PacketsOnlyPInv

LEMMA RetransmitPInv == ASSUME TypeOK, IInv, PInv, Retransmit PROVE PInv'
<1>1. /\ UNCHANGED pipestate /\ UNCHANGED <<link, pc, c2h, unacked>> /\ pc = "batch"
      /\ h2c' = Put(h2c, <<out>>)
  BY DEF Retransmit, Handling, seqvars, cmdvars, dlvars, progvars, chipvars, pipevars, pipestate
<1>2. CmdsOn(h2c')
  BY <1>1, CmdsOnResend DEF Waiting
<1>3. EvtsOn(c2h') /\ Retains(unacked')
  BY <1>1 DEF PInv
<1>4. QED
  BY <1>1, <1>2, <1>3, PacketsOnlyPInv

LEMMA LosePInv == ASSUME TypeOK, PInv, Lose PROVE PInv'
<1>1. /\ UNCHANGED pipestate /\ UNCHANGED <<link, pc, unacked>>
      /\ \/ h2c # << >> /\ h2c' = Tail(h2c) /\ c2h' = c2h
         \/ c2h # << >> /\ c2h' = Tail(c2h) /\ h2c' = h2c
  BY DEF Lose, hostvars, seqvars, cmdvars, dlvars, loopvars, progvars, chipvars, pipevars,
     pipestate
<1>2. CmdsOn(h2c') /\ EvtsOn(c2h') /\ Retains(unacked')
  BY <1>1, CmdsOnTail, EvtsOnTail DEF PInv
<1>3. QED
  BY <1>1, <1>2, PacketsOnlyPInv

LEMMA ChipAnswerPInv ==
  ASSUME TypeOK, IInv, PInv, ChipRecvLinkCtl \/ ChipRecvAck \/ ChipDuplicate PROVE PInv'
<1>1. /\ UNCHANGED pipestate /\ UNCHANGED <<link, pc>>
      /\ h2c # << >> /\ h2c' = Tail(h2c)
  BY DEF ChipRecvLinkCtl, ChipRecvAck, ChipDuplicate, ChipTake, hostvars, seqvars,
     cmdvars, dlvars, loopvars, progvars, pipestate
<1>2. CmdsOn(h2c')
  BY <1>1, CmdsOnTail DEF PInv
<1>3. EvtsOn(c2h')
  <2>1. EvtsOn(c2h)
    BY DEF PInv
  <2>2. /\ <<LinkCtl("syncresp")>> \in Seq(Other) /\ <<LinkCtl("confresp")>> \in Seq(Other)
        /\ <<PureAck(cexp)>> \in Seq(Other)
    BY CtlAnyTime DEF LinkKinds, TypeOK, TypeNumbers
  <2>3. /\ EvtsOn(Put(c2h, <<LinkCtl("syncresp")>>)) /\ EvtsOn(Put(c2h, <<LinkCtl("confresp")>>))
        /\ EvtsOn(Put(c2h, <<PureAck(cexp)>>))
    BY <2>1, <2>2, EvtsOnPut
  <2>4. QED
    BY <2>1, <2>3 DEF ChipRecvLinkCtl, ChipRecvAck, ChipDuplicate
<1>4. Retains(unacked')
  <2>0. Head(h2c) \in Packet
    BY <1>1, TakeTyped DEF TypeOK, TypePackets
  <2>1. Head(h2c).ack \in SEQ
    BY <2>0 DEF Packet
  <2>2. Retains(unacked) /\ Retains(StillUnacked(Head(h2c).ack))
    BY <2>1, RetainsLess DEF PInv
  <2>3. QED
    BY <2>2 DEF ChipRecvLinkCtl, ChipRecvAck, ChipDuplicate
<1>5. QED
  BY <1>1, <1>2, <1>3, <1>4, PacketsOnlyPInv

LEMMA ChipAlonePInv ==
  ASSUME TypeOK, IInv, PInv, ChipRetransmit \/ ChipSetSpeed \/ UNCHANGED vars PROVE PInv'
<1>1. /\ UNCHANGED pipestate /\ UNCHANGED <<link, pc, h2c, unacked>>
      /\ c2h' \in {c2h, Put(c2h, unacked)}
  BY DEF ChipRetransmit, ChipSetSpeed, vars, hostvars, seqvars, cmdvars, dlvars, loopvars,
     progvars, pipevars, chipvars, pipestate
<1>2. CmdsOn(h2c') /\ EvtsOn(c2h') /\ Retains(unacked')
  BY <1>1, EvtsOnRepeat DEF PInv
<1>3. QED
  BY <1>1, <1>2, PacketsOnlyPInv

(* Other packets than the event expected.                                  *)
LEMMA RecvCtlPInv == ASSUME TypeOK, IInv, PInv, RecvLinkCtl \/ RecvAck PROVE PInv'
<1>1. /\ UNCHANGED pipestate /\ UNCHANGED <<pc, unacked>>
      /\ c2h # << >> /\ c2h' = Tail(c2h) /\ pc = "batch"
      /\ link' # link => link \in {"H5_SYNC", "H5_CONFIG"}
      /\ h2c' \in {Put(h2c, AckOwed), Put(h2c, LinkReply(Head(c2h).kind))}
  BY DEF RecvLinkCtl, RecvAck, TakePacket, Handling, chipvars, pipevars, pipestate
<1>2. op \notin LinkOps => link' = link
  BY <1>1 DEF IInv, Stage, TypeOK, TypeProgram, Ops
<1>3. CmdsOn(h2c')
  <2>1. AckOwed \in Seq(Idle) /\ LinkReply(Head(c2h).kind) \in Seq(Idle)
    BY CtlAnyTime, LinkReplyIn DEF TypeOK, TypeNumbers
  <2>2. QED
    BY <1>1, <2>1, CmdsOnPut DEF PInv
<1>4. EvtsOn(c2h') /\ Retains(unacked')
  BY <1>1, EvtsOnTail DEF PInv
<1>5. QED
  BY <1>1, <1>2, <1>3, <1>4, PacketsOnlyPInv

(* The event expected is that of the current command or of the one before; *)
(* only the former completes it.                                           *)
LEMMA RecvEventPInv == ASSUME TypeOK, IInv, PInv, RecvEvent PROVE PInv'
<1> DEFINE e == Head(c2h)
<1>1. /\ pc = "batch" /\ c2h # << >> /\ e.kind = "evt" /\ e.seq = rxseq_txack
      /\ c2h' = Tail(c2h) /\ rxseq_txack' = Succ8(rxseq_txack)
      /\ h2c' = Put(h2c, <<PureAck(Succ8(rxseq_txack))>>)
      /\ UNCHANGED <<op, pc, total_num, tx_index, i, out, cmd_opcode, msgq_txseq, issued,
                     executed, completed, cexp, ctx, refused, unacked>>
      /\ HciRecvFrame(e)
  BY DEF RecvEvent, TakePacket, Handling, chipvars, pipevars
<1>2. Waiting /\ Waiting' /\ (CaughtUp' <=> CaughtUp)
  BY <1>1 DEF Waiting, CaughtUp
<1>3. op \notin LinkOps /\ e \in Packet /\ e \in Fresh \cup Stale
  <2>1. e \in Other \cup Fresh \cup Stale /\ e \in Packet
    BY <1>1, TakeTyped DEF PInv, EvtsOn, TypeOK, TypePackets
  <2>2. e \notin Other
    BY <1>1 DEF Other
  <2>3. ASSUME op \in LinkOps PROVE FALSE
    <3>1. e \in Other
      BY <1>1, <2>3, LinkPhase, TakeTyped
    <3>2. QED
      BY <2>2, <3>1
  <2>4. QED
    BY <2>1, <2>2, <2>3
<1>4. ~Completed /\ ~Answered
  <2>1. SUFFICES ASSUME Completed PROVE FALSE
    BY <1>2, <1>3 DEF Completed
  <2>2. e \in Other \cup Fresh
    BY <1>1, <2>1, TakeTyped DEF PInv, EvtsOn
  <2>3. Succ8(e.seq) = ctx
    BY <1>1, <2>2 DEF Other, Fresh
  <2>4. e.seq = ctx /\ ctx \in SEQ
    BY <1>1, <2>1 DEF PInv, Settled, TypeOK, TypeNumbers
  <2>5. QED
    BY <2>3, <2>4, Succ8Steps
<1>5. /\ Fresh' = Fresh /\ Stale' = Stale /\ Spent' = Spent /\ Due' = Due
      /\ Current' = Current /\ Idle' = Idle /\ Other' = Other
  BY <1>1, <1>2, SetsSame
<1>6. (CmdsOn(h2c))'
  <2>1. <<PureAck(Succ8(rxseq_txack))>> \in Seq(Idle)
    BY CtlAnyTime, Succ8Typed DEF TypeOK, TypeNumbers
  <2>2. CmdsOn(h2c')
    BY <1>1, <2>1, CmdsOnPut DEF PInv
  <2>3. QED
    BY <1>5, <2>2 DEF CmdsOn, NoneAfter
<1>7. /\ c2h' \in Seq(Other \cup Fresh \cup Stale) /\ NoneAfter(c2h', Fresh, Stale)
      /\ e \in Fresh => c2h' \in Seq(Other \cup Fresh)
  <2> DEFINE S == Other \cup Fresh \cup Stale
  <2>1. c2h \in Seq(S) /\ NoneAfter(c2h, Fresh, Stale)
    BY DEF PInv, EvtsOn
  <2>2. /\ c2h' \in Seq(S) /\ NoneAfter(c2h', Fresh, Stale)
        /\ e \in Fresh => c2h' \in Seq(S \ Stale)
    BY <1>1, <2>1, TakeTyped, NoneAfterTail
  <2>3. S \ Stale \subseteq Other \cup Fresh
    OBVIOUS
  <2>4. QED
    BY <2>2, <2>3, SeqMonotonic
<1>8. /\ rx_index' \in {rx_index, e.idx % 128}
      /\ cmd_ok' => cmd_ok \/ (e.op = cmd_opcode /\ e.st = 0)
  BY <1>1 DEF HciRecvFrame
<1>9. link \in {"H5_PATCH", "H5_HCI_RESET", "H5_ACTIVE"} \/ op \in InitOps
  BY <1>1, <1>3 DEF IInv, Stage, TypeOK, TypeProgram, Ops
<1>10. Sync' /\ Refused'
  BY <1>1, <1>2 DEF PInv, Sync, Refused
<1>11. Kept'
  BY <1>1, <1>2 DEF PInv, Kept
<1>12. CASE e \in Stale
  <2>1. Succ8(e.seq) = out.ack /\ Precedes(e)
    BY <1>12 DEF Stale
  <2>2. op = "OP_PATCH" => i > 0
    <3>1. SUFFICES ASSUME op = "OP_PATCH", i = 0 PROVE FALSE
      BY DEF TypeOK, TypeNumbers
    <3>2. rxseq_txack = out.ack
      BY <1>2, <1>4, <3>1 DEF PInv, FirstPacket
    <3>3. QED
      BY <1>1, <2>1, <3>2, Succ8Steps DEF TypeOK, TypeNumbers
  <2>3. ~Answered'
    <3>1. CASE op = "OP_PATCH"
      <4>1. e.idx = CurrIdx(i - 1, total_num) /\ i > 0
        BY <2>1, <2>2, <3>1 DEF Precedes
      <4>2. tx_index = CurrIdx(i, total_num) % 128
        BY <1>2, <1>3, <3>1 DEF PInv, Kept
      <4>3. e.idx % 128 # tx_index
        BY <4>1, <4>2, IndexChanges DEF TypeOK, TypeNumbers
      <4>4. rx_index # tx_index
        BY <1>4, <3>1 DEF Answered
      <4>5. QED
        BY <1>1, <1>8, <3>1, <4>3, <4>4 DEF Answered
    <3>2. CASE op # "OP_PATCH"
      <4>1. e.op # cmd_opcode
        BY <1>2, <1>3, <2>1, <3>2 DEF Precedes, PInv, Kept
      <4>2. ~cmd_ok /\ ~cmd_ok'
        BY <1>3, <1>4, <1>8, <3>2, <4>1 DEF Answered, LinkOps
      <4>3. QED
        BY <1>1, <1>3, <3>2, <4>2 DEF Answered, LinkOps
    <3>3. QED
      BY <3>1, <3>2
  <2>4. ~Completed'
    BY <1>2, <2>3 DEF Completed
  <2>5. Settled' /\ FirstPacket' /\ (EvtsOn(c2h))'
    BY <1>1, <1>5, <1>7, <2>2, <2>4 DEF Settled, FirstPacket, EvtsOn, NoneAfter
  <2>6. (Retains(unacked))'
    BY <1>1, <1>2, <1>5 DEF PInv, Retains
  <2>7. QED
    BY <1>6, <1>10, <1>11, <2>5, <2>6 DEF PInv
<1>13. CASE e \in Fresh
  <2>1. /\ CaughtUp /\ e.op = out.op /\ e.idx = out.idx /\ Succ8(e.seq) = ctx
        /\ refused => e.st = 1
    BY <1>13 DEF Fresh
  <2>2. out.op = op /\ op # "none"
    BY <1>2, <1>3 DEF PInv, Kept, TypeOK, TypeProgram, Ops, LinkOps, InitOps
  <2>3. Answered' => ~refused
    <3>1. CASE op = "OP_PATCH"
      BY <3>1 DEF PInv, Refused, InitOps
    <3>2. CASE op # "OP_PATCH"
      <4>1. ~cmd_ok /\ (Answered' => cmd_ok')
        BY <1>1, <1>3, <1>4, <3>2 DEF Answered, LinkOps
      <4>2. QED
        BY <1>8, <2>1, <4>1
    <3>3. QED
      BY <3>1, <3>2
  <2>4. /\ op = "OP_PATCH" /\ i = total_num => link' # "H5_PATCH"
        /\ op = "OP_HCI_RESET" /\ Answered' => link' # "H5_PATCH"
    <3>1. ASSUME op = "OP_PATCH", i = total_num PROVE link' # "H5_PATCH"
      <4>1. e.idx >= 128
        BY <1>2, <1>3, <2>1, <3>1, LastMarked DEF PInv, Kept, TypeOK, TypeNumbers
      <4>2. link \in {"H5_PATCH", "H5_HCI_RESET", "H5_ACTIVE"} /\ e.op # "none"
        BY <1>9, <2>1, <2>2, <3>1 DEF InitOps
      <4>3. QED
        BY <1>1, <4>1, <4>2 DEF HciRecvFrame
    <3>2. ASSUME op = "OP_HCI_RESET", Answered' PROVE link' # "H5_PATCH"
      <4>1. ~cmd_ok /\ cmd_ok'
        BY <1>1, <1>4, <3>2 DEF Answered
      <4>2. link \in {"H5_HCI_RESET", "H5_INIT"}
        BY <1>1, <4>1 DEF HciRecvFrame
      <4>3. QED
        BY <1>1, <4>2 DEF HciRecvFrame
    <3>3. QED
      BY <3>1, <3>2
  <2>5. Settled'
    BY <1>1, <1>2, <2>1, <2>3, <2>4 DEF Settled, Completed
  <2>6. FirstPacket'
    <3>1. SUFFICES ASSUME op = "OP_PATCH", i = 0 PROVE Answered'
      BY <1>1 DEF FirstPacket
    <3>2. link = "H5_PATCH" /\ tx_index = out.idx % 128
      BY <1>2, <1>3, <1>4, <3>1 DEF PInv, FirstPacket, Kept
    <3>3. rx_index' = e.idx % 128
      BY <1>1, <2>1, <2>2, <3>2 DEF HciRecvFrame
    <3>4. QED
      BY <1>1, <2>1, <3>1, <3>2, <3>3 DEF Answered
  <2>7. (EvtsOn(c2h))'
    BY <1>5, <1>7, <1>13 DEF EvtsOn, NoneAfter
  <2>8. (Retains(unacked))'
    BY <1>1, <1>2, <1>5 DEF PInv, Retains
  <2>9. QED
    BY <1>6, <1>10, <1>11, <2>5, <2>6, <2>7, <2>8 DEF PInv
<1>14. QED
  BY <1>3, <1>12, <1>13

(* An event out of order: its number may be adopted, but only in the       *)
(* download, after its last packet and before that is completed.           *)
LEMMA RecvOutOfOrderPInv == ASSUME TypeOK, IInv, PInv, RecvOutOfOrder PROVE PInv'
<1>1. /\ pc = "batch" /\ c2h # << >> /\ c2h' = Tail(c2h)
      /\ UNCHANGED <<op, pc, link, total_num, tx_index, rx_index, i, out, cmd_opcode, cmd_ok,
                     msgq_txseq, issued, executed, completed, cexp, ctx, refused, h2c, unacked>>
      /\ rxseq_txack' # rxseq_txack => link = "H5_PATCH" /\ tx_index = total_num
  BY DEF RecvOutOfOrder, TakePacket, Handling, chipvars, pipevars
<1>2. CmdsOn(h2c') /\ EvtsOn(c2h') /\ Retains(unacked')
  BY <1>1, EvtsOnTail DEF PInv
<1>3. CASE rxseq_txack' = rxseq_txack
  <2>1. UNCHANGED pipestate
    BY <1>1, <1>3 DEF pipestate
  <2>2. QED
    BY <1>1, <1>2, <2>1, PacketsOnlyPInv
<1>4. CASE rxseq_txack' # rxseq_txack
  <2>1. link = "H5_PATCH" /\ tx_index = total_num /\ Waiting /\ Waiting'
    BY <1>1, <1>4 DEF Waiting
  <2>2. op \in {"OP_PATCH", "OP_HCI_RESET"}
    BY <1>1, <2>1 DEF IInv, Stage, TypeOK, TypeProgram, Ops
  <2>3. op = "OP_PATCH" => i = total_num /\ i > 0
    <3>1. SUFFICES ASSUME op = "OP_PATCH" PROVE i = total_num /\ i > 0
      OBVIOUS
    <3>2. /\ tx_index = CurrIdx(i, total_num) % 128 /\ total_num >= 1 /\ i <= total_num
          /\ i \in Nat /\ total_num \in Nat
      BY <1>1, <2>1, <3>1 DEF PInv, Kept, IInv, Counts, LinkOps, TypeOK, TypeNumbers
    <3>3. ~(i < total_num)
      BY <2>1, <3>2, IndexOfLast
    <3>4. QED
      BY <3>2, <3>3
  <2>4. ~Completed /\ ~Completed'
    <3>1. ~Completed
      BY <2>1, <2>2, <2>3 DEF PInv, Settled
    <3>2. Answered' = Answered
      BY <1>1 DEF Answered
    <3>3. QED
      BY <1>1, <2>1, <3>1, <3>2 DEF Completed
  <2>5. /\ Fresh' = Fresh /\ Stale' = Stale /\ Spent' = Spent /\ Due' = Due
        /\ Current' = Current /\ Idle' = Idle /\ Other' = Other /\ CaughtUp' = CaughtUp
    BY <1>1, <2>1, SetsSame DEF CaughtUp
  <2>6. (CmdsOn(h2c))' /\ (EvtsOn(c2h))' /\ (Retains(unacked))'
    BY <1>2, <2>4, <2>5 DEF CmdsOn, EvtsOn, Retains, NoneAfter
  <2>7. Sync' /\ Refused'
    BY <1>1, <2>1, <2>5 DEF PInv, Sync, Refused
  <2>8. Kept'
    BY <1>1, <2>1 DEF PInv, Kept
  <2>9. Settled' /\ FirstPacket'
    BY <1>1, <2>3, <2>4 DEF Settled, FirstPacket
  <2>10. QED
    BY <2>6, <2>7, <2>8, <2>9 DEF PInv
<1>5. QED
  BY <1>3, <1>4

-----------------------------------------------------------------------------
(* Sending.                                                                *)
LEMMA SendLinkReqPInv == ASSUME TypeOK, IInv, IInv', PInv, SendLinkReq PROVE PInv'
<1>1. /\ op \in LinkOps /\ op' = op /\ pc' = "poll"
      /\ UNCHANGED <<link, rxseq_txack, msgq_txseq, issued, executed, completed, cexp, ctx,
                     refused, c2h, unacked>>
      /\ out'.op = "none"
  BY DEF SendLinkReq, Transmit, chipvars, Frame
<1>2. /\ CaughtUp' /\ cexp' = msgq_txseq' /\ ~refused' /\ ~Completed' /\ unacked' = << >>
      /\ Other' = Other /\ Idle' = Idle
  BY <1>1, LinkPhase DEF CaughtUp, Completed, Other, Idle
<1>3. (CmdsOn(h2c))'
  <2>1. issued' = 0 /\ Preparing'
    BY <1>1 DEF IInv, Counts, Preparing
  <2>2. h2c' \in Seq(Commands(0))
    BY <2>1 DEF IInv, Numbering
  <2>3. Commands(0) \subseteq Idle
    BY DEF Commands, Idle, Packet, SEQ
  <2>4. h2c' \in Seq(Idle)
    BY <2>2, <2>3, SeqMonotonic
  <2>5. h2c' \in Seq(Idle \cup Spent' \cup Current')
    BY <2>4, SeqMonotonic
  <2>6. Idle \cap Spent' = {}
    BY DEF Idle, Spent
  <2>7. NoneAfter(h2c', Due', Spent')
    BY <2>4, <2>6, NoneAfterNone
  <2>8. QED
    BY <1>2, <2>5, <2>7 DEF CmdsOn, NoneAfter
<1>4. (EvtsOn(c2h))'
  <2>1. c2h' \in Seq(Other) /\ Other \cap Fresh' = {}
    BY <1>1, LinkPhase DEF Other, Fresh
  <2>2. NoneAfter(c2h', Fresh', Stale')
    BY <2>1, NoneAfterNone
  <2>3. c2h' \in Seq(Other \cup Fresh' \cup Stale')
    BY <2>1, SeqMonotonic
  <2>4. QED
    BY <1>2, <2>2, <2>3 DEF EvtsOn, NoneAfter
<1>5. (Retains(unacked))'
  BY <1>2, EmptySeq DEF Retains
<1>6. Sync' /\ Kept' /\ Settled' /\ FirstPacket' /\ Refused'
  BY <1>1, <1>2 DEF Sync, Kept, Settled, FirstPacket, Refused, LinkOps, InitOps
<1>7. QED
  BY <1>3, <1>4, <1>5, <1>6 DEF PInv

(* A new command: what was the current one is now the one before.          *)
LEMMA ReliablePInv == ASSUME TypeOK, IInv, PInv, SendCommand \/ SendPatch PROVE PInv'
<1>1. /\ pc = "issue" /\ pc' = "poll" /\ op \notin LinkOps /\ issued' = issued + 1
      /\ msgq_txseq' = Succ8(msgq_txseq) /\ h2c' = Put(h2c, <<out'>>)
      /\ UNCHANGED <<op, link, total_num, rx_index, i, rxseq_txack, executed, completed, cexp,
                     ctx, refused, c2h, unacked>>
      /\ op # "OP_PATCH" => cmd_opcode' = op /\ cmd_ok' = FALSE
      /\ out'.kind = "cmd" /\ out'.seq = msgq_txseq /\ out'.ack = rxseq_txack /\ out'.op = op
      /\ op = "OP_PATCH" => /\ tx_index' = CurrIdx(i, total_num) % 128
                            /\ out'.idx = CurrIdx(i, total_num)
  BY DEF SendCommand, SendPatch, Reliable, Transmit, chipvars, LinkOps, InitOps, Frame
<1>2. Completed /\ ~Waiting /\ Waiting'
  BY <1>1 DEF Completed, Waiting
<1>3. CaughtUp /\ ~CaughtUp' /\ cexp = msgq_txseq /\ rxseq_txack = ctx /\ ~refused
  BY <1>1, <1>2 DEF PInv, Settled, Sync, CaughtUp, TypeOK, TypeNumbers
<1>4. out' \in Packet /\ line \in Faults
  <2>1. Next
    BY DEF Next, Host, HostSends
  <2>2. TypeOK'
    BY <2>1, NextTyped
  <2>3. QED
    BY <2>2, ChipTyped DEF TypeOK, TypePackets
<1>5. Sync' /\ Refused'
  BY <1>1, <1>2, <1>3 DEF Sync, Refused, CaughtUp
<1>6. Kept'
  <2>1. op = "OP_PATCH" => total_num >= 1
    BY <1>1 DEF PInv, Kept
  <2>2. op = "OP_HCI_RESET" => total_num >= 1
    BY <1>1 DEF PInv, Kept
  <2>3. QED
    BY <1>1, <1>2, <2>1, <2>2 DEF Kept
<1>7. ~Answered'
  <2>1. CASE op = "OP_PATCH"
    <3>0. i \in Nat /\ total_num \in Nat
      BY DEF TypeOK, TypeNumbers
    <3>1. i \in Nat /\ total_num \in Nat /\ tx_index' \in 0..127
      BY <1>1, <2>1, <3>0, TxIndexRange, ZenonT(60)
    <3>2. rx_index # tx_index'
      <4>1. CASE i > 0
        BY <1>1, <2>1, <3>1, <4>1, IndexChanges DEF PInv, Kept
      <4>2. CASE i = 0
        BY <1>1, <2>1, <3>1, <4>2 DEF PInv, Kept
      <4>3. QED
        BY <3>1, <4>1, <4>2
    <3>3. QED
      BY <1>1, <2>1, <3>2 DEF Answered
  <2>2. CASE op # "OP_PATCH"
    BY <1>1, <2>2 DEF Answered, LinkOps
  <2>3. QED
    BY <2>1, <2>2
<1>8. Settled' /\ FirstPacket'
  <2>1. ~Completed'
    BY <1>1, <1>2, <1>7 DEF Completed
  <2>2. op = "OP_PATCH" /\ i = 0 => link = "H5_PATCH"
    BY <1>1 DEF PInv, Kept
  <2>3. QED
    BY <1>1, <2>1, <2>2 DEF Settled, FirstPacket
<1>9. (CmdsOn(h2c))'
  <2>1. h2c \in Seq(Idle \cup Spent)
    BY <1>3, Members DEF PInv, CmdsOn
  <2>2. Idle' = Idle /\ Spent' = Spent /\ Due' = Due
    BY <1>1, SetsSame
  <2>3. (Idle \cup Spent) \cap Due = {}
    BY Members, SpentNotDue
  <2>4. out' \in Current' /\ out' \in Due
    BY <1>1, <1>3, <1>4 DEF Current, Due
  <2> DEFINE S == Idle \cup Spent \cup Current'
  <2>5. h2c \in Seq(S) /\ <<out'>> \in Seq(S)
    BY <2>1, <2>4, SeqMonotonic
  <2>6. NoneAfter(h2c, Due, Spent)
    BY <2>1, <2>3, NoneAfterNone
  <2>7. \A k \in 1..Len(<<out'>>) : <<out'>>[k] \notin Spent
    BY <2>3, <2>4
  <2>8. h2c' \in Seq(S)
    BY <1>1, <1>4, <2>5, PutTyped
  <2>9. NoneAfter(h2c', Due, Spent)
    BY <1>1, <1>4, <2>5, <2>6, <2>7, NoneAfterPut
  <2>10. QED
    BY <2>2, <2>8, <2>9 DEF CmdsOn, NoneAfter
<1>10. Fresh \subseteq Stale' /\ Fresh' = {} /\ Other' = Other
  <2>1. ASSUME NEW e \in Fresh PROVE e \in Stale'
    <3>1. e \in Packet /\ e.kind = "evt" /\ Succ8(e.seq) = out'.ack
      BY <1>1, <1>3, <2>1 DEF Fresh
    <3>2. e.op = out.op /\ e.idx = out.idx
      BY <2>1 DEF Fresh
    <3>3. Precedes(e)
      <4>1. CASE op = "OP_PATCH"
        BY <1>1, <3>2, <4>1 DEF PInv, Kept, Precedes, TypeOK, TypeNumbers
      <4>2. CASE op # "OP_PATCH"
        BY <1>1, <3>2, <4>2 DEF PInv, Kept, Precedes, TypeOK, TypeProgram, Ops
      <4>3. QED
        BY <4>1, <4>2
    <3>4. Precedes(e)'
      BY <1>1, <3>3 DEF Precedes
    <3>5. QED
      BY <1>1, <1>2, <3>1, <3>4 DEF Stale
  <2>2. QED
    BY <1>3, <2>1 DEF Fresh, Other
<1>11. (EvtsOn(c2h))'
  <2>1. c2h' \in Seq(Other \cup Fresh)
    BY <1>1, <1>2 DEF PInv, EvtsOn
  <2>2. c2h' \in Seq(Other \cup Fresh' \cup Stale')
    BY <1>10, <2>1, SeqMonotonic
  <2>3. NoneAfter(c2h', Fresh', Stale')
    BY <1>10, <2>2, NoneAfterNone
  <2>4. ~Completed'
    BY <1>1, <1>2, <1>7 DEF Completed
  <2>5. QED
    BY <1>10, <2>2, <2>3, <2>4 DEF EvtsOn, NoneAfter
<1>12. (Retains(unacked))'
  <2>1. unacked \in Seq(Fresh) /\ Len(unacked) <= 1
    BY <1>3 DEF PInv, Retains
  <2>2. unacked \in Seq(Stale')
    BY <1>10, <2>1, SeqMonotonic
  <2>3. QED
    BY <1>1, <1>3, <2>1, <2>2 DEF Retains
<1>13. QED
  BY <1>5, <1>6, <1>8, <1>9, <1>11, <1>12 DEF PInv

-----------------------------------------------------------------------------
(* The controller executes the current command, and what it has not seen   *)
(* acknowledged of the one before the command itself acknowledges.         *)
LEMMA ChipExecutePInv == ASSUME TypeOK, IInv, PInv, ChipExecute PROVE PInv'
<1> DEFINE p == Head(h2c)
<1>0. line \in Faults
  BY ChipTyped DEF TypeOK
<1>1. /\ h2c # << >> /\ h2c' = Tail(h2c) /\ p.kind = "cmd" /\ p.seq = cexp
      /\ cexp' = Succ8(cexp) /\ executed' = executed + 1
      /\ UNCHANGED <<op, pc, link, total_num, tx_index, rx_index, i, out, cmd_opcode, cmd_ok,
                     rxseq_txack, msgq_txseq, issued, completed>>
  BY DEF ChipExecute, ChipTake, hostvars, seqvars, cmdvars, dlvars, loopvars, progvars
<1>2. PICK st \in {0, 1}, seq \in {0, ctx} :
        LET cc == Frame("evt", seq, 0, p.op, p.idx, st)
        IN  /\ st = 1 => p.op \in line.refuses
            /\ refused' = (refused \/ (st = 1 /\ p.op # "OP_PATCH"))
            /\ ctx' = Succ8(seq) /\ c2h' = Put(c2h, <<cc>>)
            /\ unacked' \in {<<cc>>, Append(StillUnacked(p.ack), cc)}
  BY DEF ChipExecute
<1> DEFINE cc == Frame("evt", seq, 0, p.op, p.idx, st)
<1>3. p \in Packet /\ p = out /\ ~CaughtUp
  <2>1. p \in Idle \cup Spent \cup Current
    BY <1>1, TakeTyped DEF PInv, CmdsOn
  <2>2. p \in Packet /\ p \in Due /\ p \notin Idle /\ p \notin Spent
    BY <1>1, <2>1, Members, SpentNotDue DEF Due, Idle
  <2>3. QED
    BY <2>1, <2>2 DEF Current
<1>4. /\ issued = executed + 1 /\ Waiting /\ op \notin LinkOps /\ msgq_txseq = Succ8(cexp)
      /\ out.ack = ctx /\ ~refused /\ out.op = op /\ ~Completed
  BY <1>3 DEF PInv, Sync, Kept, Settled
<1>5. CaughtUp' /\ Waiting' /\ ~Completed'
  <2>1. Answered' = Answered
    BY <1>1 DEF Answered
  <2>2. QED
    BY <1>1, <1>4, <2>1 DEF CaughtUp, Completed, Waiting
<1>6. Sync' /\ Settled' /\ FirstPacket'
  <2>1. Answered' = Answered
    BY <1>1 DEF Answered
  <2>2. QED
    BY <1>1, <1>4, <1>5, <2>1 DEF PInv, Sync, Settled, FirstPacket
<1>7. Refused'
  <2>1. refused' => op \in line.refuses \ {"OP_PATCH"}
    BY <1>2, <1>3, <1>4
  <2>2. QED
    BY <1>0, <1>1, <1>5, <2>1 DEF Refused, Faults
<1>8. Kept'
  BY <1>1, <1>4, <1>5 DEF PInv, Kept, Waiting
<1>9. cc \in Packet /\ cc \in Fresh'
  <2>1. cc \in Packet
    <3>1. p.op \in Ops \cup {"none"} /\ p.idx \in 0..255 /\ seq \in SEQ /\ 0 \in SEQ
      BY <1>3, SMT DEF Packet, TypeOK, TypeNumbers, SEQ
    <3>2. QED
      BY <3>1, FrameTyped, ZenonT(60)
  <2>2. /\ cc.kind = "evt" /\ cc.op = out'.op /\ cc.idx = out'.idx /\ Succ8(cc.seq) = ctx'
        /\ refused' => cc.st = 1
    BY <1>1, <1>2, <1>3, <1>4 DEF Frame
  <2>3. QED
    BY <1>5, <2>1, <2>2 DEF Fresh
<1>10. Stale' = Stale /\ Other' = Other /\ Idle' = Idle /\ Fresh' \cap Stale = {}
  <2>1. Stale' = Stale /\ Other' = Other /\ Idle' = Idle
    BY <1>1, <1>4, <1>5, SetsSame
  <2>2. ASSUME NEW e \in Stale, e \in Fresh' PROVE FALSE
    <3>1. Precedes(e) /\ e.op = out.op /\ e.idx = out.idx
      BY <1>1, <2>2 DEF Fresh, Stale
    <3>2. CASE op = "OP_PATCH"
      <4>1. out.idx = CurrIdx(i, total_num) /\ i \in Nat /\ total_num \in Nat
        BY <1>4, <3>2 DEF PInv, Kept, TypeOK, TypeNumbers
      <4>2. CASE i > 0
        BY <3>1, <3>2, <4>1, <4>2, IndexChanges DEF Precedes
      <4>3. CASE i = 0
        BY <1>4, <3>1, <3>2, <4>3 DEF Precedes, InitOps
      <4>4. QED
        BY <4>1, <4>2, <4>3
    <3>3. CASE op # "OP_PATCH"
      BY <1>4, <3>1, <3>3 DEF Precedes
    <3>4. QED
      BY <3>2, <3>3
  <2>3. QED
    BY <2>1, <2>2
<1>11. (CmdsOn(h2c))'
  <2> DEFINE S == Idle \cup Spent \cup Current
  <2>1. p \in Due /\ h2c \in Seq(S) /\ NoneAfter(h2c, Due, Spent)
    BY <1>1, <1>3 DEF PInv, CmdsOn, Due
  <2>2. h2c' \in Seq(S \ Spent)
    BY <1>1, <2>1, NoneAfterTail
  <2>3. S \ Spent \subseteq Idle \cup Spent'
    <3>1. out \in Spent'
      BY <1>1, <1>3 DEF Spent
    <3>2. Current \subseteq {out}
      BY DEF Current
    <3>3. QED
      BY <3>1, <3>2
  <2>4. h2c' \in Seq(Idle \cup {out})
    <3>1. S \ Spent \subseteq Idle \cup {out}
      BY DEF Current
    <3>2. QED
      BY <2>2, <3>1, SeqMonotonic
  <2>5. (Idle \cup {out}) \cap Due' = {}
    <3>1. out.seq = cexp /\ Succ8(cexp) # cexp
      BY <1>1, <1>3, Succ8Steps DEF TypeOK, TypeNumbers
    <3>2. QED
      BY <1>1, <3>1 DEF Idle, Due
  <2>6. NoneAfter(h2c', Due', Spent')
    BY <2>4, <2>5, NoneAfterNone
  <2>7. h2c' \in Seq(Idle' \cup Spent' \cup Current')
    BY <1>10, <2>2, <2>3, SeqMonotonic
  <2>8. QED
    BY <2>6, <2>7 DEF CmdsOn, NoneAfter
<1>12. (EvtsOn(c2h))'
  <2> DEFINE S == Other \cup Fresh' \cup Stale
  <2>1. c2h \in Seq(Other \cup Stale)
    BY <1>3, Members DEF PInv, EvtsOn
  <2>2. c2h \in Seq(S) /\ <<cc>> \in Seq(S)
    BY <1>9, <2>1, SeqMonotonic
  <2>3. Put(c2h, <<cc>>) \in Seq(S)
    BY <1>0, <2>2, PutTyped
  <2>4. NoneAfter(c2h, Fresh', Stale)
    <3>1. (Other \cup Stale) \cap Fresh' = {}
      BY <1>10 DEF Other, Fresh
    <3>2. QED
      BY <2>1, <3>1, NoneAfterNone
  <2>5. \A k \in 1..Len(<<cc>>) : <<cc>>[k] \notin Stale
    BY <1>9, <1>10
  <2>6. NoneAfter(Put(c2h, <<cc>>), Fresh', Stale)
    BY <1>0, <2>2, <2>4, <2>5, NoneAfterPut
  <2>7. c2h' = Put(c2h, <<cc>>)
    BY <1>2
  <2> HIDE DEF cc
  <2>8. c2h' \in Seq(Other' \cup Fresh' \cup Stale') /\ NoneAfter(c2h', Fresh', Stale')
    BY <1>10, <2>3, <2>6, <2>7
  <2>9. QED
    BY <1>5, <2>8 DEF EvtsOn, NoneAfter
<1>13. (Retains(unacked))'
  <2>1. unacked \in Seq(Stale) /\ Len(unacked) <= 1
    BY <1>3 DEF PInv, Retains
  <2>2. StillUnacked(p.ack) = << >>
    <3>1. Stale \in SUBSET Packet /\ p.ack \in SEQ
      BY <1>3, Members DEF Packet
    <3>2. unacked # << >> => p.ack = Succ8(unacked[1].seq)
      <4>1. SUFFICES ASSUME unacked # << >> PROVE p.ack = Succ8(unacked[1].seq)
        OBVIOUS
      <4>2. Head(unacked) \in Stale /\ Head(unacked) = unacked[1]
        BY <2>1, <4>1, HeadTailProperties
      <4>3. QED
        BY <1>3, <4>2 DEF Stale
    <3>3. QED
      BY <2>1, <3>1, <3>2, StillUnackedOne
  <2> HIDE DEF cc
  <2>3. unacked' = <<cc>>
    BY <1>2, <2>2 DEF cc
  <2>4. <<cc>> \in Seq(Fresh') /\ Len(<<cc>>) = 1
    BY <1>9
  <2>5. QED
    BY <1>5, <2>3, <2>4 DEF Retains
<1>14. QED
  BY <1>6, <1>7, <1>8, <1>11, <1>12, <1>13 DEF PInv

-----------------------------------------------------------------------------
(* The host goes on with the next operation.                               *)
LEMMA DoneWires ==
  ASSUME PInv, Completed, ~Waiting', UNCHANGED <<out, issued, executed, ctx, cexp, refused, h2c,
                                                 c2h, unacked>>
  PROVE  (CmdsOn(h2c))' /\ (EvtsOn(c2h))' /\ (Retains(unacked))'
<1>1. /\ Fresh' = Fresh /\ Spent' = Spent /\ Due' = Due /\ Current' = Current
      /\ Idle' = Idle /\ Other' = Other /\ CaughtUp /\ CaughtUp'
  BY SetsSame DEF PInv, Settled, CaughtUp
<1>2. Stale' = {}
  BY DEF Stale
<1>3. (CmdsOn(h2c))' /\ (Retains(unacked))'
  BY <1>1 DEF PInv, CmdsOn, Retains, NoneAfter
<1>4. c2h' \in Seq(Other' \cup Fresh')
  BY <1>1 DEF PInv, EvtsOn
<1>5. NoneAfter(c2h', Fresh', Stale')
  BY <1>2 DEF NoneAfter
<1>6. QED
  BY <1>2, <1>3, <1>4, <1>5 DEF EvtsOn, NoneAfter

LEMMA CommandDonePInv == ASSUME TypeOK, IInv, PInv, CommandDone PROVE PInv'
<1>1. /\ pc = "batch" /\ op \in InitOps /\ cmd_ok /\ completed' = completed + 1
      /\ op' = NextOp(op, chip.typed, chip.baud) /\ op' # op
      /\ op' \in InitOps \cup {"OP_PATCH"} /\ pc' \in {"issue", "speed", "load"}
      /\ op' = "OP_PATCH" => pc' \in {"speed", "load"}
      /\ op' # "OP_PATCH" => pc' = "issue"
      /\ UNCHANGED <<link, total_num, rx_index, i, rxseq_txack, msgq_txseq, issued, executed,
                     out, h2c, c2h, unacked, cexp, ctx, refused>>
  <2>1. op = "OP_SET_BAUD" => op' = "OP_PATCH"
    BY DEF CommandDone, Proceed, NextOp
  <2>2. QED
    BY <2>1 DEF CommandDone, LoopDone, LoopBottom, Proceed, Answered, NextOp, InitOps, chipvars
<1>2. Completed /\ Waiting /\ ~Waiting' /\ op' \notin LinkOps
  BY <1>1 DEF Completed, Answered, Waiting, InitOps, LinkOps
<1>3. CaughtUp /\ CaughtUp' /\ rxseq_txack = ctx /\ ~refused /\ cexp = msgq_txseq
  BY <1>1, <1>2 DEF PInv, Settled, Sync, CaughtUp, TypeOK, TypeNumbers
<1>4. completed <= 3 /\ out.op = op
  <2>1. completed <= Rank(op) /\ Rank(op) \in 0..3
    BY <1>1 DEF IInv, Counts, Rank
  <2>2. out.op = op
    BY <1>1, <1>2 DEF PInv, Kept, InitOps, LinkOps
  <2>3. QED
    BY <2>1, <2>2 DEF TypeOK, TypeNumbers
<1>5. Sync' /\ Settled' /\ FirstPacket' /\ Refused'
  BY <1>1, <1>2, <1>3 DEF Sync, Settled, FirstPacket, Refused, InitOps
<1>6. Kept'
  BY <1>1, <1>2, <1>4 DEF Kept, InitOps, LinkOps, TypeOK, TypeNumbers
<1>7. (CmdsOn(h2c))' /\ (EvtsOn(c2h))' /\ (Retains(unacked))'
  BY <1>1, <1>2, DoneWires
<1>8. QED
  BY <1>5, <1>6, <1>7 DEF PInv

LEMMA PatchDonePInv == ASSUME TypeOK, IInv, PInv, PatchDone \/ ResetDone PROVE PInv'
<1>1. /\ pc = "batch" /\ op \in {"OP_PATCH", "OP_HCI_RESET"} /\ Answered
      /\ UNCHANGED <<link, total_num, tx_index, rx_index, rxseq_txack, msgq_txseq, issued,
                     executed, out, h2c, c2h, unacked, cexp, ctx, refused>>
      /\ \/ /\ op = "OP_PATCH" /\ pc' = "issue" /\ i' = i + 1
            /\ op' = IF i < total_num THEN "OP_PATCH" ELSE "OP_HCI_RESET"
         \/ op = "OP_HCI_RESET" /\ op' = op /\ pc' = "done" /\ i' = i
  BY DEF PatchDone, ResetDone, LoopDone, LoopBottom, chipvars
<1>2. Completed /\ Waiting /\ ~Waiting' /\ op' \notin LinkOps /\ op \notin LinkOps
  BY <1>1 DEF Completed, Waiting, LinkOps
<1>3. CaughtUp /\ CaughtUp' /\ rxseq_txack = ctx /\ ~refused /\ cexp = msgq_txseq
  BY <1>1, <1>2 DEF PInv, Settled, Sync, CaughtUp, TypeOK, TypeNumbers
<1>4. op' = "OP_HCI_RESET" => link # "H5_PATCH"
  <2>1. op = "OP_PATCH" => i <= total_num
    BY <1>1, <1>2 DEF IInv, Counts
  <2>2. QED
    BY <1>1, <1>2, <2>1 DEF PInv, Settled, TypeOK, TypeNumbers
<1>5. Sync' /\ Settled' /\ FirstPacket' /\ Refused'
  BY <1>1, <1>2, <1>3, <1>4 DEF Sync, Settled, FirstPacket, Refused
<1>6. Kept'
  <2>1. total_num >= 1 /\ i \in Nat
    BY <1>1 DEF PInv, Kept, TypeOK, TypeNumbers
  <2>2. CASE op = "OP_PATCH"
    <3>1. out.op = "OP_PATCH" /\ out.idx = CurrIdx(i, total_num) /\ rx_index = out.idx % 128
      BY <1>1, <1>2, <2>2 DEF PInv, Kept, Answered
    <3>2. i' > 0 /\ i' - 1 = i
      BY <1>1, <2>1, <2>2
    <3>3. out'.idx = CurrIdx(i' - 1, total_num')
      BY <1>1, <3>1, <3>2
    <3>4. QED
      BY <1>1, <1>2, <2>1, <2>2, <3>1, <3>2, <3>3 DEF Kept, InitOps
  <2>3. CASE op = "OP_HCI_RESET"
    BY <1>1, <1>2, <2>1, <2>3 DEF Kept, InitOps
  <2>4. QED
    BY <1>1, <2>2, <2>3
<1>7. (CmdsOn(h2c))' /\ (EvtsOn(c2h))' /\ (Retains(unacked))'
  BY <1>1, <1>2, DoneWires
<1>8. QED
  BY <1>5, <1>6, <1>7 DEF PInv

LEMMA LinkReqDonePInv == ASSUME TypeOK, IInv, PInv, LinkReqDone PROVE PInv'
<1>1. /\ op \in LinkOps /\ pc' = "issue" /\ op' \in {"OP_H5_CONFIG", "OP_LMP_VER"}
      /\ h2c' \in {h2c, Put(h2c, <<PureAck(rxseq_txack)>>)}
      /\ UNCHANGED <<link, rxseq_txack, msgq_txseq, issued, executed, out, c2h, unacked, cexp,
                     ctx, refused>>
  BY DEF LinkReqDone, LoopDone, LoopBottom, Proceed, Answered, NextOp, LinkOps, chipvars
<1>2. /\ CaughtUp /\ CaughtUp' /\ c2h \in Seq(Other) /\ unacked = << >> /\ rxseq_txack = ctx
      /\ cexp = msgq_txseq /\ ~refused
  BY <1>1, LinkPhase DEF CaughtUp
<1>3. ~Waiting' /\ Stale' = {} /\ out.op = "none"
  BY <1>1 DEF Waiting, Stale, PInv, Kept
<1>4. Sync' /\ Settled' /\ FirstPacket' /\ Refused'
  BY <1>1, <1>2, <1>3 DEF Sync, Settled, FirstPacket, Refused
<1>5. Kept'
  BY <1>1, <1>3 DEF Kept, InitOps, LinkOps
<1>6. (CmdsOn(h2c))'
  <2>1. <<PureAck(rxseq_txack)>> \in Seq(Idle)
    BY CtlAnyTime DEF TypeOK, TypeNumbers
  <2>2. CmdsOn(h2c')
    BY <1>1, <2>1, CmdsOnPut DEF PInv
  <2>3. Spent' = Spent /\ Due' = Due /\ Current' = Current /\ Idle' = Idle
    BY <1>1, SetsSame
  <2>4. QED
    BY <2>2, <2>3 DEF CmdsOn, NoneAfter
<1>7. (EvtsOn(c2h))'
  <2>1. c2h' \in Seq(Other') /\ Other' = Other
    BY <1>1, <1>2 DEF Other
  <2>2. c2h' \in Seq(Other' \cup Fresh') /\ c2h' \in Seq(Other' \cup Fresh' \cup Stale')
    BY <2>1, SeqMonotonic
  <2>3. NoneAfter(c2h', Fresh', Stale')
    BY <1>3 DEF NoneAfter
  <2>4. QED
    BY <2>2, <2>3 DEF EvtsOn, NoneAfter
<1>8. (Retains(unacked))'
  BY <1>1, <1>2, EmptySeq DEF Retains
<1>9. QED
  BY <1>4, <1>5, <1>6, <1>7, <1>8 DEF PInv

LEMMA DownloadPInv == ASSUME TypeOK, IInv, PInv, SetSpeed \/ StartDownload PROVE PInv'
<1>1. op = "OP_PATCH"
  BY DEF SetSpeed, StartDownload, IInv, Stage, Preparing, TypeOK, TypeProgram, Ops
<1>2. /\ pc \in {"speed", "load"}
      /\ UNCHANGED <<op, rxseq_txack, msgq_txseq, issued, executed, completed, out, h2c, c2h,
                     unacked, cexp, ctx, refused>>
      /\ \/ pc' = "load"
         \/ /\ pc' = "issue" /\ link' = "H5_PATCH" /\ i' = 0 /\ rx_index' = -1
            /\ total_num' = TotalIdx(num_of_cmd_sent, chip.endIdx)
  BY DEF SetSpeed, StartDownload, seqvars, cmdvars, dlvars, loopvars, chipvars, pipevars
<1>3. Completed /\ ~Waiting /\ ~Waiting' /\ op \notin LinkOps /\ op \notin InitOps
  BY <1>1, <1>2 DEF Completed, Waiting, LinkOps, InitOps
<1>4. CaughtUp /\ CaughtUp' /\ rxseq_txack = ctx /\ ~refused /\ cexp = msgq_txseq
  BY <1>2, <1>3 DEF PInv, Settled, Sync, CaughtUp, TypeOK, TypeNumbers
<1>5. Sync' /\ Settled' /\ FirstPacket' /\ Refused'
  BY <1>1, <1>2, <1>3, <1>4 DEF Sync, Settled, FirstPacket, Refused
<1>6. Kept'
  <2>1. out.op \in InitOps /\ completed <= 4
    BY <1>1, <1>2 DEF PInv, Kept
  <2>2. num_of_cmd_sent \in 0..4 /\ chip.endIdx \in Nat
    <3>1. num_of_cmd_sent = completed
      BY <1>1, <1>2 DEF IInv, Counts
    <3>2. chip.endIdx \in Nat
      BY ChipTyped, SMT DEF TypeOK, Device, MaxEndIdx
    <3>3. QED
      BY <2>1, <3>1, <3>2 DEF TypeOK, TypeNumbers
  <2>3. TotalIdx(num_of_cmd_sent, chip.endIdx) >= 1
    BY <2>2, SomePackets
  <2>4. QED
    BY <1>1, <1>2, <1>3, <2>1, <2>3 DEF Kept
<1>7. (CmdsOn(h2c))' /\ (EvtsOn(c2h))' /\ (Retains(unacked))'
  BY <1>2, <1>3, DoneWires
<1>8. QED
  BY <1>5, <1>6, <1>7 DEF PInv

-----------------------------------------------------------------------------
(* Quiet controllers take none of the steps that send something unasked.   *)
LEMMA NothingUnasked == ASSUME Quiet, TypeOK PROVE ~ChipEvent /\ ~ChipLinkReq
<1>1. line.noise = 0 /\ noise \in Nat
  BY DEF Quiet, TypeOK, TypeProgram, TypeNumbers
<1>2. QED
  BY <1>1 DEF ChipEvent, ChipLinkReq

LEMMA NextPInv == ASSUME Quiet, TypeOK, IInv, PInv, [Next]_vars PROVE PInv'
<1>1. CASE HostSends
  <2>1. IInv'
    BY NextIInv
  <2>2. QED
    BY <1>1, <2>1, SendLinkReqPInv, ReliablePInv DEF HostSends
<1>2. CASE HostReceives \/ HostTimer \/ Expire
  BY <1>2, RecvEventPInv, RecvOutOfOrderPInv, RecvCtlPInv, LoopPInv, RetransmitPInv
     DEF HostReceives, HostTimer
<1>3. CASE HostLoop
  BY <1>3, LoopPInv, LinkReqDonePInv, CommandDonePInv, PatchDonePInv, DownloadPInv
     DEF HostLoop
<1>4. CASE Lose
  BY <1>4, LosePInv
<1>5. CASE ChipReceives
  BY <1>5, ChipAnswerPInv, ChipExecutePInv DEF ChipReceives
<1>6. CASE ChipRetransmit \/ ChipSetSpeed
  BY <1>6, ChipAlonePInv
<1>7. CASE Finished \/ UNCHANGED vars
  BY <1>7, ChipAlonePInv DEF Finished
<1>8. QED
  BY <1>1, <1>2, <1>3, <1>4, <1>5, <1>6, <1>7, NothingUnasked DEF Next, Host, Chip

LEMMA PipeInvariance == ASSUME Quiet PROVE Spec => [](TypeOK /\ IInv /\ PInv)
<1>1. Init => TypeOK /\ IInv /\ PInv
  BY InitTyped, InitIInv, InitPInv
<1>2. (TypeOK /\ IInv /\ PInv) /\ [Next]_vars => (TypeOK /\ IInv /\ PInv)'
  BY NextTyped, NextIInv, NextPInv
<1>3. QED
  BY <1>1, <1>2, PTL DEF Spec

(* No refusal of a command is taken for its completion: the program only   *)
(* ends well if the controller agreed to every command before and after    *)
(* the download (h5_init_hci_cc and h5_post_hci_cc look at the status and  *)
(* at the opcode), although commands and answers repeat and although it    *)
(* may refuse any download packet, which hci_recv_frame does not notice.   *)
THEOREM RefusalFatal == ASSUME Quiet PROVE Spec => []RefusalIsFatal
<1>1. PInv => RefusalIsFatal
  BY DEF PInv, Refused, RefusalIsFatal, Waiting
<1>2. QED
  BY <1>1, PipeInvariance, PTL

-----------------------------------------------------------------------------
(* Every step is a step of the command pipe, or none.                      *)
LEMMA InitPipe == Init => Pipe!Init
  BY DEF Init, Pipe!Init

LEMMA IssueStep == ASSUME TypeOK, IInv, PInv, SendCommand \/ SendPatch PROVE Pipe!Issue
<1>1. /\ pc = "issue" /\ pc' = "poll" /\ op \notin LinkOps /\ issued' = issued + 1
      /\ UNCHANGED <<executed, completed>>
  BY DEF SendCommand, SendPatch, Reliable, Transmit, LinkOps, InitOps
<1>2. completed = issued
  BY <1>1 DEF IInv, Counts, Waiting, TypeOK, TypeNumbers
<1>3. QED
  BY <1>1, <1>2 DEF Pipe!Issue

LEMMA ExecuteStep == ASSUME TypeOK, IInv, PInv, ChipExecute PROVE Pipe!Execute
<1>1. /\ h2c # << >> /\ Head(h2c).kind = "cmd" /\ Head(h2c).seq = cexp
      /\ executed' = executed + 1 /\ UNCHANGED <<pc, issued, completed>>
  BY DEF ChipExecute, ChipTake, hostvars, progvars
<1>2. ~CaughtUp
  <2>1. Head(h2c) \in Idle \cup Spent \cup Current
    BY <1>1, TakeTyped DEF PInv, CmdsOn
  <2>2. Head(h2c) \in Due /\ Head(h2c) \notin Idle /\ Head(h2c) \notin Spent
    BY <1>1, <2>1, Members, SpentNotDue DEF Due, Idle
  <2>3. QED
    BY <2>1, <2>2 DEF Current
<1>3. executed < issued
  BY <1>2 DEF PInv, Sync, TypeOK, TypeNumbers
<1>4. QED
  BY <1>1, <1>3 DEF Pipe!Execute

LEMMA CompleteStep ==
  ASSUME TypeOK, IInv, PInv, CommandDone \/ PatchDone \/ ResetDone PROVE Pipe!Complete
<1>1. /\ pc = "batch" /\ pc' # "exit" /\ op \notin LinkOps /\ Answered
      /\ completed' = completed + 1 /\ UNCHANGED <<issued, executed>>
  BY DEF CommandDone, PatchDone, ResetDone, LoopDone, LoopBottom, Proceed, LinkOps, InitOps
<1>2. Completed /\ Waiting
  BY <1>1 DEF Completed, Waiting
<1>3. executed = issued /\ issued = completed + 1
  BY <1>1, <1>2 DEF PInv, Settled, CaughtUp, IInv, Counts
<1>4. completed < executed
  BY <1>3 DEF TypeOK, TypeNumbers
<1>5. QED
  BY <1>1, <1>4 DEF Pipe!Complete

(* Giving up ends the pipe; whatever else happens does not concern it.     *)
LEMMA OtherSteps ==
  ASSUME TypeOK, IInv, Next, ~SendCommand, ~SendPatch, ~ChipExecute, ~CommandDone,
         ~PatchDone, ~ResetDone
  PROVE  Pipe!End \/ UNCHANGED <<issued, executed, completed, pc = "exit">>
<1>1. CASE GiveUp
  <2>1. pc = "batch" /\ pc' = "exit" /\ UNCHANGED <<issued, executed, completed>>
    BY <1>1 DEF GiveUp, Handling, pipevars
  <2>2. QED
    BY <2>1 DEF Pipe!End
<1>2. CASE SendLinkReq
  BY <1>2 DEF SendLinkReq, Transmit
<1>3. CASE HostReceives \/ Retransmit
  BY <1>3 DEF HostReceives, RecvEvent, RecvOutOfOrder, RecvLinkCtl, RecvAck, RecvNothing,
     Retransmit, TakePacket, Handling, pipevars, progvars
<1>4. CASE Poll \/ LoopAgain \/ LinkReqDone
  <2>1. LinkReqDone => pc' # "exit" /\ UNCHANGED <<issued, executed, completed>>
    BY DEF LinkReqDone, LoopDone, Proceed
  <2>2. QED
    BY <1>4, <2>1 DEF Poll, LoopAgain, LinkReqDone, LoopDone, LoopBottom, pipevars
<1>5. CASE SetSpeed \/ StartDownload \/ Expire \/ Lose
  BY <1>5 DEF SetSpeed, StartDownload, Expire, Lose, pipevars, hostvars, progvars
<1>6. CASE Chip \/ Finished
  BY <1>6 DEF Chip, ChipReceives, ChipRecvLinkCtl, ChipRecvAck, ChipDuplicate, ChipTake,
     ChipRetransmit, ChipEvent, ChipLinkReq, ChipSetSpeed, Finished, vars, hostvars, progvars,
     pipevars
<1>7. QED
  BY <1>1, <1>2, <1>3, <1>4, <1>5, <1>6 DEF Next, Host, HostSends, HostTimer, HostLoop

(* The link implements the pipe: over a line that loses, holds back and    *)
(* repeats packets, with retransmissions on both sides (start_transmit_    *)
(* wait, h5_recv, h5_download_patch), each command is issued, executed and *)
(* completed once, and none is completed before it was executed.           *)
THEOREM ImplementsPipe == ASSUME Quiet PROVE Spec => PipeSpec
<1>1. (TypeOK /\ IInv /\ PInv) /\ [Next]_vars => [Pipe!Next]_(Pipe!pipe)
  <2> SUFFICES ASSUME TypeOK, IInv, PInv, [Next]_vars PROVE [Pipe!Next]_(Pipe!pipe)
    OBVIOUS
  <2>1. CASE UNCHANGED vars
    BY <2>1 DEF vars, hostvars, progvars, pipevars, Pipe!pipe
  <2>2. CASE Next
    <3>1. CASE \/ SendCommand \/ SendPatch \/ ChipExecute \/ CommandDone \/ PatchDone
               \/ ResetDone
      BY <3>1, IssueStep, ExecuteStep, CompleteStep DEF Pipe!Next
    <3>2. CASE ~(\/ SendCommand \/ SendPatch \/ ChipExecute \/ CommandDone \/ PatchDone
                 \/ ResetDone)
      BY <2>2, <3>2, OtherSteps DEF Pipe!Next, Pipe!pipe
    <3>3. QED
      BY <3>1, <3>2
  <2>3. QED
    BY <2>1, <2>2
<1>2. QED
  BY <1>1, InitPipe, PipeInvariance, PTL DEF Spec, PipeSpec, Pipe!Spec

-----------------------------------------------------------------------------
(* Downloads whose last packet has no number above 254, so that only that  *)
(* packet carries bit 7 (RollOverSparesBit7): of a longer one the run      *)
(* h5_rollover shows what becomes.                                         *)
Short == \A c \in Chips : c[1].endIdx <= 247

(* The host leaves H5_PATCH when the last packet has been executed.        *)
Late == link \in {"H5_HCI_RESET", "H5_ACTIVE"} =>
          \/ op = "OP_HCI_RESET"
          \/ op = "OP_PATCH" /\ Waiting /\ i = total_num /\ CaughtUp

LEMMA ShortUnmarked == ASSUME NEW total \in 0..254, NEW n \in Nat, n < total
                       PROVE  CurrIdx(n, total) < 128
<1>1. n \in 0..254 /\ n # total
  BY SMT
<1>2. RollOver(n) \in 0..127 /\ CurrIdx(n, total) = RollOver(n)
  BY <1>1, RollOverSparesBit7, Zenon DEF CurrIdx
<1>3. QED
  BY <1>2

LEMMA ShortTotal == ASSUME Short, TypeOK, IInv, op = "OP_PATCH", pc \notin {"speed", "load"}
                    PROVE  total_num \in 0..254 /\ i <= total_num
<1>1. total_num = TotalIdx(num_of_cmd_sent, chip.endIdx) /\ i <= total_num
  BY DEF IInv, Counts, LinkOps
<1>2. chip.endIdx \in Nat /\ num_of_cmd_sent \in Nat
  BY ChipTyped, SMT DEF TypeOK, TypeNumbers, Device, MaxEndIdx
<1>3. chip.endIdx <= 247
  BY DEF Short, TypeOK, TypeProgram
<1>4. AddPkts(num_of_cmd_sent, chip.endIdx) \in 0..7
  BY <1>2, AddPktsRange
<1>5. total_num = AddPkts(num_of_cmd_sent, chip.endIdx) + chip.endIdx
  BY <1>1, Zenon DEF TotalIdx
<1>6. QED
  BY <1>1, <1>2, <1>3, <1>4, <1>5

(* An event that is accepted while a packet of the download is awaited is  *)
(* that packet's, or that of the packet before.                            *)
LEMMA AcceptedInDownload ==
  ASSUME TypeOK, IInv, PInv, RecvEvent, op = "OP_PATCH"
  PROVE  \/ CaughtUp /\ Head(c2h).idx = CurrIdx(i, total_num)
         \/ i > 0 /\ Head(c2h).idx = CurrIdx(i - 1, total_num)
<1> DEFINE e == Head(c2h)
<1>1. /\ c2h # << >> /\ e.kind = "evt" /\ e.seq = rxseq_txack /\ Waiting /\ op \notin LinkOps
      /\ rxseq_txack \in SEQ /\ i \in Nat
  BY DEF RecvEvent, TakePacket, Handling, Waiting, LinkOps, TypeOK, TypeNumbers
<1>2. e \in Fresh \cup Stale /\ (Completed => e \in Fresh)
  BY <1>1, TakeTyped DEF PInv, EvtsOn, Other
<1>3. CASE e \in Fresh
  <2>1. CaughtUp /\ e.idx = out.idx
    BY <1>3 DEF Fresh
  <2>2. QED
    BY <1>1, <2>1 DEF PInv, Kept
<1>4. CASE e \notin Fresh
  <2>1. Succ8(e.seq) = out.ack /\ Precedes(e) /\ ~Answered
    BY <1>1, <1>2, <1>4 DEF Stale, Completed
  <2>2. i # 0
    <3>1. i = 0 => rxseq_txack = out.ack
      BY <1>1, <2>1 DEF PInv, FirstPacket
    <3>2. QED
      BY <1>1, <2>1, <3>1, Succ8Steps
  <2>3. QED
    BY <1>1, <2>1, <2>2 DEF Precedes
<1>5. QED
  BY <1>3, <1>4

LEMMA RecvEventLate == ASSUME Short, TypeOK, IInv, PInv, Late, RecvEvent PROVE Late'
<1>1. /\ pc = "batch" /\ UNCHANGED <<op, pc, i, total_num, issued, executed>>
      /\ HciRecvFrame(Head(c2h))
  BY DEF RecvEvent, TakePacket, Handling, pipevars
<1>2. CASE link = "H5_PATCH" /\ link' # link
  <2>1. Head(c2h).idx >= 128
    BY <1>1, <1>2 DEF HciRecvFrame
  <2>2. op \in {"OP_PATCH", "OP_HCI_RESET"}
    BY <1>1, <1>2 DEF IInv, Stage, TypeOK, TypeProgram, Ops
  <2>3. op = "OP_PATCH" => CaughtUp /\ i = total_num
    <3>1. SUFFICES ASSUME op = "OP_PATCH" PROVE CaughtUp /\ i = total_num
      OBVIOUS
    <3>2. total_num \in 0..254 /\ i <= total_num /\ i \in Nat
      BY <1>1, <3>1, ShortTotal DEF TypeOK, TypeNumbers
    <3>3. ASSUME i > 0 PROVE CurrIdx(i - 1, total_num) < 128
      BY <3>2, <3>3, ShortUnmarked, SMTT(30)
    <3>4. ASSUME i < total_num PROVE CurrIdx(i, total_num) < 128
      BY <3>2, <3>4, ShortUnmarked, SMTT(30)
    <3>5. total_num \in Nat /\ (i > 0 => i - 1 \in Nat)
      BY <3>2
    <3>6. /\ CurrIdx(i, total_num) \in 0..255
          /\ i > 0 => CurrIdx(i - 1, total_num) \in 0..255
      BY <3>2, <3>5, CurrIdxRange
    <3>7. QED
      BY <2>1, <3>1, <3>2, <3>3, <3>4, <3>5, <3>6, AcceptedInDownload
  <2>4. QED
    BY <1>1, <2>2, <2>3 DEF Late, Waiting, CaughtUp
<1>3. CASE link # "H5_PATCH" \/ link' = link
  <2>1. link' \in {"H5_HCI_RESET", "H5_ACTIVE"} => link \in {"H5_HCI_RESET", "H5_ACTIVE"}
    BY <1>1, <1>3 DEF HciRecvFrame, TypeOK, TypeProgram, LinkStates
  <2>2. QED
    BY <1>1, <2>1 DEF Late, Waiting, CaughtUp
<1>4. QED
  BY <1>2, <1>3

LEMMA NextLate == ASSUME Short, Quiet, TypeOK, IInv, PInv, Late, [Next]_vars PROVE Late'
<1>1. CASE SendLinkReq \/ SendCommand \/ SendPatch
  <2>1. /\ UNCHANGED <<op, link>> /\ pc = "issue"
    BY <1>1 DEF SendLinkReq, SendCommand, SendPatch, Reliable, Transmit
  <2>2. QED
    BY <2>1 DEF Late, Waiting
<1>2. CASE RecvEvent
  BY <1>2, RecvEventLate
<1>3. CASE RecvLinkCtl
  <2>1. /\ UNCHANGED <<op, pc, i, total_num, issued, executed>>
        /\ link' # link => link' \in {"H5_CONFIG", "H5_INIT"}
    BY <1>3 DEF RecvLinkCtl, TakePacket, pipevars
  <2>2. QED
    BY <2>1 DEF Late, Waiting, CaughtUp
<1>4. CASE \/ RecvOutOfOrder \/ RecvAck \/ RecvNothing \/ HostTimer \/ Poll \/ LoopAgain \/ Expire
  <2>1. /\ UNCHANGED <<op, link, i, total_num, issued, executed>>
        /\ Waiting /\ Waiting'
    BY <1>4 DEF RecvOutOfOrder, RecvAck, RecvNothing, HostTimer, Retransmit, GiveUp, Poll,
       LoopAgain, Expire, TakePacket, Handling, LoopBottom, Waiting, dlvars, progvars, pipevars
  <2>2. QED
    BY <2>1 DEF Late, CaughtUp
<1>5. CASE LinkReqDone \/ CommandDone
  <2>1. op \in LinkOps \cup InitOps /\ link' = link
    BY <1>5 DEF LinkReqDone, CommandDone, LoopDone
  <2>2. link \in {"H5_SYNC", "H5_CONFIG", "H5_INIT"}
    BY <2>1 DEF IInv, Stage
  <2>3. QED
    BY <2>1, <2>2 DEF Late
<1>6. CASE PatchDone \/ ResetDone
  <2>1. /\ link' = link
        /\ \/ op = "OP_PATCH" /\ op' = IF i < total_num THEN "OP_PATCH" ELSE "OP_HCI_RESET"
           \/ op = "OP_HCI_RESET" /\ op' = op
    BY <1>6 DEF PatchDone, ResetDone, LoopDone
  <2>2. QED
    BY <2>1 DEF Late, TypeOK, TypeNumbers
<1>7. CASE SetSpeed \/ StartDownload
  <2>1. link' \in {link, "H5_PATCH"} /\ op' = op /\ pc \in {"speed", "load"}
    BY <1>7 DEF SetSpeed, StartDownload
  <2>2. QED
    BY <2>1 DEF Late, Waiting
<1>8. CASE ChipExecute
  <2>1. Pipe!Execute /\ UNCHANGED <<op, link>>
    BY <1>8, ExecuteStep DEF ChipExecute, ChipTake, hostvars, progvars
  <2>2. ~CaughtUp
    BY <2>1 DEF Pipe!Execute, CaughtUp, TypeOK, TypeNumbers
  <2>3. QED
    BY <2>1, <2>2 DEF Late
<1>9. CASE \/ Lose \/ ChipRecvLinkCtl \/ ChipRecvAck \/ ChipDuplicate \/ ChipRetransmit
           \/ ChipSetSpeed \/ Finished \/ UNCHANGED vars
  <2>1. UNCHANGED <<op, pc, link, i, total_num, issued, executed>>
    BY <1>9 DEF Lose, ChipRecvLinkCtl, ChipRecvAck, ChipDuplicate, ChipTake, ChipRetransmit,
       ChipSetSpeed, Finished, vars, hostvars, progvars, dlvars, pipevars
  <2>2. QED
    BY <2>1 DEF Late, Waiting, CaughtUp
<1>10. QED
  BY <1>1, <1>2, <1>3, <1>4, <1>5, <1>6, <1>7, <1>8, <1>9, NothingUnasked DEF Next, Host,
     HostSends, HostReceives, HostLoop, Chip, ChipReceives

(* The host leaves the download, and resets the controller, only after the *)
(* controller has executed every packet (hci_recv_frame's test of bit 7),  *)
(* whatever the line loses and repeats, for every download short enough    *)
(* for its index not to run into bit 7.                                    *)
THEOREM ResetLast == ASSUME Quiet, Short PROVE Spec => []ResetAfterAll
<1>1. Init => Late
  BY DEF Init, Late
<1>2. (TypeOK /\ IInv /\ PInv) /\ Late /\ [Next]_vars => Late'
  BY NextLate
<1>3. TypeOK /\ IInv /\ PInv /\ Late => ResetAfterAll
  <2> SUFFICES ASSUME TypeOK, IInv, PInv, Late, link \in {"H5_HCI_RESET", "H5_ACTIVE"}
               PROVE  executed > num_of_cmd_sent + total_num
    BY DEF ResetAfterAll
  <2>1. CASE op = "OP_HCI_RESET"
    <3>1. /\ completed >= num_of_cmd_sent + total_num + 1
          /\ issued = completed + (IF Waiting THEN 1 ELSE 0)
      BY <2>1 DEF IInv, Counts, LinkOps, TypeOK, TypeNumbers
    <3>2. executed = issued \/ (issued = executed + 1 /\ Waiting)
      BY DEF PInv, Sync, CaughtUp
    <3>3. QED
      BY <3>1, <3>2 DEF TypeOK, TypeNumbers
  <2>2. CASE op = "OP_PATCH" /\ Waiting /\ i = total_num /\ CaughtUp
    <3>1. completed = num_of_cmd_sent + i /\ issued = completed + 1
      BY <2>2 DEF IInv, Counts, LinkOps, Waiting
    <3>2. QED
      BY <2>2, <3>1 DEF CaughtUp, TypeOK, TypeNumbers
  <2>3. QED
    BY <2>1, <2>2 DEF Late
<1>4. QED
  BY <1>1, <1>2, <1>3, PipeInvariance, PTL DEF Spec

-----------------------------------------------------------------------------
(* Giving up.  A controller that answers in time and agrees, on a line     *)
(* that loses nothing and has room for an acknowledgement and a packet     *)
(* behind it; a download whose index does not run into bit 7 and, if the   *)
(* controller restarts its numbers, does not wrap either.  Of longer ones  *)
(* the runs h5_rollover and h5_longreset show what becomes.                *)
Favourable ==
  /\ Willing(0) /\ line.cap >= 2
  /\ chip.endIdx <= 247 /\ (chip.resets => chip.endIdx <= 120)

(* The link state in which an operation is begun, and that in which it has *)
(* been answered.                                                          *)
Before ==
  CASE op = "OP_H5_SYNC"   -> "H5_SYNC"
    [] op = "OP_H5_CONFIG" -> "H5_CONFIG"
    [] op \in InitOps      -> "H5_INIT"
    [] op = "OP_PATCH"     -> "H5_PATCH"
    [] OTHER               -> "H5_HCI_RESET"

After ==
  CASE op = "OP_H5_SYNC"   -> "H5_CONFIG"
    [] op = "OP_H5_CONFIG" -> "H5_INIT"
    [] op \in InitOps      -> "H5_INIT"
    [] op = "OP_PATCH"     -> IF i = total_num THEN "H5_HCI_RESET" ELSE "H5_PATCH"
    [] OTHER               -> "H5_ACTIVE"

Question == CASE op = "OP_H5_SYNC" -> "sync" [] op = "OP_H5_CONFIG" -> "conf" [] OTHER -> "cmd"
Response == IF op = "OP_H5_SYNC" THEN "syncresp" ELSE "confresp"

Steady ==
  /\ pc # "exit" /\ timer # "expired" /\ ~refused /\ burst = 0
  /\ pc # "speed" => hfast = cfast
  /\ Preparing => pc \in {"issue", "poll", "batch"}
  /\ pc \in {"speed", "load"} => op = "OP_PATCH"
  /\ op \in LinkOps => ~is_txack_req
  /\ op \notin LinkOps => cact
  /\ op = "OP_PATCH" /\ pc \notin {"speed", "load"} =>
       i <= total_num /\ total_num <= 254 /\ (chip.resets => total_num <= 127)

(* Nothing is asked, or the answer has been taken.                         *)
Rest ==
  /\ \/ /\ pc = "issue" /\ link = Before
        /\ op = "OP_PATCH" =>
             rx_index = IF i = 0 THEN -1 ELSE CurrIdx(i - 1, total_num) % 128
     \/ pc \in {"speed", "load", "done"}
     \/ /\ pc = "batch" /\ ready = << >> /\ Answered /\ link = After
        /\ op = "OP_PATCH" => rx_index = CurrIdx(i, total_num) % 128
        /\ op = "OP_H5_CONFIG" => cact
  /\ c2h = << >> /\ (h2c = << >> \/ \E a \in SEQ : h2c = <<PureAck(a)>>)
  /\ op \in LinkOps => h2c = << >>
  /\ cexp = msgq_txseq /\ ctx = rxseq_txack

Unanswered ==
  /\ link = Before
  /\ op \in InitOps \cup {"OP_HCI_RESET"} => ~cmd_ok /\ cmd_opcode = op
  /\ out.kind = Question
  /\ op \notin LinkOps => out.op = op
  /\ op = "OP_PATCH" => /\ out.idx = CurrIdx(i, total_num)
                        /\ tx_index = CurrIdx(i, total_num) % 128 /\ rx_index # tx_index

(* The packet is on its way to the controller ...                          *)
Asked ==
  /\ pc = "poll" /\ Unanswered
  /\ c2h = << >> /\ (h2c = <<out>> \/ \E a \in SEQ : h2c = <<PureAck(a), out>>)
  /\ IF op \in LinkOps THEN cexp = msgq_txseq
                       ELSE cexp = out.seq /\ Succ8(cexp) = msgq_txseq
  /\ ctx = rxseq_txack

(* ... or its answer to the host, with the number expected unless the      *)
(* controller has restarted its numbers ...                                *)
Answers(e) ==
  IF op \in LinkOps
  THEN /\ e = LinkCtl(Response) /\ ctx = rxseq_txack
       /\ op = "OP_H5_CONFIG" => cact
  ELSE /\ e.kind = "evt" /\ e.op = op /\ e.st = 0 /\ ctx = Succ8(e.seq)
       /\ op = "OP_PATCH" => e.idx = CurrIdx(i, total_num)

Restarted(e) ==
  chip.resets /\ op = "OP_PATCH" /\ i = total_num /\ unacked = <<e>> /\ ~cretx

Told ==
  /\ pc = "poll" \/ (pc = "batch" /\ ready = <<"serial">>)
  /\ Unanswered /\ h2c = << >> /\ cexp = msgq_txseq
  /\ c2h # << >> /\ c2h = <<Head(c2h)>> /\ Answers(Head(c2h))
  /\ op \in LinkOps \/ Head(c2h).seq = rxseq_txack \/ Restarted(Head(c2h))

(* ... or was dropped, its number adopted, and will be repeated.           *)
Dropped ==
  /\ pc = "poll" \/ (pc = "batch" /\ ready = << >>)
  /\ Unanswered /\ h2c = << >> /\ c2h = << >> /\ cexp = msgq_txseq
  /\ unacked # << >> /\ Restarted(Head(unacked))
  /\ Answers(Head(unacked)) /\ Head(unacked).seq = rxseq_txack

Phased == Steady /\ (Rest \/ Asked \/ Told \/ Dropped)

FInv == Favourable => Phased

-----------------------------------------------------------------------------
(* What the line does with one packet or none, with room for two.          *)
LEMMA PutNothing == ASSUME line \in Faults, line.cap >= 2 PROVE Put(<< >>, << >>) = << >>
<1>1. line.cap \in Nat /\ Len(<< >>) = 0
  BY DEF Faults
<1>2. << >> \o << >> = << >> /\ SubSeq(<< >>, 1, 0) = << >>
  BY ConcatEmptySeq, SubSeqEmpty
<1>3. QED
  BY <1>1, <1>2, SMT DEF Put

LEMMA PutFits == ASSUME line \in Faults, line.cap >= 2, hfast = cfast,
                        NEW p \in Packet, NEW q \in Packet
                 PROVE  Put(<< >>, <<p>>) = <<p>> /\ Put(<<q>>, <<p>>) = <<q, p>>
<1>1. line.cap \in Nat
  BY DEF Faults
<1>2. /\ << >> \in Seq(Packet) /\ <<p>> \in Seq(Packet) /\ <<q>> \in Seq(Packet)
      /\ <<q, p>> \in Seq(Packet)
      /\ Len(<< >>) = 0 /\ Len(<<p>>) = 1 /\ Len(<<q>>) = 1 /\ Len(<<q, p>>) = 2
  OBVIOUS
<1>3. << >> \o <<p>> = <<p>>
  BY <1>2, ConcatEmptySeq
<1>4. <<q>> \o <<p>> = <<q, p>>
  <2> DEFINE w == <<q>> \o <<p>>
  <2>1. /\ w \in Seq(Packet) /\ Len(w) = 2 /\ w[1] = q /\ w[2] = p
    BY <1>2, ConcatProperties, SMT
  <2>2. <<q, p>>[1] = q /\ <<q, p>>[2] = p
    OBVIOUS
  <2> HIDE DEF w
  <2>3. \A k \in 1..Len(w) : w[k] = <<q, p>>[k]
    BY <2>1, <2>2, SMT
  <2>4. w = <<q, p>>
    BY <1>2, <2>1, <2>3, SeqEqual
  <2>5. QED
    BY <2>4 DEF w
<1>5. SubSeq(<<p>>, 1, 1) = <<p>> /\ SubSeq(<<q, p>>, 1, 2) = <<q, p>>
  BY <1>2, SubSeqFull
<1>6. Put(<< >>, <<p>>) = <<p>>
  <2>1. Put(<< >>, <<p>>) = SubSeq(<<p>>, 1, 1)
    BY <1>1, <1>2, <1>3, SMT DEF Put
  <2>2. QED
    BY <1>5, <2>1
<1>7. Put(<<q>>, <<p>>) = <<q, p>>
  <2>1. Put(<<q>>, <<p>>) = SubSeq(<<q, p>>, 1, 2)
    BY <1>1, <1>2, <1>4, SMT DEF Put
  <2>2. QED
    BY <1>5, <2>1
<1>8. QED
  BY <1>6, <1>7

(* One packet after the other.                                             *)
LEMMA TakeOne == ASSUME NEW p, NEW q
                 PROVE  /\ <<p>> # << >> /\ Head(<<p>>) = p /\ Tail(<<p>>) = << >>
                        /\ <<p, q>> # << >> /\ Head(<<p, q>>) = p /\ Tail(<<p, q>>) = <<q>>
  OBVIOUS

LEMMA FavourableSame == ASSUME UNCHANGED <<chip, line>> PROVE Favourable' = Favourable
  BY DEF Favourable, Willing

LEMMA FavourableTyped == ASSUME TypeOK, Favourable
                         PROVE  /\ chip \in Device /\ line \in Faults /\ line.cap >= 2
                                /\ line.loss = 0 /\ line.noise = 0 /\ line.refuses = {}
                                /\ line.prompt
<1>1. chip \in Device /\ line \in Faults
  BY ChipTyped DEF TypeOK
<1>2. line.loss \in Nat
  BY <1>1 DEF Faults
<1>3. QED
  BY <1>1, <1>2 DEF Favourable, Willing

(* Which phase it is, by where the program is and what is on the line.     *)
LEMMA Phase == ASSUME Phased
               PROVE  /\ pc \notin {"poll", "batch"} => Rest
                      /\ pc = "poll" => Asked \/ Told \/ Dropped
                      /\ pc = "batch" /\ ready # << >> => Told /\ ready = <<"serial">>
                      /\ pc = "batch" /\ ready = << >> => Rest \/ Dropped
                      /\ c2h # << >> => Told
                      /\ h2c # << >> => Rest \/ Asked
  BY DEF Phased, Rest, Asked, Told, Dropped, Steady

(* What cannot happen while the conditions are favourable.                 *)
LEMMA Excluded == ASSUME TypeOK, Favourable, Phased
                  PROVE  /\ ~Lose /\ ~ChipEvent /\ ~ChipLinkReq /\ ~Expire /\ ~HostTimer
                         /\ ~RecvNothing /\ ~RecvAck /\ ~ChipDuplicate
<1>1. line.loss = 0 /\ line.noise = 0 /\ line.prompt
  BY FavourableTyped
<1>2. ~Lose /\ ~ChipEvent /\ ~ChipLinkReq
  BY <1>1 DEF Lose, ChipEvent, ChipLinkReq, TypeOK, TypeNumbers
<1>3. ~Expire
  <2>1. Dropped => unacked # << >> /\ ~cretx
    BY DEF Dropped, Restarted
  <2>2. Asked => h2c # << >>
    BY TakeOne DEF Asked
  <2>3. Told => c2h # << >>
    BY DEF Told
  <2>4. QED
    BY <1>1, <2>1, <2>2, <2>3, Phase DEF Expire
<1>4. ~HostTimer /\ ~RecvNothing
  <2>1. pc = "batch" /\ ready # << >> => Head(ready) = "serial" /\ c2h # << >>
    BY Phase, TakeOne DEF Told
  <2>2. QED
    BY <2>1 DEF HostTimer, Retransmit, GiveUp, RecvNothing, Handling
<1>5. ~RecvAck
  <2>1. Told => Head(c2h).kind # "ack"
    BY DEF Told, Answers, LinkCtl, Frame, Response
  <2>2. QED
    BY <2>1, Phase DEF RecvAck, TakePacket
<1>6. ~ChipDuplicate
  <2>1. Rest /\ h2c # << >> => Head(h2c).kind # "cmd"
    BY TakeOne DEF Rest, PureAck, Frame
  <2>2. Asked /\ Head(h2c).kind = "cmd" => cact /\ Head(h2c).seq = cexp
    <3>1. ASSUME NEW a \in SEQ, h2c = <<PureAck(a), out>> PROVE Head(h2c).kind = "ack"
      BY <3>1, TakeOne DEF PureAck, Frame
    <3>2. Asked /\ Head(h2c).kind = "cmd" => Head(h2c) = out
      BY <3>1, TakeOne DEF Asked
    <3>3. Asked /\ out.kind = "cmd" => op \notin LinkOps
      BY DEF Asked, Unanswered, Question, LinkOps
    <3>4. QED
      BY <3>2, <3>3 DEF Asked, Phased, Steady
  <2>3. QED
    BY <2>1, <2>2, Phase DEF ChipDuplicate, ChipTake
<1>7. QED
  BY <1>2, <1>3, <1>4, <1>5, <1>6

(* What is sent while the program rests goes behind an acknowledgement at  *)
(* most.                                                                   *)
LEMMA SendLines == ASSUME TypeOK, Favourable, Phased, pc = "issue", NEW p \in Packet,
                          h2c' = Put(h2c, <<p>>)
                   PROVE  /\ h2c' = <<p>> \/ \E a \in SEQ : h2c' = <<PureAck(a), p>>
                          /\ op \in LinkOps => h2c' = <<p>>
<1>1. line \in Faults /\ line.cap >= 2 /\ hfast = cfast
  BY FavourableTyped DEF Phased, Steady
<1>2. Rest
  BY Phase
<1>3. CASE h2c = << >>
  BY <1>1, <1>3, PutFits
<1>4. ASSUME NEW a \in SEQ, h2c = <<PureAck(a)>> PROVE h2c' = <<PureAck(a), p>>
  BY <1>1, <1>4, PutFits, CtlTyped
<1>5. QED
  BY <1>2, <1>3, <1>4 DEF Rest

LEMMA SendLinkReqPhased == ASSUME TypeOK, Favourable, Phased, SendLinkReq PROVE Phased'
<1> DEFINE p == Frame(Question, 0, rxseq_txack, "none", 0, 0)
<1>1. /\ op \in LinkOps /\ pc = "issue" /\ pc' = "poll" /\ out' = p /\ h2c' = Put(h2c, <<p>>)
      /\ timer' = "armed" /\ is_txack_req' = FALSE
      /\ UNCHANGED <<chip, line, op, link, rxseq_txack, i, total_num, burst, hfast, c2h,
                     msgq_txseq, cfast, refused, cact, cexp, ctx>>
  BY DEF SendLinkReq, Transmit, chipvars, LinkOps, Question
<1>2. p \in Packet /\ p.kind = Question
  <2>1. 0 \in SEQ /\ 0 \in 0..255 /\ 0 \in {0, 1} /\ rxseq_txack \in SEQ
    BY SMT DEF SEQ, TypeOK, TypeNumbers
  <2>2. Question \in LinkKinds \cup {"ack", "cmd", "evt"}
    BY DEF Question, LinkKinds
  <2>3. p \in Packet
    BY <2>1, <2>2, FrameTyped
  <2>4. QED
    BY <2>3 DEF Frame
<1>3. h2c' = <<p>>
  BY <1>1, <1>2, SendLines
<1>4. Rest
  BY <1>1, Phase
<1>5. Steady'
  BY <1>1 DEF Phased, Steady, Preparing, LinkOps, InitOps
<1>6. Unanswered'
  BY <1>1, <1>2, <1>4 DEF Unanswered, Rest, Before, Question, LinkOps, InitOps
<1>7. Asked'
  BY <1>1, <1>3, <1>4, <1>6 DEF Asked, Rest
<1>8. QED
  BY <1>5, <1>7 DEF Phased

(* A command carries the number the controller expects next.               *)
LEMMA ReliablePhased == ASSUME TypeOK, Favourable, Phased, SendCommand \/ SendPatch PROVE Phased'
<1> DEFINE idx == IF op = "OP_PATCH" THEN CurrIdx(i, total_num) ELSE 0
           p   == Frame("cmd", msgq_txseq, rxseq_txack, op, idx, 0)
<1>1. /\ op \notin LinkOps /\ op \in Ops /\ pc = "issue" /\ pc' = "poll" /\ out' = p
      /\ h2c' = Put(h2c, <<p>>) /\ timer' = "armed" /\ msgq_txseq' = Succ8(msgq_txseq)
      /\ UNCHANGED <<chip, line, op, link, rxseq_txack, i, total_num, rx_index, burst, hfast,
                     c2h, cfast, refused, cact, cexp, ctx>>
      /\ op # "OP_PATCH" => cmd_opcode' = op /\ cmd_ok' = FALSE
      /\ op = "OP_PATCH" => tx_index' = CurrIdx(i, total_num) % 128
  BY DEF SendCommand, SendPatch, Reliable, Transmit, chipvars, LinkOps, InitOps, Ops
<1>2. i \in Nat /\ total_num \in Nat
  BY DEF TypeOK, TypeNumbers
<1>3. CurrIdx(i, total_num) \in 0..255
  BY <1>2, CurrIdxRange
<1>4. p \in Packet /\ p.kind = "cmd" /\ p.seq = msgq_txseq /\ p.op = op /\ p.idx = idx
  <2>1. idx \in 0..255 /\ 0 \in {0, 1} /\ rxseq_txack \in SEQ /\ msgq_txseq \in SEQ
    BY <1>3, SMT DEF TypeOK, TypeNumbers
  <2>2. p \in Packet
    BY <1>1, <2>1, FrameTyped, Zenon
  <2>3. QED
    BY <2>2, Zenon DEF Frame
<1>5. h2c' = <<p>> \/ \E a \in SEQ : h2c' = <<PureAck(a), p>>
  BY <1>1, <1>4, SendLines
<1>6. Rest
  BY <1>1, Phase
<1>7. Steady'
  BY <1>1 DEF Phased, Steady, Preparing
<1>8. op = "OP_PATCH" => rx_index # CurrIdx(i, total_num) % 128
  <2>1. i > 0 => CurrIdx(i, total_num) % 128 # CurrIdx(i - 1, total_num) % 128
    BY <1>2, IndexChanges
  <2>2. CurrIdx(i, total_num) % 128 \in 0..127
    BY <1>3, SMT
  <2>3. op = "OP_PATCH" => rx_index = IF i = 0 THEN -1 ELSE CurrIdx(i - 1, total_num) % 128
    BY <1>1, <1>6 DEF Rest
  <2>4. QED
    BY <1>2, <2>1, <2>2, <2>3, SMT
<1>9. Unanswered'
  <2>1. link' = Before' /\ out'.kind = Question'
    BY <1>1, <1>4, <1>6 DEF Rest, Before, Question, LinkOps
  <2>2. QED
    BY <1>1, <1>4, <1>8, <2>1 DEF Unanswered, InitOps
<1>10. Asked'
  <2>1. cexp = msgq_txseq /\ ctx = rxseq_txack /\ c2h = << >>
    BY <1>6 DEF Rest
  <2>2. QED
    BY <1>1, <1>4, <1>5, <1>9, <2>1 DEF Asked
<1>11. QED
  BY <1>7, <1>10 DEF Phased

(* What is read is the answer, and nothing is behind it.                   *)
LEMMA Taking == ASSUME TypeOK, Favourable, Phased, TakePacket
                PROVE  /\ Told /\ pc = "batch" /\ Head(c2h) \in Packet
                       /\ c2h' = << >> /\ ready' = << >> /\ burst' = 0
                       /\ line \in Faults /\ line.cap >= 2 /\ hfast = cfast
<1>1. pc = "batch" /\ ready # << >> /\ c2h # << >> /\ c2h \in Seq(Packet)
  BY DEF TakePacket, Handling, TypeOK, TypePackets
<1>2. Told /\ ready = <<"serial">>
  BY <1>1, Phase
<1>3. PICK e : c2h = <<e>>
  BY <1>2 DEF Told
<1>4. Len(c2h) = 1 /\ Tail(c2h) = << >> /\ Tail(ready) = << >>
  BY <1>2, <1>3, TakeOne
<1>5. burst' = 0
  BY <1>4 DEF TakePacket, Phased, Steady
<1>6. c2h' = << >> /\ ready' = << >>
  BY <1>4, <1>5 DEF TakePacket
<1>7. line \in Faults /\ line.cap >= 2 /\ hfast = cfast
  BY <1>1, FavourableTyped DEF Phased, Steady
<1>8. QED
  BY <1>1, <1>2, <1>5, <1>6, <1>7, TakeTyped

LEMMA RecvLinkCtlPhased == ASSUME TypeOK, Favourable, Phased, RecvLinkCtl PROVE Phased'
<1> DEFINE e == Head(c2h)
<1>1. /\ Told /\ pc = "batch" /\ c2h' = << >> /\ ready' = << >> /\ burst' = 0
      /\ line \in Faults /\ line.cap >= 2 /\ hfast = cfast
  BY Taking DEF RecvLinkCtl
<1>2. /\ e.kind \in LinkKinds /\ h2c' = Put(h2c, LinkReply(e.kind)) /\ is_txack_req' = FALSE
      /\ link' = CASE link = "H5_SYNC" /\ e.kind = "syncresp" -> "H5_CONFIG"
                   [] link = "H5_CONFIG" /\ e.kind = "confresp" -> "H5_INIT"
                   [] OTHER -> link
      /\ UNCHANGED <<chip, line, op, pc, i, total_num, timer, hfast, cfast, refused, cact,
                     cexp, ctx, msgq_txseq, rxseq_txack>>
  BY DEF RecvLinkCtl, TakePacket, chipvars
<1>3. op \in LinkOps /\ e.kind = Response
  <2>1. op \in LinkOps
    BY <1>1, <1>2 DEF Told, Answers, LinkKinds
  <2>2. QED
    BY <1>1, <2>1 DEF Told, Answers, LinkCtl, Frame
<1>4. link = Before
  BY <1>1 DEF Told, Unanswered
<1>5. LinkReply(e.kind) = << >>
  BY <1>3, <1>4 DEF LinkReply, Before, Response, AckOwed, Phased, Steady, LinkOps
<1>6. h2c' = << >>
  <2>1. h2c' = Put(<< >>, << >>)
    BY <1>1, <1>2, <1>5 DEF Told
  <2>2. Put(<< >>, << >>) = << >>
    BY <1>1, PutNothing
  <2>3. QED
    BY <2>1, <2>2
<1>7. link' = After /\ Answered'
  <2>1. CASE op = "OP_H5_SYNC"
    <3>1. link = "H5_SYNC" /\ e.kind = "syncresp"
      BY <1>3, <1>4, <2>1 DEF Before, Response, InitOps
    <3>2. QED
      BY <1>2, <2>1, <3>1 DEF After, Answered, InitOps
  <2>2. CASE op = "OP_H5_CONFIG"
    <3>1. link = "H5_CONFIG" /\ e.kind = "confresp"
      BY <1>3, <1>4, <2>2 DEF Before, Response, InitOps
    <3>2. QED
      BY <1>2, <2>2, <3>1 DEF After, Answered, InitOps
  <2>3. QED
    BY <1>3, <2>1, <2>2 DEF LinkOps
<1>8. Steady'
  BY <1>1, <1>2, <1>3 DEF Phased, Steady, Preparing, LinkOps
<1>9. Rest'
  <2>1. After' = After
    BY <1>2, <1>3, Zenon DEF After, LinkOps
  <2>2. cexp = msgq_txseq /\ ctx = rxseq_txack /\ (op = "OP_H5_CONFIG" => cact)
    BY <1>1, <1>3 DEF Told, Answers
  <2>3. QED
    BY <1>1, <1>2, <1>3, <1>6, <1>7, <2>1, <2>2 DEF Rest, LinkOps
<1>10. QED
  BY <1>8, <1>9 DEF Phased

(* The answer carries bit 7 if it is that to the last packet.              *)
LEMMA LastByIndex == ASSUME TypeOK, Phased, op = "OP_PATCH", pc \notin {"speed", "load"}
                     PROVE  /\ CurrIdx(i, total_num) >= 128 <=> i = total_num
                            /\ CurrIdx(i, total_num) \in 0..255
<1>1. i \in Nat /\ total_num \in Nat /\ i <= total_num /\ total_num <= 254
  BY DEF TypeOK, TypeNumbers, Phased, Steady
<1>2. CurrIdx(i, total_num) \in 0..255
  BY <1>1, CurrIdxRange
<1>3. i < total_num => CurrIdx(i, total_num) < 128
  <2>1. total_num \in 0..254
    BY <1>1
  <2>2. QED
    BY <1>1, <2>1, ShortUnmarked
<1>4. i = total_num => CurrIdx(i, total_num) >= 128
  BY <1>1, LastMarked
<1>5. QED
  BY <1>1, <1>2, <1>3, <1>4

LEMMA RecvEventPhased == ASSUME TypeOK, Favourable, Phased, RecvEvent PROVE Phased'
<1> DEFINE e == Head(c2h)
<1>1. /\ Told /\ pc = "batch" /\ c2h' = << >> /\ ready' = << >> /\ burst' = 0
      /\ line \in Faults /\ line.cap >= 2 /\ hfast = cfast
  BY Taking DEF RecvEvent
<1>2. /\ e.kind = "evt" /\ e.seq = rxseq_txack /\ HciRecvFrame(e) /\ is_txack_req' = FALSE
      /\ rxseq_txack' = Succ8(rxseq_txack) /\ h2c' = Put(h2c, <<PureAck(Succ8(rxseq_txack))>>)
      /\ UNCHANGED <<chip, line, op, pc, i, total_num, tx_index, cmd_opcode, timer, hfast,
                     cfast, refused, cact, cexp, ctx, msgq_txseq>>
  BY DEF RecvEvent, TakePacket, chipvars
<1>3. op \notin LinkOps /\ op \in Ops
  BY <1>1, <1>2 DEF Told, Answers, LinkCtl, Frame, Response, TypeOK, TypeProgram
<1>4. /\ e.op = op /\ e.st = 0 /\ ctx = Succ8(e.seq) /\ link = Before /\ h2c = << >>
      /\ cexp = msgq_txseq
      /\ op # "OP_PATCH" => cmd_opcode = op
      /\ op = "OP_PATCH" => /\ e.idx = CurrIdx(i, total_num)
                            /\ tx_index = CurrIdx(i, total_num) % 128
  BY <1>1, <1>3 DEF Told, Answers, Unanswered, InitOps, LinkOps, Ops
<1>5. Succ8(rxseq_txack) \in SEQ
  BY Succ8Typed DEF TypeOK, TypeNumbers
<1>6. h2c' = <<PureAck(Succ8(rxseq_txack))>>
  BY <1>1, <1>2, <1>4, <1>5, PutFits, CtlTyped
<1>7. e.op # "none"
  BY <1>3, <1>4 DEF Ops, LinkOps, InitOps
<1>8. /\ link' = After /\ Answered'
      /\ op = "OP_PATCH" => rx_index' = CurrIdx(i, total_num) % 128
  <2>1. CASE op \in InitOps
    <3>1. link = "H5_INIT" /\ cmd_opcode = op
      BY <1>4, <2>1 DEF Before, InitOps
    <3>2. link' = "H5_INIT" /\ cmd_ok'
      BY <1>2, <1>4, <1>7, <3>1 DEF HciRecvFrame
    <3>3. QED
      BY <1>2, <2>1, <3>2 DEF After, Answered, InitOps
  <2>2. CASE op = "OP_PATCH"
    <3>1. link = "H5_PATCH"
      BY <1>4, <2>2 DEF Before, InitOps
    <3>2. rx_index' = e.idx % 128 /\ link' = IF e.idx >= 128 THEN "H5_HCI_RESET" ELSE link
      BY <1>2, <1>7, <3>1 DEF HciRecvFrame
    <3>3. CurrIdx(i, total_num) >= 128 <=> i = total_num
      BY <1>1, <2>2, LastByIndex
    <3>4. link' = After
      BY <1>4, <2>2, <3>1, <3>2, <3>3 DEF After, InitOps
    <3>5. QED
      BY <1>2, <1>4, <2>2, <3>2, <3>4 DEF Answered
  <2>3. CASE op = "OP_HCI_RESET"
    <3>1. link = "H5_HCI_RESET" /\ cmd_opcode = op
      BY <1>4, <2>3 DEF Before, InitOps
    <3>2. link' = "H5_ACTIVE" /\ cmd_ok'
      BY <1>2, <1>4, <1>7, <2>3, <3>1 DEF HciRecvFrame
    <3>3. QED
      BY <1>2, <2>3, <3>2 DEF After, Answered, InitOps
  <2>4. QED
    BY <1>3, <2>1, <2>2, <2>3 DEF Ops
<1>9. Steady'
  BY <1>1, <1>2, <1>3 DEF Phased, Steady, Preparing
<1>10. Rest'
  <2>1. After' = After
    BY <1>2, Zenon DEF After
  <2>2. cexp = msgq_txseq /\ ctx = rxseq_txack'
    BY <1>2, <1>4
  <2>3. QED
    BY <1>1, <1>2, <1>3, <1>5, <1>6, <1>8, <2>1, <2>2 DEF Rest, LinkOps
<1>11. QED
  BY <1>9, <1>10 DEF Phased

(* Only the answer of a controller that has restarted its numbers is not   *)
(* the one expected; its number is adopted.                                *)
LEMMA RecvOutOfOrderPhased ==
  ASSUME TypeOK, Favourable, Phased, RecvOutOfOrder PROVE Phased'
<1>0. PICK e \in Packet : e = Head(c2h)
  BY Taking DEF RecvOutOfOrder
<1>1. Told /\ pc = "batch" /\ c2h' = << >> /\ ready' = << >> /\ burst' = 0
  BY Taking DEF RecvOutOfOrder
<1>2. /\ e.kind = "evt" /\ e.seq # rxseq_txack
      /\ rxseq_txack' = IF link = "H5_PATCH" /\ tx_index = total_num
                        THEN e.seq ELSE rxseq_txack
      /\ UNCHANGED <<chip, line, op, pc, link, i, total_num, tx_index, rx_index, cmd_opcode,
                     cmd_ok, out, timer, hfast, h2c, cfast, refused, cact, cexp, ctx, msgq_txseq,
                     unacked, cretx>>
  BY <1>0 DEF RecvOutOfOrder, TakePacket, chipvars
<1>3. op \notin LinkOps
  BY <1>0, <1>1, <1>2 DEF Told, Answers, LinkCtl, Frame, Response
<1>4. Restarted(e) /\ op = "OP_PATCH" /\ i = total_num /\ chip.resets /\ unacked = <<e>>
  BY <1>0, <1>1, <1>2, <1>3 DEF Told, Restarted
<1>5. link = "H5_PATCH" /\ tx_index = CurrIdx(total_num, total_num) % 128
  BY <1>1, <1>4 DEF Told, Unanswered, Before, InitOps
<1>6. tx_index = total_num
  <2>1. total_num \in Nat /\ total_num <= 127
    BY <1>1, <1>4 DEF TypeOK, TypeNumbers, Phased, Steady
  <2>2. CurrIdx(total_num, total_num) = total_num + 128
    BY <2>1, SMT DEF CurrIdx, RollOver, OrBit7
  <2>3. QED
    BY <1>5, <2>1, <2>2, SMT
<1>7. rxseq_txack' = e.seq
  BY <1>2, <1>5, <1>6
<1>8. Steady'
  BY <1>1, <1>2, <1>3 DEF Phased, Steady, Preparing
<1>9. Unanswered'
  <2>1. Unanswered
    BY <1>1 DEF Told
  <2>2. QED
    BY <1>2, <2>1, Zenon DEF Unanswered, Before, Question
<1>10. Dropped'
  <2>1. Head(unacked) = e /\ unacked # << >>
    BY <1>4, TakeOne
  <2>2. Answers(e) /\ h2c = << >> /\ cexp = msgq_txseq
    BY <1>0, <1>1 DEF Told
  <2>3. Head(unacked)' = e /\ unacked' # << >>
    BY <1>2, <2>1
  <2>4. Restarted(Head(unacked))'
    BY <1>2, <1>4, <2>3 DEF Restarted
  <2>5. Answers(Head(unacked))'
    BY <1>2, <1>3, <2>2, <2>3 DEF Answers
  <2>6. QED
    BY <1>1, <1>2, <1>7, <1>9, <2>2, <2>3, <2>4, <2>5 DEF Dropped
<1>11. QED
  BY <1>8, <1>10 DEF Phased

(* The wait loop ends with the answer, and goes round again for one that   *)
(* was dropped.                                                            *)
LEMMA LoopPhased == ASSUME TypeOK, Favourable, Phased, Poll \/ LoopAgain PROVE Phased'
<1>1. CASE Poll
  <2>1. /\ pc = "poll" /\ c2h # << >> /\ ready' = <<"serial">> /\ pc' = "batch"
        /\ UNCHANGED <<chip, line, op, link, i, total_num, tx_index, rx_index, cmd_opcode, cmd_ok,
                       out, timer, hfast, cfast, refused, cact, cexp, ctx, msgq_txseq, burst,
                       is_txack_req, rxseq_txack, unacked, cretx, h2c, c2h>>
    BY <1>1 DEF Poll, Phased, Steady, seqvars, cmdvars, dlvars, chipvars
  <2>2. Told
    BY <2>1, Phase
  <2>3. Steady'
    BY <2>1 DEF Phased, Steady, Preparing
  <2>4. Unanswered'
    BY <2>1, <2>2, Zenon DEF Told, Unanswered, Before, Question
  <2>5. Answers(Head(c2h))'
    BY <2>1, <2>2, Zenon DEF Told, Answers, Response
  <2>6. Told'
    BY <2>1, <2>2, <2>4, <2>5 DEF Told, Restarted
  <2>7. QED
    BY <2>3, <2>6 DEF Phased
<1>2. CASE LoopAgain
  <2>1. /\ pc = "batch" /\ ready = << >> /\ ~Answered /\ pc' = "poll"
        /\ UNCHANGED <<chip, line, op, link, i, total_num, tx_index, rx_index, cmd_opcode, cmd_ok,
                       out, timer, hfast, cfast, refused, cact, cexp, ctx, msgq_txseq, burst,
                       is_txack_req, rxseq_txack, unacked, cretx, h2c, c2h>>
    BY <1>2 DEF LoopAgain, LoopBottom, seqvars, cmdvars, dlvars, chipvars, loopvars
  <2>2. Dropped
    BY <2>1, Phase DEF Rest
  <2>3. Steady'
    BY <2>1 DEF Phased, Steady, Preparing
  <2>4. Unanswered'
    BY <2>1, <2>2, Zenon DEF Dropped, Unanswered, Before, Question
  <2>5. Answers(Head(unacked))'
    BY <2>1, <2>2, Zenon DEF Dropped, Answers, Response
  <2>6. Dropped'
    BY <2>1, <2>2, <2>4, <2>5 DEF Dropped, Restarted
  <2>7. QED
    BY <2>3, <2>6 DEF Phased
<1>3. QED
  BY <1>1, <1>2

LEMMA AnsweredRests == ASSUME TypeOK, Favourable, Phased, LoopDone
                       PROVE  /\ Rest /\ pc = "batch" /\ link = After
                              /\ op = "OP_PATCH" => rx_index = CurrIdx(i, total_num) % 128
                              /\ op = "OP_H5_CONFIG" => cact
                              /\ line \in Faults /\ line.cap >= 2 /\ hfast = cfast
<1>1. pc = "batch" /\ ready = << >> /\ Answered
  BY DEF LoopDone, LoopBottom
<1>2. ~Dropped
  BY <1>1 DEF Dropped, Unanswered, Answered, Restarted
<1>3. Rest /\ hfast = cfast
  BY <1>1, <1>2, Phase DEF Phased, Steady
<1>4. QED
  BY <1>1, <1>3, FavourableTyped DEF Rest

LEMMA LinkReqDonePhased == ASSUME TypeOK, Favourable, Phased, LinkReqDone PROVE Phased'
<1>1. /\ op \in LinkOps /\ timer' = "off"
      /\ op' = NextOp(op, chip.typed, chip.baud)
      /\ pc' = CASE op = "OP_SET_BAUD" -> "speed"
                 [] op # "OP_SET_BAUD" /\ op' = "OP_PATCH" -> "load"
                 [] OTHER -> "issue"
      /\ UNCHANGED <<chip, line, link, rxseq_txack, msgq_txseq, burst, hfast, c2h, cfast, refused,
                     cact, cexp, ctx>>
      /\ IF op = "OP_H5_CONFIG" THEN h2c' = Put(h2c, <<PureAck(rxseq_txack)>>)
                                ELSE UNCHANGED <<h2c, is_txack_req>>
  BY DEF LinkReqDone, LoopDone, Proceed, chipvars
<1>2. /\ Rest /\ link = After /\ (op = "OP_H5_CONFIG" => cact)
      /\ line \in Faults /\ line.cap >= 2 /\ hfast = cfast
  BY AnsweredRests DEF LinkReqDone
<1>3. /\ op' = IF op = "OP_H5_SYNC" THEN "OP_H5_CONFIG" ELSE "OP_LMP_VER"
      /\ pc' = "issue"
  BY <1>1 DEF NextOp, LinkOps
<1>4. link' = Before'
  BY <1>1, <1>2, <1>3 DEF After, Before, LinkOps, InitOps
<1>5. op = "OP_H5_CONFIG" => h2c' = <<PureAck(rxseq_txack)>>
  <2>1. rxseq_txack \in SEQ /\ h2c = << >>
    BY <1>1, <1>2 DEF Rest, TypeOK, TypeNumbers
  <2>2. QED
    BY <1>1, <1>2, <2>1, PutFits, CtlTyped
<1>6. Steady'
  BY <1>1, <1>2, <1>3 DEF Phased, Steady, Preparing, LinkOps, InitOps
<1>7. Rest'
  <2>1. rxseq_txack \in SEQ
    BY DEF TypeOK, TypeNumbers
  <2>2. h2c' = << >> \/ (op' \notin LinkOps /\ h2c' = <<PureAck(rxseq_txack)>>)
    BY <1>1, <1>2, <1>3, <1>5 DEF Rest, LinkOps
  <2>3. QED
    BY <1>1, <1>2, <1>3, <1>4, <2>1, <2>2 DEF Rest, LinkOps
<1>8. QED
  BY <1>6, <1>7 DEF Phased

LEMMA CommandDonePhased == ASSUME TypeOK, Favourable, Phased, CommandDone PROVE Phased'
<1>1. /\ op \in InitOps /\ timer' = "off"
      /\ op' = NextOp(op, chip.typed, chip.baud)
      /\ pc' = CASE op = "OP_SET_BAUD" -> "speed"
                 [] op # "OP_SET_BAUD" /\ op' = "OP_PATCH" -> "load"
                 [] OTHER -> "issue"
      /\ UNCHANGED <<chip, line, link, rxseq_txack, msgq_txseq, burst, hfast, c2h, cfast, refused,
                     cact, cexp, ctx, h2c>>
  BY DEF CommandDone, LoopDone, Proceed, chipvars
<1>2. Rest /\ link = After /\ hfast = cfast
  BY AnsweredRests DEF CommandDone
<1>3. /\ op' \in InitOps \cup {"OP_PATCH"}
      /\ IF op' = "OP_PATCH" THEN pc' \in {"speed", "load"} ELSE pc' = "issue"
  <2>1. op \in {"OP_LMP_VER", "OP_ROM_VER", "OP_CHIP_TYPE", "OP_SET_BAUD"}
    BY <1>1 DEF InitOps
  <2>2. op' \in {"OP_ROM_VER", "OP_CHIP_TYPE", "OP_SET_BAUD", "OP_PATCH"}
    BY <1>1, <2>1 DEF NextOp
  <2>3. op = "OP_SET_BAUD" => op' = "OP_PATCH"
    BY <1>1 DEF NextOp
  <2>4. op = "OP_SET_BAUD" => pc' = "speed"
    BY <1>1
  <2>5. op # "OP_SET_BAUD" => pc' = IF op' = "OP_PATCH" THEN "load" ELSE "issue"
    BY <1>1
  <2>6. QED
    BY <2>2, <2>3, <2>4, <2>5 DEF InitOps
<1>4. pc' = "issue" => link' = Before'
  BY <1>1, <1>2, <1>3 DEF After, Before, InitOps
<1>5. Steady'
  BY <1>1, <1>2, <1>3 DEF Phased, Steady, Preparing, LinkOps, InitOps
<1>6. Rest'
  <2>1. op' \notin LinkOps /\ (pc' = "issue" => op' # "OP_PATCH")
    BY <1>3 DEF LinkOps, InitOps
  <2>2. QED
    BY <1>1, <1>2, <1>3, <1>4, <2>1 DEF Rest
<1>7. QED
  BY <1>5, <1>6 DEF Phased

LEMMA PatchDonePhased == ASSUME TypeOK, Favourable, Phased, PatchDone \/ ResetDone PROVE Phased'
<1>1. /\ op \in {"OP_PATCH", "OP_HCI_RESET"} /\ timer' = "off" /\ LoopDone
      /\ UNCHANGED <<chip, line, link, rxseq_txack, msgq_txseq, burst, hfast, c2h, cfast, refused,
                     cact, cexp, ctx, h2c, total_num, rx_index>>
      /\ op = "OP_PATCH" => /\ i' = i + 1 /\ pc' = "issue"
                            /\ op' = IF i < total_num THEN "OP_PATCH" ELSE "OP_HCI_RESET"
      /\ op = "OP_HCI_RESET" => op' = op /\ pc' = "done"
  BY DEF PatchDone, ResetDone, LoopDone, chipvars
<1>2. /\ Rest /\ link = After /\ pc = "batch" /\ hfast = cfast
      /\ op = "OP_PATCH" => rx_index = CurrIdx(i, total_num) % 128
  BY <1>1, AnsweredRests
<1>3. CASE op = "OP_PATCH"
  <2>1. i \in Nat /\ total_num \in Nat /\ i <= total_num /\ total_num <= 254
    BY <1>2, <1>3 DEF TypeOK, TypeNumbers, Phased, Steady
  <2>2. link' = Before'
    BY <1>1, <1>2, <1>3, <2>1 DEF After, Before, InitOps
  <2>3. op' \notin LinkOps \cup InitOps
    BY <1>1, <1>3 DEF LinkOps, InitOps
  <2>4. op' = "OP_PATCH" => i + 1 <= total_num
    BY <1>1, <1>3, <2>1
  <2>5. Steady'
    BY <1>1, <1>2, <1>3, <2>3, <2>4 DEF Phased, Steady, Preparing, LinkOps
  <2>6. rx_index' = IF i' = 0 THEN -1 ELSE CurrIdx(i' - 1, total_num') % 128
    <3>1. i' # 0 /\ i' - 1 = i
      BY <1>1, <1>3, <2>1
    <3>2. QED
      BY <1>1, <1>2, <1>3, <3>1
  <2>7. Rest'
    BY <1>1, <1>2, <1>3, <2>2, <2>3, <2>6 DEF Rest
  <2>8. QED
    BY <2>5, <2>7 DEF Phased
<1>4. CASE op = "OP_HCI_RESET"
  <2>1. op' \notin LinkOps \cup InitOps /\ op' # "OP_PATCH"
    BY <1>1, <1>4 DEF LinkOps, InitOps
  <2>2. Steady'
    BY <1>1, <1>2, <1>4, <2>1 DEF Phased, Steady, Preparing, LinkOps
  <2>3. Rest'
    BY <1>1, <1>2, <1>4, <2>1 DEF Rest
  <2>4. QED
    BY <2>2, <2>3 DEF Phased
<1>5. QED
  BY <1>1, <1>3, <1>4

(* The length of the download is settled when it starts.                   *)
LEMMA DownloadPhased == ASSUME TypeOK, Favourable, Phased, SetSpeed \/ StartDownload
                        PROVE  Phased'
<1>1. Rest /\ op = "OP_PATCH" /\ line.prompt
  BY Phase, FavourableTyped DEF SetSpeed, StartDownload, Phased, Steady
<1>2. op \notin LinkOps \cup InitOps
  BY <1>1 DEF LinkOps, InitOps
<1>3. CASE SetSpeed
  <2>1. /\ pc = "speed" /\ pc' = "load" /\ hfast' = TRUE /\ cfast
        /\ UNCHANGED <<op, timer, refused, burst, cfast, cact, c2h, h2c, cexp, ctx,
                       msgq_txseq, rxseq_txack>>
    BY <1>1, <1>3 DEF SetSpeed, seqvars, loopvars, chipvars
  <2>2. hfast' = cfast'
    BY <2>1 DEF TypeOK, TypeFlags
  <2>3. Steady'
    BY <1>1, <1>2, <2>1, <2>2 DEF Phased, Steady, Preparing, LinkOps
  <2>4. Rest'
    BY <1>1, <1>2, <2>1 DEF Rest
  <2>5. QED
    BY <2>3, <2>4 DEF Phased
<1>4. CASE StartDownload
  <2>1. /\ pc = "load" /\ pc' = "issue" /\ link' = "H5_PATCH" /\ rx_index' = -1 /\ i' = 0
        /\ total_num' = TotalIdx(num_of_cmd_sent, chip.endIdx)
        /\ UNCHANGED <<chip, op, timer, refused, burst, hfast, cfast, cact, c2h, h2c, cexp, ctx,
                       msgq_txseq, rxseq_txack>>
    BY <1>4 DEF StartDownload, seqvars, loopvars, chipvars
  <2>2. 0 <= total_num' /\ total_num' <= 254 /\ (chip.resets => total_num' <= 127)
    <3>1. chip.endIdx \in Nat /\ num_of_cmd_sent \in Nat
      BY FavourableTyped, SMT DEF TypeOK, TypeNumbers, Device, MaxEndIdx
    <3>2. AddPkts(num_of_cmd_sent, chip.endIdx) \in 0..7
      BY <3>1, AddPktsRange
    <3>3. total_num' = AddPkts(num_of_cmd_sent, chip.endIdx) + chip.endIdx
      BY <2>1, Zenon DEF TotalIdx
    <3>4. chip.endIdx <= 247 /\ (chip.resets => chip.endIdx <= 120)
      BY DEF Favourable
    <3>5. QED
      BY <3>1, <3>2, <3>3, <3>4, SMT
  <2>3. Steady'
    BY <1>1, <1>2, <2>1, <2>2 DEF Phased, Steady, Preparing, LinkOps
  <2>4. link' = Before'
    BY <1>1, <1>2, <2>1 DEF Before
  <2>5. Rest'
    BY <1>1, <1>2, <2>1, <2>4 DEF Rest
  <2>6. QED
    BY <2>3, <2>5 DEF Phased
<1>5. QED
  BY <1>3, <1>4

-----------------------------------------------------------------------------
(* The controller.                                                         *)
ChipKept == UNCHANGED <<chip, line, op, pc, link, i, total_num, tx_index, rx_index, cmd_opcode,
                        cmd_ok, out, timer, ready, burst, hfast, cfast, msgq_txseq, is_txack_req,
                        rxseq_txack>>

LEMMA SteadyKept == ASSUME Phased, ChipKept, ~refused', cact => cact' PROVE Steady'
  BY DEF ChipKept, Phased, Steady, Preparing

LEMMA UnansweredKept == ASSUME Unanswered, ChipKept PROVE Unanswered'
  BY Zenon DEF ChipKept, Unanswered, Before, Question

(* It takes a packet that rests or asks.                                   *)
LEMMA ChipTaking == ASSUME TypeOK, Favourable, Phased, ChipTake
                    PROVE  /\ line \in Faults /\ line.cap >= 2 /\ c2h = << >>
                           /\ Asked => hfast = cfast /\ (op \in LinkOps <=> out.kind \in LinkKinds)
                                       /\ (op \notin LinkOps <=> out.kind = "cmd")
                           /\ \/ Rest /\ Head(h2c).kind = "ack" /\ h2c' = << >>
                              \/ Asked /\ Head(h2c) = out /\ h2c' = << >>
                              \/ Asked /\ Head(h2c).kind = "ack" /\ h2c' = <<out>>
<1>1. h2c # << >> /\ h2c' = Tail(h2c)
  BY DEF ChipTake
<1>2. Rest \/ Asked
  BY <1>1, Phase
<1>3. ASSUME NEW a \in SEQ PROVE PureAck(a).kind = "ack"
  BY DEF PureAck, Frame
<1>4. Rest => Head(h2c).kind = "ack" /\ h2c' = << >>
  BY <1>1, <1>3, TakeOne DEF Rest
<1>5. Asked => \/ Head(h2c) = out /\ h2c' = << >>
               \/ Head(h2c).kind = "ack" /\ h2c' = <<out>>
  <2>1. h2c = <<out>> => Head(h2c) = out /\ h2c' = << >>
    BY <1>1, TakeOne
  <2>2. ASSUME NEW a \in SEQ, h2c = <<PureAck(a), out>>
        PROVE  Head(h2c).kind = "ack" /\ h2c' = <<out>>
    BY <1>1, <1>3, <2>2, TakeOne
  <2>3. QED
    BY <2>1, <2>2 DEF Asked
<1>6. Asked => hfast = cfast /\ (op \in LinkOps <=> out.kind \in LinkKinds)
               /\ (op \notin LinkOps <=> out.kind = "cmd")
  BY DEF Asked, Unanswered, Question, Phased, Steady, LinkOps, LinkKinds
<1>7. c2h = << >>
  BY <1>2 DEF Rest, Asked
<1>8. QED
  BY <1>2, <1>4, <1>5, <1>6, <1>7, FavourableTyped

LEMMA ChipRecvAckPhased == ASSUME TypeOK, Favourable, Phased, ChipRecvAck PROVE Phased'
<1>1. ChipTake /\ Head(h2c).kind = "ack" /\ ChipKept /\ UNCHANGED <<refused, cact, cexp, ctx, c2h>>
  BY DEF ChipRecvAck, ChipTake, ChipKept, hostvars, seqvars, cmdvars, dlvars, loopvars, progvars
<1>2. Steady'
  BY <1>1, SteadyKept DEF Phased, Steady
<1>3. CASE Rest /\ h2c' = << >>
  <2>1. Answered' = Answered /\ After' = After /\ Before' = Before
    BY <1>1, Zenon DEF ChipKept, Answered, After, Before
  <2>2. Rest'
    BY <1>1, <1>3, <2>1 DEF Rest, ChipKept
  <2>3. QED
    BY <1>2, <2>2 DEF Phased
<1>4. CASE Asked /\ h2c' = <<out>>
  <2>1. Unanswered'
    BY <1>1, <1>4, UnansweredKept DEF Asked
  <2>2. Asked'
    BY <1>1, <1>4, <2>1 DEF Asked, ChipKept
  <2>3. QED
    BY <1>2, <2>2 DEF Phased
<1>5. ~(Asked /\ Head(h2c) = out)
  BY <1>1, ChipTaking DEF LinkKinds
<1>6. QED
  BY <1>1, <1>3, <1>4, <1>5, ChipTaking

LEMMA ChipRecvLinkCtlPhased == ASSUME TypeOK, Favourable, Phased, ChipRecvLinkCtl PROVE Phased'
<1>1. /\ ChipTake /\ Head(h2c).kind \in LinkKinds /\ ChipKept
      /\ cact' = (cact \/ Head(h2c).kind = "conf")
      /\ c2h' = CASE Head(h2c).kind = "sync" -> Put(c2h, <<LinkCtl("syncresp")>>)
                  [] Head(h2c).kind = "conf" -> Put(c2h, <<LinkCtl("confresp")>>)
                  [] OTHER -> c2h
      /\ UNCHANGED <<refused, cexp, ctx>>
  BY DEF ChipRecvLinkCtl, ChipTake, ChipKept, hostvars, seqvars, cmdvars, dlvars, loopvars, progvars
<1>2. Asked /\ Head(h2c) = out /\ h2c' = << >> /\ op \in LinkOps
  BY <1>1, ChipTaking DEF LinkKinds
<1>3. out.kind = Question
  BY <1>2 DEF Asked, Unanswered
<1>4. /\ c2h' = Put(<< >>, <<LinkCtl(Response)>>)
      /\ op = "OP_H5_CONFIG" => cact'
  BY <1>1, <1>2, <1>3, ChipTaking DEF Question, Response, LinkOps
<1>5. LinkCtl(Response) \in Packet
  BY CtlTyped DEF Response, LinkKinds
<1>6. c2h' = <<LinkCtl(Response)>>
  BY <1>1, <1>2, <1>4, <1>5, ChipTaking, PutFits
<1>7. Steady'
  BY <1>1, SteadyKept DEF Phased, Steady
<1>8. Unanswered'
  BY <1>1, <1>2, UnansweredKept DEF Asked
<1>9. Response' = Response
  BY <1>1, Zenon DEF Response, ChipKept
<1>10. Answers(Head(c2h))'
  <2>1. Head(c2h') = LinkCtl(Response) /\ ctx' = rxseq_txack' /\ op' = op
    BY <1>1, <1>2, <1>6, TakeOne DEF Asked, ChipKept
  <2>2. QED
    BY <1>2, <1>4, <1>9, <2>1 DEF Answers
<1>11. Told'
  <2>1. /\ c2h' # << >> /\ c2h' = <<Head(c2h')>> /\ cexp' = msgq_txseq'
        /\ op' \in LinkOps /\ pc' = "poll"
    BY <1>1, <1>2, <1>6, TakeOne DEF Asked, ChipKept
  <2>2. QED
    BY <1>2, <1>8, <1>10, <2>1 DEF Told
<1>12. QED
  BY <1>7, <1>11 DEF Phased

(* It executes what it is asked, and restarts its numbers only after the   *)
(* last packet.                                                            *)
LEMMA ChipExecutePhased == ASSUME TypeOK, Favourable, Phased, ChipExecute PROVE Phased'
<1> DEFINE restart == chip.resets /\ out.op = "OP_PATCH" /\ out.idx >= 128
           seq     == IF restart THEN 0 ELSE ctx
<1>1. ChipTake /\ Head(h2c).kind = "cmd" /\ line.refuses = {} /\ ChipKept
  BY FavourableTyped DEF ChipExecute, ChipTake, ChipKept, hostvars, seqvars, cmdvars, dlvars,
     loopvars, progvars
<1>2. /\ Asked /\ Head(h2c) = out /\ h2c' = << >> /\ op \notin LinkOps /\ c2h = << >>
      /\ line \in Faults /\ line.cap >= 2 /\ hfast = cfast
  BY <1>1, ChipTaking DEF LinkKinds
<1>3. PICK cc : /\ cc = Frame("evt", seq, 0, out.op, out.idx, 0)
                /\ refused' = refused /\ cexp' = Succ8(cexp) /\ ctx' = Succ8(seq)
                /\ c2h' = Put(c2h, <<cc>>)
                /\ restart => unacked' = <<cc>>
                /\ cretx' = FALSE /\ cact' = cact
  <2>1. PICK st \in {0, 1} :
          LET cc == Frame("evt", seq, 0, out.op, out.idx, st)
          IN  /\ st = 1 => out.op \in line.refuses
              /\ refused' = (refused \/ (st = 1 /\ out.op # "OP_PATCH"))
              /\ cexp' = Succ8(cexp) /\ ctx' = Succ8(seq)
              /\ c2h' = Put(c2h, <<cc>>)
              /\ restart => unacked' = <<cc>>
              /\ cretx' = FALSE /\ cact' = cact
    BY <1>2 DEF ChipExecute
  <2>2. st = 0
    BY <1>1, <2>1
  <2>3. refused' = refused
    BY <2>1, <2>2 DEF TypeOK, TypeFlags
  <2>4. QED
    BY <2>1, <2>2, <2>3
<1>4. seq \in SEQ /\ out \in Packet
  BY DEF SEQ, TypeOK, TypeNumbers, TypePackets
<1>5. /\ cc \in Packet /\ cc.kind = "evt" /\ cc.seq = seq /\ cc.op = out.op
      /\ cc.idx = out.idx /\ cc.st = 0
  <2>1. 0 \in SEQ /\ 0 \in {0, 1} /\ out.op \in Ops \cup {"none"} /\ out.idx \in 0..255
    BY <1>4, SMT DEF SEQ, Packet
  <2>2. cc \in Packet
    BY <1>3, <1>4, <2>1, FrameTyped
  <2>3. QED
    BY <1>3, <2>2 DEF Frame
<1>6. c2h' = <<cc>>
  BY <1>2, <1>3, <1>5, PutFits
<1>7. Steady'
  BY <1>1, <1>3, SteadyKept DEF Phased, Steady
<1>8. Unanswered /\ Unanswered'
  BY <1>1, <1>2, UnansweredKept DEF Asked
<1>9. Answers(cc)'
  <2>1. cc.op = op /\ (op = "OP_PATCH" => cc.idx = CurrIdx(i, total_num))
    BY <1>2, <1>5, <1>8 DEF Unanswered
  <2>2. QED
    BY <1>1, <1>2, <1>3, <1>5, <2>1 DEF Answers, ChipKept
<1>10. cc.seq = rxseq_txack \/ Restarted(cc)'
  <2>1. CASE restart
    <3>1. op = "OP_PATCH" /\ CurrIdx(i, total_num) >= 128
      BY <1>2, <1>8, <2>1 DEF Unanswered
    <3>2. i = total_num
      BY <1>2, <3>1, LastByIndex DEF Asked
    <3>3. QED
      BY <1>1, <1>3, <2>1, <3>1, <3>2 DEF Restarted, ChipKept
  <2>2. CASE ~restart
    BY <1>2, <1>5, <2>2 DEF Asked
  <2>3. QED
    BY <2>1, <2>2
<1>11. Told'
  <2>1. Head(c2h') = cc /\ c2h' # << >>
    BY <1>6, TakeOne
  <2>2. cexp' = msgq_txseq' /\ pc' = "poll" /\ rxseq_txack' = rxseq_txack
    BY <1>1, <1>2, <1>3 DEF Asked, ChipKept
  <2>3. QED
    BY <1>2, <1>6, <1>8, <1>9, <1>10, <2>1, <2>2 DEF Told
<1>12. QED
  BY <1>7, <1>11 DEF Phased

(* It repeats an event only if that was dropped.                           *)
LEMMA ChipRetransmitPhased == ASSUME TypeOK, Favourable, Phased, ChipRetransmit PROVE Phased'
<1>1. /\ h2c = << >> /\ c2h = << >> /\ ~cretx /\ pc = "poll" /\ ChipKept /\ hfast = cfast
      /\ c2h' = Put(c2h, unacked) /\ UNCHANGED <<h2c, refused, cact, cexp, ctx, unacked>>
  BY FavourableTyped DEF ChipRetransmit, ChipKept, hostvars, seqvars, cmdvars, dlvars, loopvars,
     progvars
<1>2. Dropped
  <2>1. Asked => h2c # << >>
    BY TakeOne DEF Asked
  <2>2. Told => c2h # << >>
    BY DEF Told
  <2>3. QED
    BY <1>1, <2>1, <2>2, Phase
<1>3. PICK e \in Packet : /\ unacked = <<e>> /\ Answers(e) /\ e.seq = rxseq_txack
  <2>1. Head(unacked) \in Packet
    BY <1>2, TakeTyped DEF Dropped, TypeOK, TypePackets
  <2>2. QED
    BY <1>2, <2>1 DEF Dropped, Restarted
<1>4. c2h' = <<e>>
  BY <1>1, <1>3, FavourableTyped, PutFits
<1>5. Steady'
  BY <1>1, SteadyKept DEF Phased, Steady
<1>6. Unanswered'
  BY <1>1, <1>2, UnansweredKept DEF Dropped
<1>7. Answers(e)'
  BY <1>1, <1>3, Zenon DEF Answers, Response, ChipKept
<1>8. Told'
  <2>1. Head(c2h') = e /\ c2h' # << >>
    BY <1>4, TakeOne
  <2>2. QED
    BY <1>1, <1>2, <1>3, <1>4, <1>6, <1>7, <2>1 DEF Told, Dropped, ChipKept
<1>9. QED
  BY <1>5, <1>8 DEF Phased

LEMMA ChipSetSpeedPhased == ASSUME TypeOK, Favourable, Phased, ChipSetSpeed PROVE Phased'
<1>1. /\ pc = "speed"
      /\ UNCHANGED <<op, pc, timer, burst, refused, cact, cexp, ctx, c2h, h2c, msgq_txseq,
                     rxseq_txack>>
  BY FavourableTyped DEF ChipSetSpeed, hostvars, progvars, seqvars, loopvars
<1>2. Rest /\ op = "OP_PATCH"
  BY <1>1, Phase DEF Phased, Steady
<1>3. Steady'
  BY <1>1, <1>2 DEF Phased, Steady, Preparing, LinkOps, InitOps
<1>4. Rest'
  BY <1>1, <1>2 DEF Rest, LinkOps
<1>5. QED
  BY <1>3, <1>4 DEF Phased

-----------------------------------------------------------------------------
LEMMA InitPhased == Init => (Favourable => Phased)
<1> SUFFICES ASSUME Init PROVE Phased
  OBVIOUS
<1>1. Steady
  BY DEF Init, Steady, Preparing, LinkOps, InitOps
<1>2. Rest
  BY DEF Init, Rest, Before, LinkOps, InitOps
<1>3. QED
  BY <1>1, <1>2 DEF Phased

LEMMA NothingElse == ASSUME [Next]_vars
                     PROVE  UNCHANGED <<chip, line>>
<1>1. CASE Host
  BY <1>1 DEF Host, HostSends, HostReceives, HostTimer, HostLoop, SendLinkReq, SendCommand,
     SendPatch, Reliable, Transmit, RecvEvent, RecvOutOfOrder, RecvLinkCtl, RecvAck, RecvNothing,
     TakePacket, Retransmit, GiveUp, Poll, LoopAgain, LinkReqDone, CommandDone, PatchDone,
     ResetDone, LoopDone, SetSpeed, StartDownload
<1>2. CASE Chip
  BY <1>2 DEF Chip, ChipReceives, ChipRecvLinkCtl, ChipRecvAck, ChipExecute, ChipDuplicate,
     ChipTake, ChipRetransmit, ChipEvent, ChipLinkReq, ChipSetSpeed
<1>3. CASE Expire \/ Lose \/ Finished \/ UNCHANGED vars
  BY <1>3 DEF Expire, Lose, Finished, vars
<1>4. QED
  BY <1>1, <1>2, <1>3 DEF Next

LEMMA NextPhased == ASSUME TypeOK, Favourable, Phased, [Next]_vars PROVE Phased'
<1>1. CASE Finished \/ UNCHANGED vars
  <2>1. UNCHANGED vars
    BY <1>1 DEF Finished
  <2>2. Steady' = Steady
    BY <2>1, Zenon DEF vars, hostvars, chipvars, progvars, seqvars, loopvars, dlvars, Steady,
       Preparing
  <2>3. Before' = Before /\ After' = After /\ Answered' = Answered /\ Question' = Question
        /\ Response' = Response
    BY <2>1, Zenon DEF vars, hostvars, chipvars, progvars, seqvars, loopvars, dlvars, cmdvars,
       Before, After, Answered, Question, Response
  <2>4. Rest' = Rest
    BY <2>1, <2>3 DEF vars, hostvars, chipvars, progvars, seqvars, loopvars, dlvars, Rest
  <2>5. Unanswered' = Unanswered
    BY <2>1, <2>3 DEF vars, hostvars, chipvars, progvars, seqvars, loopvars, dlvars, cmdvars,
       Unanswered
  <2>6. Asked' = Asked
    BY <2>1, <2>5 DEF vars, hostvars, chipvars, progvars, seqvars, loopvars, Asked
  <2>7. Told' = Told
    BY <2>1, <2>3, <2>5 DEF vars, hostvars, chipvars, progvars, seqvars, loopvars, dlvars, Told,
       Answers, Restarted
  <2>8. Dropped' = Dropped
    BY <2>1, <2>3, <2>5 DEF vars, hostvars, chipvars, progvars, seqvars, loopvars, dlvars, Dropped,
       Answers, Restarted
  <2>9. QED
    BY <2>2, <2>4, <2>6, <2>7, <2>8 DEF Phased
<1>2. QED
  BY <1>1, Excluded, SendLinkReqPhased, ReliablePhased, RecvEventPhased, RecvOutOfOrderPhased,
     RecvLinkCtlPhased, LoopPhased, LinkReqDonePhased, CommandDonePhased, PatchDonePhased,
     DownloadPhased, ChipRecvAckPhased, ChipRecvLinkCtlPhased, ChipExecutePhased,
     ChipRetransmitPhased, ChipSetSpeedPhased
     DEF Next, Host, HostSends, HostReceives, HostLoop, Chip, ChipReceives

(* The retransmission limits are never reached on a line that loses        *)
(* nothing, with a controller that answers in time and agrees, whether or  *)
(* not it restarts its numbers (start_transmit_wait, h5_download_patch),   *)
(* unless the download is too long for its index.                          *)
THEOREM Persists == Spec => [](Favourable => NeverGivesUp)
<1>1. TypeOK /\ (Favourable => Phased) /\ [Next]_vars => (Favourable => Phased)'
  <2> SUFFICES ASSUME TypeOK, Favourable => Phased, [Next]_vars, Favourable' PROVE Phased'
    OBVIOUS
  <2>1. Favourable
    BY NothingElse, FavourableSame
  <2>2. QED
    BY <2>1, NextPhased
<1>2. (Favourable => Phased) => (Favourable => NeverGivesUp)
  BY DEF Phased, Steady, NeverGivesUp
<1>3. QED
  BY <1>1, <1>2, InitPhased, TypeCorrect, PTL DEF Spec
=============================================================================
