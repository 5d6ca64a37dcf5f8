------------------------------- MODULE H5Link -------------------------------
(***************************************************************************)
(* The Realtek three-wire ("H5") attach protocol of hciattach_rtk.c: the   *)
(* host program that synchronises with a Bluetooth controller, asks for    *)
(* its versions, changes the baud rate, downloads the firmware and resets  *)
(* the controller, over a serial line that may lose packets.               *)
(*                                                                         *)
(* The host is one thread.  Each of its operations prepares a packet,      *)
(* writes it, arms a timer and loops: epoll_wait, handle the ready         *)
(* descriptors one after the other, test the loop's condition at the       *)
(* bottom.  pc names the place in that loop.  The controller is external:  *)
(* it is what the host's code takes it to be.                              *)
(***************************************************************************)
EXTENDS H5Defs, Sequences

CONSTANT Chips  \* the controllers considered, each with its file and its line

(* A controller and its configuration file: does its lmp_subver ask for    *)
(* READ_CHIP_TYPE, does the configuration ask for another speed, the index *)
(* of the last data packet, does the controller restart its own sequence   *)
(* numbers once the firmware is in.                                        *)
Device == [typed: BOOLEAN, baud: BOOLEAN, endIdx: 0..MaxEndIdx, resets: BOOLEAN]

(* What may go wrong with it: how many packets a direction of the line     *)
(* holds and how many it loses, how many packets the controller sends      *)
(* unasked, which commands and download packets it may answer with a       *)
(* status other than zero, and whether it always answers within the host's *)
(* timeout.                                                                *)
Faults == [cap: Nat \ {0}, loss: Nat, noise: Nat,
           refuses: SUBSET (InitOps \cup {"OP_PATCH", "OP_HCI_RESET"}), prompt: BOOLEAN]

ASSUME ChipsAssumption == Chips \subseteq (Device \X Faults)

VARIABLES
  chip,             \* the controller being attached; never changes
  line,             \* what may go wrong with it and its line; never changes
  \* struct rtb_struct
  link,             \* link_estab_state
  rxseq_txack,      \* next sequence number expected from the controller
  is_txack_req,     \* an acknowledgement is owed
  msgq_txseq,       \* next sequence number to send
  cmd_opcode,       \* cmd_state.opcode
  cmd_ok,           \* cmd_state.state = CMD_STATE_SUCCESS
  num_of_cmd_sent, total_num, tx_index, rx_index,
  \* the program's position and its local variables
  op, pc, i,        \* operation, place in it, packet of the download
  out, retry,       \* the packet kept for retransmission, retransmissions left
  timer,            \* the timerfd: off, armed or expired
  ready,            \* descriptors of this epoll_wait still to be handled
  burst,            \* packets of the current read still to be handled
  hfast,            \* the host's end of the line runs at the new speed
  \* the line
  h2c, c2h,
  \* the controller
  cact, cexp, ctx,  \* link active, next number expected, next to send
  unacked,          \* its events the host has not acknowledged
  cretx,            \* it has repeated them since it last heard from the host
  cfast,            \* its end of the line runs at the new speed
  applied,          \* it has been told that the download is complete
  refused,          \* it has refused a command (of a download packet nobody asks)
  \* bounds and history
  losses, noise, issued, executed, completed

seqvars  == <<rxseq_txack, is_txack_req, msgq_txseq>>
cmdvars  == <<cmd_opcode, cmd_ok, num_of_cmd_sent>>
dlvars   == <<total_num, tx_index, rx_index, i>>
loopvars == <<out, retry, timer, ready, burst>>
chipvars == <<cact, cexp, ctx, unacked, cretx, cfast, applied, refused>>
progvars == <<op, pc>>
pipevars == <<issued, executed, completed>>
budgets  == <<losses, noise>>
hostvars == <<link, seqvars, cmdvars, dlvars, loopvars, progvars, hfast>>
vars     == <<chip, line, hostvars, h2c, c2h, chipvars, pipevars, budgets>>

-----------------------------------------------------------------------------
(* Packets.  One record type serves both directions: op is the command of  *)
(* a "cmd" and the command completed by an "evt" ("none": an event that    *)
(* completes no command), idx the index byte of a download packet, st the  *)
(* status byte of an event.                                                *)
LinkKinds == {"sync", "syncresp", "conf", "confresp"}
Packet == [kind: LinkKinds \cup {"ack", "cmd", "evt"}, seq: SEQ, ack: SEQ,
           op: Ops \cup {"none"}, idx: 0..255, st: {0, 1}]

Frame(kind, seq, ack, o, idx, st) ==
  [kind |-> kind, seq |-> seq, ack |-> ack, op |-> o, idx |-> idx, st |-> st]

LinkCtl(kind)     == Frame(kind, 0, 0, "none", 0, 0)
PureAck(ack)      == Frame("ack", 0, ack, "none", 0, 0)

(* The line takes packets in order, loses those that find it full, and     *)
(* garbles what is sent while its two ends run at different speeds.        *)
Put(wire, ps) ==
  IF hfast # cfast THEN wire
  ELSE LET n == Len(wire) + Len(ps)
       IN  SubSeq(wire \o ps, 1, IF n <= line.cap THEN n ELSE line.cap)

-----------------------------------------------------------------------------
Init ==
  /\ \E c \in Chips : chip = c[1] /\ line = c[2]
  /\ link = "H5_SYNC" /\ op = "OP_H5_SYNC" /\ pc = "issue"
  /\ rxseq_txack = 0 /\ is_txack_req = FALSE /\ msgq_txseq = 0
  /\ cmd_opcode = "none" /\ cmd_ok = FALSE
  /\ num_of_cmd_sent = 0 /\ total_num = 0 /\ tx_index = 0 /\ rx_index = 0
  /\ i = 0 /\ out = LinkCtl("sync") /\ retry = 0
  /\ timer = "off" /\ ready = << >> /\ burst = 0 /\ hfast = FALSE
  /\ h2c = << >> /\ c2h = << >>
  /\ cact = FALSE /\ cexp = 0 /\ ctx = 0 /\ unacked = << >> /\ cretx = FALSE
  /\ cfast = FALSE /\ applied = FALSE /\ refused = FALSE
  /\ losses = 0 /\ noise = 0 /\ issued = 0 /\ executed = 0 /\ completed = 0

-----------------------------------------------------------------------------
(* Sending.  A new packet carries the host's acknowledgement, is kept for  *)
(* retransmission as it is, and starts the loop that waits for its answer. *)
Transmit(p) ==
  /\ pc = "issue"
  /\ is_txack_req' = FALSE
  /\ h2c' = Put(h2c, <<p>>)
  /\ out' = p /\ retry' = MaxRetry(op) /\ timer' = "armed" /\ ready' = << >>
  /\ pc' = "poll"
  /\ UNCHANGED <<chip, line, op, link, rxseq_txack, num_of_cmd_sent, total_num, rx_index,
                 i, burst, hfast, c2h, chipvars, executed, completed, budgets>>

SendLinkReq ==
  /\ op \in LinkOps
  /\ Transmit(Frame(IF op = "OP_H5_SYNC" THEN "sync" ELSE "conf",
                    0, rxseq_txack, "none", 0, 0))
  /\ UNCHANGED <<msgq_txseq, cmd_opcode, cmd_ok, tx_index, issued>>

Reliable(idx) ==
  /\ Transmit(Frame("cmd", msgq_txseq, rxseq_txack, op, idx, 0))
  /\ msgq_txseq' = Succ8(msgq_txseq)
  /\ issued' = issued + 1

SendCommand ==
  /\ op \in InitOps \cup {"OP_HCI_RESET"}
  /\ Reliable(0)
  /\ cmd_opcode' = op /\ cmd_ok' = FALSE
  /\ UNCHANGED tx_index

SendPatch ==
  /\ op = "OP_PATCH"
  /\ Reliable(CurrIdx(i, total_num))
  /\ tx_index' = CurrIdx(i, total_num) % 128
  /\ UNCHANGED <<cmd_opcode, cmd_ok>>

-----------------------------------------------------------------------------
(* The wait loop.  epoll_wait returns every descriptor that is ready, in   *)
(* an order of its own; both are handled before the condition is tested.   *)
Poll ==
  /\ pc = "poll"
  /\ \/ /\ c2h # << >> /\ timer # "expired"
        /\ ready' = <<"serial">>
     \/ /\ c2h = << >> /\ timer = "expired"
        /\ ready' = <<"timer">>
     \/ /\ c2h # << >> /\ timer = "expired"
        /\ ready' \in {<<"serial", "timer">>, <<"timer", "serial">>}
  /\ pc' = "batch"
  /\ UNCHANGED <<chip, line, op, link, seqvars, cmdvars, dlvars, out, retry, timer, burst,
                 hfast, h2c, c2h, chipvars, pipevars, budgets>>

Handling(fd) == pc = "batch" /\ ready # << >> /\ Head(ready) = fd

(* One read of the serial line may bring several packets, but only those   *)
(* that are there when it is made.                                         *)
TakePacket ==
  /\ Handling("serial") /\ c2h # << >>
  /\ c2h' = Tail(c2h)
  /\ burst' \in IF burst = 0 THEN 0..(Len(c2h) - 1) ELSE {burst - 1}
  /\ ready' = IF burst' = 0 THEN Tail(ready) ELSE ready
  /\ UNCHANGED <<chip, line, op, pc, msgq_txseq, cmd_opcode, total_num, tx_index, i,
                 out, retry, timer, hfast, chipvars, pipevars, budgets>>

(* Mutant: the status of a command complete event is not looked at.        *)
MutHciRecvFrame(e) ==
  LET answers == e.op # "none" /\ e.op = cmd_opcode
  IN  CASE link = "H5_INIT" ->
             /\ cmd_ok' = (cmd_ok \/ answers)
             /\ num_of_cmd_sent' = IF answers THEN num_of_cmd_sent + 1
                                   ELSE num_of_cmd_sent
             /\ UNCHANGED <<link, rx_index>>
        [] link = "H5_PATCH" /\ e.op # "none" ->
             /\ rx_index' = e.idx % 128
             /\ link' = IF e.idx >= 128 THEN "H5_HCI_RESET" ELSE link
             /\ UNCHANGED <<cmd_ok, num_of_cmd_sent>>
        [] link = "H5_HCI_RESET" ->
             /\ cmd_ok' = (cmd_ok \/ answers)
             /\ link' = IF answers /\ e.op = "OP_HCI_RESET" THEN "H5_ACTIVE" ELSE link
             /\ UNCHANGED <<num_of_cmd_sent, rx_index>>
        [] OTHER -> UNCHANGED <<link, cmd_ok, num_of_cmd_sent, rx_index>>

(* hci_recv_frame: what an accepted event does in each link state.         *)
HciRecvFrame(e) ==
  LET answers == e.op # "none" /\ e.op = cmd_opcode /\ e.st = 0
  IN  CASE link = "H5_INIT" ->
             /\ cmd_ok' = (cmd_ok \/ answers)
             /\ num_of_cmd_sent' = IF answers THEN num_of_cmd_sent + 1
                                   ELSE num_of_cmd_sent
             /\ UNCHANGED <<link, rx_index>>
        [] link = "H5_PATCH" /\ e.op # "none" ->
             /\ rx_index' = e.idx % 128
             /\ link' = IF e.idx >= 128 THEN "H5_HCI_RESET" ELSE link
             /\ UNCHANGED <<cmd_ok, num_of_cmd_sent>>
        [] link = "H5_HCI_RESET" ->
             /\ cmd_ok' = (cmd_ok \/ answers)
             /\ link' = IF answers /\ e.op = "OP_HCI_RESET" THEN "H5_ACTIVE" ELSE link
             /\ UNCHANGED <<num_of_cmd_sent, rx_index>>
        [] OTHER -> UNCHANGED <<link, cmd_ok, num_of_cmd_sent, rx_index>>

(* Mutant: the number of an event is not compared.                         *)
MutRecvEvent ==
  /\ TakePacket
  /\ Head(c2h).kind = "evt"
  /\ HciRecvFrame(Head(c2h))
  /\ rxseq_txack' = Succ8(Head(c2h).seq)
  /\ is_txack_req' = FALSE
  /\ h2c' = Put(h2c, <<PureAck(Succ8(Head(c2h).seq))>>)

(* An event with the expected number is accepted and acknowledged.         *)
RecvEvent ==
  /\ TakePacket
  /\ Head(c2h).kind = "evt" /\ Head(c2h).seq = rxseq_txack
  /\ HciRecvFrame(Head(c2h))
  /\ rxseq_txack' = Succ8(rxseq_txack)
  /\ is_txack_req' = FALSE
  /\ h2c' = Put(h2c, <<PureAck(Succ8(rxseq_txack))>>)

(* Mutant: the number that came is never adopted.                         *)
MutRecvOutOfOrderKeep ==
  /\ TakePacket
  /\ Head(c2h).kind = "evt" /\ Head(c2h).seq # rxseq_txack
  /\ is_txack_req' = TRUE
  /\ UNCHANGED <<link, rxseq_txack, cmd_ok, num_of_cmd_sent, rx_index, h2c>>

(* Any other event is dropped.  The debt is noted but nothing is sent, and *)
(* after the last packet of a download the number that came is adopted.    *)
RecvOutOfOrder ==
  /\ TakePacket
  /\ Head(c2h).kind = "evt" /\ Head(c2h).seq # rxseq_txack
  /\ is_txack_req' = TRUE
  /\ rxseq_txack' = IF link = "H5_PATCH" /\ tx_index = total_num
                    THEN Head(c2h).seq ELSE rxseq_txack
  /\ UNCHANGED <<link, cmd_ok, num_of_cmd_sent, rx_index, h2c>>

AckOwed == IF is_txack_req THEN <<PureAck(rxseq_txack)>> ELSE << >>

(* h5_handle_internal_rx, and the acknowledgement h5_complete_rx_pkt adds. *)
LinkReply(kind) ==
  CASE link \in {"H5_SYNC", "H5_CONFIG"} /\ kind = "sync" ->
         <<LinkCtl("syncresp")>> \o AckOwed
    [] link = "H5_CONFIG" /\ kind = "conf" -> <<LinkCtl("confresp")>> \o AckOwed
    [] link = "H5_CONFIG" /\ kind = "syncresp" -> <<PureAck(rxseq_txack)>>
    [] OTHER -> AckOwed

RecvLinkCtl ==
  /\ TakePacket
  /\ Head(c2h).kind \in LinkKinds
  /\ link' = CASE link = "H5_SYNC" /\ Head(c2h).kind = "syncresp" -> "H5_CONFIG"
               [] link = "H5_CONFIG" /\ Head(c2h).kind = "confresp" -> "H5_INIT"
               [] OTHER -> link
  /\ h2c' = Put(h2c, LinkReply(Head(c2h).kind))
  /\ is_txack_req' = FALSE
  /\ UNCHANGED <<rxseq_txack, cmd_ok, num_of_cmd_sent, rx_index>>

RecvAck ==
  /\ TakePacket
  /\ Head(c2h).kind = "ack"
  /\ h2c' = Put(h2c, AckOwed)
  /\ is_txack_req' = FALSE
  /\ UNCHANGED <<link, rxseq_txack, cmd_ok, num_of_cmd_sent, rx_index>>

(* The bytes that made the line readable turn out to be no packet.         *)
RecvNothing ==
  /\ Handling("serial") /\ c2h = << >>
  /\ ready' = Tail(ready) /\ burst' = 0
  /\ UNCHANGED <<chip, line, link, seqvars, cmdvars, dlvars, out, retry, timer, progvars,
                 hfast, h2c, c2h, chipvars, pipevars, budgets>>

(* Mutants: a retransmission prepares the packet anew; is not counted.     *)
MutRetransmitAnew ==
  /\ Handling("timer") /\ retry > 0
  /\ h2c' = Put(h2c, <<[out EXCEPT !.seq = msgq_txseq, !.ack = rxseq_txack]>>)
  /\ msgq_txseq' = IF out.kind = "cmd" THEN Succ8(msgq_txseq) ELSE msgq_txseq
  /\ retry' = retry - 1 /\ timer' = "armed" /\ ready' = Tail(ready)
  /\ UNCHANGED <<chip, line, link, rxseq_txack, is_txack_req, cmdvars, dlvars, out, burst,
                 progvars, hfast, c2h, chipvars, pipevars, budgets>>

MutRetransmitForever ==
  /\ Handling("timer") /\ retry > 0
  /\ h2c' = Put(h2c, <<out>>)
  /\ timer' = "armed" /\ ready' = Tail(ready)
  /\ UNCHANGED <<chip, line, link, seqvars, cmdvars, dlvars, out, retry, burst, progvars, hfast,
                 c2h, chipvars, pipevars, budgets>>

(* The timer's event is handled without asking whether the answer has come *)
(* in the meantime: the packet goes out again, or the program gives up.    *)
Retransmit ==
  /\ Handling("timer") /\ retry > 0
  /\ h2c' = Put(h2c, <<out>>)
  /\ retry' = retry - 1 /\ timer' = "armed" /\ ready' = Tail(ready)
  /\ UNCHANGED <<chip, line, link, seqvars, cmdvars, dlvars, out, burst, progvars, hfast,
                 c2h, chipvars, pipevars, budgets>>

GiveUp ==
  /\ Handling("timer") /\ retry = 0
  /\ pc' = "exit" /\ timer' = "off" /\ ready' = << >>
  /\ UNCHANGED <<chip, line, op, link, seqvars, cmdvars, dlvars, out, retry, burst, hfast, h2c,
                 c2h, chipvars, pipevars, budgets>>

(* The condition at the bottom of start_transmit_wait and of               *)
(* h5_download_patch.                                                      *)
Answered ==
  CASE op = "OP_H5_SYNC"   -> link = "H5_CONFIG"
    [] op = "OP_H5_CONFIG" -> link = "H5_INIT"
    [] op = "OP_PATCH"     -> rx_index = tx_index
    [] OTHER               -> cmd_ok

LoopBottom == pc = "batch" /\ ready = << >>

LoopAgain ==
  /\ LoopBottom /\ ~Answered
  /\ pc' = "poll"
  /\ UNCHANGED <<chip, line, op, link, seqvars, cmdvars, dlvars, loopvars, hfast, h2c, c2h,
                 chipvars, pipevars, budgets>>

(* The loop ends: the timer is disarmed and the program goes on.           *)
LoopDone ==
  /\ LoopBottom /\ Answered
  /\ timer' = "off"
  /\ UNCHANGED <<chip, line, link, rxseq_txack, msgq_txseq, cmd_opcode, num_of_cmd_sent,
                 total_num, tx_index, rx_index, out, retry, ready, burst, hfast, c2h,
                 chipvars, issued, executed, budgets>>

(* Where the program goes after an operation other than a download packet. *)
Proceed ==
  /\ op' = NextOp(op, chip.typed, chip.baud)
  /\ pc' = CASE op = "OP_SET_BAUD" -> "speed"
             [] op # "OP_SET_BAUD" /\ op' = "OP_PATCH" -> "load"
             [] OTHER -> "issue"

LinkReqDone ==
  /\ LoopDone /\ op \in LinkOps
  /\ Proceed
  /\ IF op = "OP_H5_CONFIG"
     THEN /\ h2c' = Put(h2c, <<PureAck(rxseq_txack)>>)
          /\ is_txack_req' = FALSE
          /\ cmd_ok' = FALSE
     ELSE UNCHANGED <<h2c, is_txack_req, cmd_ok>>
  /\ UNCHANGED <<i, completed>>

CommandDone ==
  /\ LoopDone /\ op \in InitOps
  /\ Proceed
  /\ completed' = completed + 1
  /\ UNCHANGED <<i, h2c, is_txack_req, cmd_ok>>

PatchDone ==
  /\ LoopDone /\ op = "OP_PATCH"
  /\ i' = i + 1 /\ pc' = "issue"
  /\ op' = IF i < total_num THEN "OP_PATCH" ELSE "OP_HCI_RESET"
  /\ completed' = completed + 1
  /\ UNCHANGED <<h2c, is_txack_req, cmd_ok>>

ResetDone ==
  /\ LoopDone /\ op = "OP_HCI_RESET"
  /\ pc' = "done"
  /\ completed' = completed + 1
  /\ UNCHANGED <<op, i, h2c, is_txack_req, cmd_ok>>

(* rtb_config sleeps 50 ms before it changes the speed of its own end.     *)
SetSpeed ==
  /\ pc = "speed"
  /\ line.prompt => h2c = << >> /\ cfast
  /\ hfast' = TRUE /\ pc' = "load"
  /\ UNCHANGED <<chip, line, op, link, seqvars, cmdvars, dlvars, loopvars, h2c, c2h,
                 chipvars, pipevars, budgets>>

StartDownload ==
  /\ pc = "load"
  /\ link' = "H5_PATCH" /\ rx_index' = -1 /\ i' = 0
  /\ total_num' = TotalIdx(num_of_cmd_sent, chip.endIdx)
  /\ pc' = "issue"
  /\ UNCHANGED <<chip, line, op, seqvars, cmdvars, tx_index, loopvars, hfast, h2c, c2h,
                 chipvars, pipevars, budgets>>

-----------------------------------------------------------------------------
(* The environment: the timer, the line and the controller.                *)
Expire ==
  /\ pc = "poll" /\ timer = "armed"
  /\ line.prompt => h2c = << >> /\ c2h = << >> /\ (unacked = << >> \/ cretx)
  /\ timer' = "expired"
  /\ UNCHANGED <<chip, line, link, seqvars, cmdvars, dlvars, out, retry, ready, burst,
                 progvars, hfast, h2c, c2h, chipvars, pipevars, budgets>>

Lose ==
  /\ losses < line.loss
  /\ \/ h2c # << >> /\ h2c' = Tail(h2c) /\ UNCHANGED c2h
     \/ c2h # << >> /\ c2h' = Tail(c2h) /\ UNCHANGED h2c
  /\ losses' = losses + 1
  /\ UNCHANGED <<chip, line, hostvars, chipvars, pipevars, noise>>

(* The controller's view of an acknowledgement: everything before ack has  *)
(* arrived.                                                                *)
StillUnacked(ack) ==
  LET n == (ack + 8 - unacked[1].seq) % 8
  IN  IF unacked # << >> /\ n <= Len(unacked) THEN SubSeq(unacked, n + 1, Len(unacked))
      ELSE unacked

ChipTake ==
  /\ h2c # << >>
  /\ h2c' = Tail(h2c)
  /\ UNCHANGED <<chip, line, hostvars, cfast, issued, completed, budgets>>

ChipRecvLinkCtl ==
  LET p == Head(h2c) IN
    /\ ChipTake
    /\ p.kind \in LinkKinds
    /\ c2h' = CASE p.kind = "sync" -> Put(c2h, <<LinkCtl("syncresp")>>)
                [] p.kind = "conf" -> Put(c2h, <<LinkCtl("confresp")>>)
                [] OTHER -> c2h
    /\ cact' = (cact \/ p.kind = "conf")
    /\ cretx' = FALSE
    /\ UNCHANGED <<cexp, ctx, unacked, applied, refused, executed>>

ChipRecvAck ==
  LET p == Head(h2c) IN
    /\ ChipTake
    /\ p.kind = "ack"
    /\ unacked' = StillUnacked(p.ack)
    /\ UNCHANGED <<c2h, cact, cexp, ctx, cretx, applied, refused, executed>>

(* A command or a packet with the expected number is taken and answered,   *)
(* with a status.  refused remembers the commands alone: the status of a   *)
(* download packet is not looked at (hci_recv_frame in H5_PATCH).          *)
ChipExecute ==
  \E st \in {0, 1} :
    LET p       == Head(h2c)
        restart == chip.resets /\ p.op = "OP_PATCH" /\ p.idx >= 128
        seq     == IF restart THEN 0 ELSE ctx
        cc      == Frame("evt", seq, 0, p.op, p.idx, st)
    IN /\ ChipTake
       /\ p.kind = "cmd" /\ cact /\ p.seq = cexp
       /\ st = 1 => p.op \in line.refuses
       /\ refused' = (refused \/ (st = 1 /\ p.op # "OP_PATCH"))
       /\ cexp' = Succ8(cexp)
       /\ ctx' = Succ8(seq)
       /\ unacked' = IF restart THEN <<cc>> ELSE Append(StillUnacked(p.ack), cc)
       /\ c2h' = Put(c2h, <<cc>>)
       /\ applied' = (applied \/ (p.op = "OP_PATCH" /\ p.idx >= 128))
       /\ executed' = executed + 1
       /\ cretx' = FALSE
       /\ UNCHANGED cact

(* A command it has seen before is only acknowledged.                      *)
ChipDuplicate ==
  LET p == Head(h2c) IN
    /\ ChipTake
    /\ p.kind = "cmd" /\ (cact => p.seq # cexp)
    /\ unacked' = IF cact THEN StillUnacked(p.ack) ELSE unacked
    /\ c2h' = IF cact THEN Put(c2h, <<PureAck(cexp)>>) ELSE c2h
    /\ cretx' = FALSE
    /\ UNCHANGED <<cact, cexp, ctx, applied, refused, executed>>

(* It repeats what the host has not acknowledged ...                       *)
ChipRetransmit ==
  /\ unacked # << >> /\ Len(c2h) < line.cap /\ hfast = cfast
  /\ line.prompt => h2c = << >> /\ c2h = << >> /\ ~cretx /\ pc = "poll"
  /\ c2h' = Put(c2h, unacked)
  /\ cretx' = TRUE
  /\ UNCHANGED <<chip, line, hostvars, h2c, cact, cexp, ctx, unacked, cfast, applied, refused,
                 pipevars, budgets>>

(* ... sends an event of its own, or asks for the link again ...           *)
ChipEvent ==
  LET e == Frame("evt", ctx, 0, "none", 0, 0)
  IN /\ cact /\ noise < line.noise /\ Len(unacked) < 4
     /\ noise' = noise + 1
     /\ ctx' = Succ8(ctx)
     /\ unacked' = Append(unacked, e)
     /\ c2h' = Put(c2h, <<e>>)
     /\ UNCHANGED <<chip, line, hostvars, h2c, cact, cexp, cretx, cfast, applied, refused,
                    pipevars, losses>>

ChipLinkReq ==
  /\ ~cact /\ noise < line.noise
  /\ noise' = noise + 1
  /\ \E kind \in {"sync", "conf"} : c2h' = Put(c2h, <<LinkCtl(kind)>>)
  /\ UNCHANGED <<chip, line, hostvars, h2c, chipvars, pipevars, losses>>

(* ... and changes its speed some time after the command that asked for it *)
ChipSetSpeed ==
  /\ ~cfast /\ chip.baud /\ executed = (IF chip.typed THEN 4 ELSE 3)
  /\ ~refused
  /\ line.prompt => pc = "speed" /\ h2c = << >>
  /\ cfast' = TRUE
  /\ UNCHANGED <<chip, line, hostvars, h2c, c2h, cact, cexp, ctx, unacked, cretx, applied,
                 refused, pipevars, budgets>>

Finished == pc \in {"done", "exit"} /\ UNCHANGED vars

-----------------------------------------------------------------------------
HostSends    == SendLinkReq \/ SendCommand \/ SendPatch
HostReceives == RecvEvent \/ RecvOutOfOrder \/ RecvLinkCtl \/ RecvAck \/ RecvNothing
HostTimer    == Retransmit \/ GiveUp
HostLoop     == \/ Poll \/ LoopAgain \/ LinkReqDone \/ CommandDone \/ PatchDone
                \/ ResetDone \/ SetSpeed \/ StartDownload
Host         == HostSends \/ HostReceives \/ HostTimer \/ HostLoop

ChipReceives == ChipRecvLinkCtl \/ ChipRecvAck \/ ChipExecute \/ ChipDuplicate
Chip         == ChipReceives \/ ChipRetransmit \/ ChipEvent \/ ChipLinkReq \/ ChipSetSpeed

Next == Host \/ Expire \/ Lose \/ Chip \/ Finished

Spec == Init /\ [][Next]_vars

(* The host is a running process; an armed timer expires whatever else     *)
(* happens; a prompt controller keeps serving its line.                    *)
HostFairness == WF_vars(Host) /\ SF_vars(Expire)
ChipFairness == /\ WF_vars(line.prompt /\ ChipReceives)
                /\ WF_vars(line.prompt /\ ChipRetransmit)
                /\ WF_vars(line.prompt /\ ChipSetSpeed)

FairSpec == Spec /\ HostFairness /\ ChipFairness

-----------------------------------------------------------------------------
(* Every variable keeps its C type and the values the program gives it.    *)
TypeProgram ==
  /\ <<chip, line>> \in Chips /\ link \in LinkStates /\ op \in Ops
  /\ pc \in {"issue", "poll", "batch", "speed", "load", "done", "exit"}
  /\ timer \in {"off", "armed", "expired"}
  /\ cmd_opcode \in Ops \cup {"none"}

TypeFlags ==
  /\ is_txack_req \in BOOLEAN /\ cmd_ok \in BOOLEAN /\ hfast \in BOOLEAN
  /\ cact \in BOOLEAN /\ cretx \in BOOLEAN /\ cfast \in BOOLEAN
  /\ applied \in BOOLEAN /\ refused \in BOOLEAN

TypeNumbers ==
  /\ rxseq_txack \in SEQ /\ msgq_txseq \in SEQ /\ cexp \in SEQ /\ ctx \in SEQ
  /\ num_of_cmd_sent \in Nat /\ total_num \in Nat /\ i \in Nat
  /\ tx_index \in 0..127 /\ rx_index \in -1..127
  /\ retry \in 0..10 /\ burst \in Nat
  /\ losses \in Nat /\ noise \in Nat
  /\ issued \in Nat /\ executed \in Nat /\ completed \in Nat

TypePackets ==
  /\ out \in Packet /\ ready \in Seq({"serial", "timer"})
  /\ h2c \in Seq(Packet) /\ c2h \in Seq(Packet) /\ unacked \in Seq(Packet)

TypeOK == TypeProgram /\ TypeFlags /\ TypeNumbers /\ TypePackets

(* The purpose of the additional packets: "Make sure the next seqno is     *)
(* zero after download patch and hci reset", for whoever uses the link     *)
(* after this program (rtb_download_fwc).                                  *)
NextSeqZero == pc = "done" => msgq_txseq = 0

(* The count the padding is computed from is the number of commands that   *)
(* were completed: no duplicate completion is counted, none is missed      *)
(* (h5_init_hci_cc, "for makeing the seq number aligned").                 *)
CountedOnce ==
  op \in InitOps /\ pc # "exit" =>
    num_of_cmd_sent = completed + (IF pc \in {"poll", "batch"} /\ cmd_ok THEN 1 ELSE 0)

(* The host takes the firmware for installed, and resets the controller,   *)
(* only after the controller has taken and answered every packet of the    *)
(* download (hci_recv_frame moving to H5_HCI_RESET on bit 7 of the index). *)
ResetAfterAll ==
  link \in {"H5_HCI_RESET", "H5_ACTIVE"} => executed > num_of_cmd_sent + total_num

(* Every command reaches the controller once and is completed after it was *)
(* executed, whatever is lost, repeated or late on the line: the link      *)
(* implements the command pipe.                                            *)
Pipe == INSTANCE CmdPipe WITH ended <- (pc = "exit")
PipeSpec == Pipe!Spec

(* The program only finishes if the controller agreed to every command     *)
(* before and after the download: an event with a status other than zero   *)
(* never completes one (h5_init_hci_cc, h5_post_hci_cc).  It says nothing  *)
(* of download packets: hci_recv_frame does not look at their status, and  *)
(* the program finishes although one was refused.                          *)
RefusalIsFatal == pc = "done" => ~refused

(* The retransmission limits: whatever the controller and the line do, the *)
(* program comes to an end (start_transmit_wait, h5_download_patch).       *)
Terminates == <>(pc \in {"done", "exit"})

(* A controller that answers in time and agrees, on a line that loses no   *)
(* more than n packets.                                                    *)
Willing(n) == line.prompt /\ line.refuses = {} /\ line.noise = 0 /\ line.loss <= n

(* The retransmission limits are never reached on a line that loses        *)
(* nothing, with a controller that answers in time, whether or not it      *)
(* restarts its sequence numbers after the download (h5_recv: "Depend on   *)
(* whether Controller will reset ack number or not").                      *)
NeverGivesUp == Willing(0) => pc # "exit"

(* "Index will roll over when it reaches 0x80: 0, 1, 2, 3, ..., 126,       *)
(* 127(7f), 1, 2, 3, ..." (rtb_download_fwc): bit 7 is left to the last    *)
(* packet of all.                                                          *)
IndexRollsOver ==
  out.op = "OP_PATCH" /\ op = "OP_PATCH" /\ pc \in {"poll", "batch"} /\ i < total_num =>
    out.idx = IF i <= 127 THEN i ELSE 1 + ((i - 1) % 127)

(* With a controller that answers in time, one lost packet does not        *)
(* prevent the attach, unless the speed is changed (OP_SET_BAUD is sent    *)
(* without a retry).                                                       *)
Attaches == Willing(IF chip.baud THEN 0 ELSE 1) ~> pc = "done"
=============================================================================
