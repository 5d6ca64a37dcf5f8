------------------------------- MODULE H4Xfer -------------------------------
(***************************************************************************)
(* The attach over H4 (hciattach_h4.c and the H4 branches of               *)
(* hciattach_rtk.c): a line without sequence numbers, acknowledgements or  *)
(* retransmission.  start_xfer_wait writes a command and polls for its     *)
(* completion, one read per poll: the packet type, two bytes of header,    *)
(* the parameters.  The line carries bytes, because where an event starts  *)
(* is all the host has to tell events apart.                               *)
(***************************************************************************)
EXTENDS H5Defs, Sequences

CONSTANT Chips  \* the controllers considered

H4Ops == {"OP_LMP_VER", "OP_ROM_VER", "OP_SET_BAUD", "OP_PATCH", "OP_HCI_RESET"}

(* A controller: does its configuration ask for another speed, the index   *)
(* of its last data packet (as in H5Link); which events it sends of its    *)
(* own, as bytes, and how many, which operations it refuses, and whether   *)
(* it answers within a second and in one piece.                            *)
ChipType == [baud: BOOLEAN, endIdx: 0..MaxEndIdx, unasked: SUBSET Seq(0..255),
             noise: Nat, refuses: SUBSET H4Ops, prompt: BOOLEAN]

ASSUME ChipsAssumption == Chips \subseteq ChipType

VARIABLES
  chip,      \* the controller being attached; never changes
  op, pc, i, \* operation, state of start_xfer_wait, packet of the download
  buf,       \* the event as far as it is read
  left,      \* params_len: bytes of its parameters still to read
  known,     \* the versions of the controller were read
  offset,    \* pkt_buf, in packets of 252 bytes from the start of the data
  hfast,     \* the host's end of the line runs at the new speed
  hup,       \* poll has reported a hang-up
  line,      \* bytes from the controller that were not read yet
  pending,   \* the command the controller has received and not answered
  cfast,     \* its end of the line runs at the new speed
  noise,     \* events sent unasked
  \* history
  executed,  \* the last command the controller carried out, with its index
  accepted   \* packets of the download it accepted

xfervars == <<buf, left>>
progvars == <<op, pc, i>>
stepvars == <<known, offset, hfast>>
chipvars == <<line, pending, cfast, noise, executed, accepted>>
vars == <<chip, xfervars, progvars, stepvars, hup, chipvars>>

-----------------------------------------------------------------------------
Opcode(o) == CASE o = "OP_LMP_VER"   -> <<1, 16>>
               [] o = "OP_ROM_VER"   -> <<109, 252>>
               [] o = "OP_SET_BAUD"  -> <<23, 252>>
               [] o = "OP_PATCH"     -> <<32, 252>>
               [] o = "OP_HCI_RESET" -> <<3, 12>>

(* The buffer is cleared before each event: bytes not read are zero. *)
At(k) == IF k < Len(buf') THEN buf'[k + 1] ELSE 0

(* No additional packets over H4. *)
LastIdx == chip.endIdx

(* The index sent in packet i, and the one expected in its answer. *)
SentIdx == CurrIdx(i, LastIdx)
Current == <<op, IF op = "OP_PATCH" THEN SentIdx ELSE 0>>

Init ==
  /\ chip \in Chips
  /\ op = "OP_LMP_VER" /\ pc = "issue" /\ i = 0
  /\ buf = << >> /\ left = 0
  /\ known = FALSE /\ offset = 0 /\ hfast = FALSE /\ hup = FALSE
  /\ line = << >> /\ pending = << >> /\ cfast = FALSE /\ noise = 0
  /\ executed = << >> /\ accepted = {}

-----------------------------------------------------------------------------
(* The caller's side: what rtb_config and rtb_download_fwc do with the     *)
(* result of a command.  The results of the version commands and of the    *)
(* change of speed are ignored; without the versions no firmware is found. *)
VersionDone ==
  /\ op \in {"OP_LMP_VER", "OP_ROM_VER"}
  /\ op' = NextOp(op, FALSE, chip.baud)
  /\ pc' = IF op = "OP_ROM_VER" /\ ~known THEN "failed" ELSE "issue"
  /\ UNCHANGED <<i, offset, hfast>>

SpeedDone ==
  /\ op = "OP_SET_BAUD"
  /\ op' = "OP_PATCH" /\ pc' = "issue" /\ hfast' = TRUE
  /\ UNCHANGED <<i, known, offset>>

(* Mutant: the index taken for a signed byte.                              *)
MutPastData(curr_idx) == curr_idx < chip.endIdx /\ curr_idx < 128

PastData(curr_idx) == curr_idx < chip.endIdx

(* Mutant: the failure of any packet goes unnoticed.                       *)
MutMismatch(curr_idx) == curr_idx < 128 /\ curr_idx # RollOver(i)

Mismatch(curr_idx) == curr_idx # RollOver(i) /\ i # LastIdx

PatchDone(curr_idx) ==
  /\ op = "OP_PATCH"
  /\ IF Mismatch(curr_idx)
     THEN pc' = "failed" /\ UNCHANGED <<op, i, offset>>
     ELSE /\ pc' = "issue"
          /\ offset' = IF PastData(curr_idx) THEN offset + 1 ELSE offset
          /\ IF i < LastIdx THEN i' = i + 1 /\ UNCHANGED op
                            ELSE op' = "OP_HCI_RESET" /\ UNCHANGED i
  /\ UNCHANGED <<known, hfast>>

Failed ==
  \/ VersionDone /\ UNCHANGED known
  \/ SpeedDone
  \/ PatchDone(255)                     \* -1 stored in a uint8_t
  \/ op = "OP_HCI_RESET" /\ pc' = "failed" /\ UNCHANGED <<op, i, stepvars>>

(* h4_read_local_ver asks for 16 bytes and takes 15; h4_download_patch asks *)
(* for 8, and of a longer event gets as many.                              *)
Succeeded ==
  \/ VersionDone /\ known' = (known \/ (op = "OP_LMP_VER" /\ Len(buf') = 15))
  \/ SpeedDone
  \/ PatchDone(IF Len(buf') >= 8 THEN At(7) ELSE 255)
  \/ op = "OP_HCI_RESET" /\ pc' = "done" /\ UNCHANGED <<op, i, stepvars>>

-----------------------------------------------------------------------------
(* start_xfer_wait.  A byte sent while the two ends of the line run at     *)
(* different speeds does not arrive.                                       *)
WriteCmd ==
  /\ pc = "issue" /\ ~hup
  /\ pending' = IF hfast = cfast THEN Current ELSE pending
  /\ pc' = "type" /\ buf' = << >> /\ left' = 0
  /\ UNCHANGED <<chip, op, i, stepvars, hup, line, cfast, noise, executed, accepted>>

WriteFails ==
  /\ pc = "issue" /\ hup
  /\ Failed
  /\ UNCHANGED <<chip, xfervars, hup, chipvars>>

Take(n) == line' = SubSeq(line, n + 1, Len(line))

(* Mutant: a byte that is no packet type is kept.                          *)
MutReadType ==
  /\ pc = "type" /\ ~hup /\ line # << >>
  /\ IF Head(line) = 4 THEN Take(1) /\ buf' = <<4>> /\ pc' = "header"
                       ELSE UNCHANGED <<buf, pc, line>>
  /\ UNCHANGED <<chip, op, i, left, stepvars, hup, pending, cfast, noise, executed, accepted>>

ReadType ==
  /\ pc = "type" /\ ~hup /\ line # << >>
  /\ Take(1)
  /\ IF Head(line) = 4 THEN buf' = <<4>> /\ pc' = "header"
                       ELSE UNCHANGED <<buf, pc>>
  /\ UNCHANGED <<chip, op, i, left, stepvars, hup, pending, cfast, noise, executed, accepted>>

ReadHeader ==
  /\ pc = "header" /\ ~hup /\ Len(line) >= 2
  /\ Take(2)
  /\ buf' = <<4, line[1], line[2]>>
  /\ left' = line[2]
  /\ IF line[2] + 3 > 64
     THEN Failed
     ELSE pc' = "payload" /\ UNCHANGED <<op, i, stepvars>>
  /\ UNCHANGED <<chip, hup, pending, cfast, noise, executed, accepted>>

(* Mutant: the completion of any command is taken for this one's.          *)
MutOutcome == IF At(1) # 14 THEN "other" ELSE IF At(6) = 0 THEN "ok" ELSE "fail"

(* What is made of an event.  The read result that got here was not        *)
(* negative, even where it was not the length asked for.                   *)
Outcome == IF At(1) # 14 THEN "other"
           ELSE IF <<At(4), At(5)>> = Opcode(op) /\ At(6) = 0 THEN "ok"
           ELSE "fail"

(* Mutant: an event of another kind ends the transfer.                     *)
MutJudge ==
  \/ Outcome \in {"other", "fail"} /\ Failed
  \/ Outcome = "ok" /\ Succeeded

Judge ==
  \/ Outcome = "other" /\ pc' = "type" /\ UNCHANGED <<op, i, stepvars>>
  \/ Outcome = "fail" /\ Failed
  \/ Outcome = "ok" /\ Succeeded

(* One byte of the header instead of two ends the event there. *)
ReadShortHeader ==
  /\ pc = "header" /\ ~hup /\ line # << >> /\ (chip.prompt => Len(line) = 1)
  /\ Take(1)
  /\ buf' = <<4, Head(line)>>
  /\ Judge
  /\ UNCHANGED <<chip, left, hup, pending, cfast, noise, executed, accepted>>

(* The parameters come in one read or more; an event without parameters    *)
(* is only complete when poll reports the next byte.                       *)
ReadPayload ==
  /\ pc = "payload" /\ ~hup /\ line # << >>
  /\ \E n \in 0..left :
       /\ n <= Len(line) /\ (n = 0 <=> left = 0)
       /\ Take(n)
       /\ buf' = buf \o SubSeq(line, 1, n)
       /\ left' = left - n
       /\ IF n = left THEN Judge ELSE UNCHANGED <<pc, op, i, stepvars>>
  /\ UNCHANGED <<chip, hup, pending, cfast, noise, executed, accepted>>

Polling == pc \in {"type", "header", "payload"}

(* No caller asks for a retry, so that the first timeout ends the program. *)
Timeout ==
  /\ Polling /\ ~hup
  /\ line = << >>
  /\ chip.prompt => pending = << >>
  /\ pc' = "exit"
  /\ UNCHANGED <<chip, op, i, xfervars, stepvars, hup, chipvars>>

PollError ==
  /\ Polling /\ hup
  /\ Failed
  /\ UNCHANGED <<chip, xfervars, hup, chipvars>>

-----------------------------------------------------------------------------
(* The environment: a hang-up, and the controller, which answers each      *)
(* command with one completion and may send events of its own.             *)
HangUp ==
  /\ Polling /\ ~hup /\ ~chip.prompt
  /\ hup' = TRUE
  /\ UNCHANGED <<chip, xfervars, progvars, stepvars, chipvars>>

Send(bytes) == line' = IF hfast = cfast THEN line \o bytes ELSE line

Completion(o, st, params) ==
  <<4, 14, 4 + Len(params), 1>> \o Opcode(o) \o <<st>> \o params

Params(o, idx) == CASE o = "OP_LMP_VER" -> <<8, 13, 0, 8, 93, 0, 4, 14>>
                    [] o = "OP_ROM_VER" -> <<1>>
                    [] o = "OP_PATCH"   -> <<idx>>
                    [] OTHER            -> << >>

Execute ==
  /\ pending # << >>
  /\ LET o == pending[1] IN
     /\ Send(Completion(o, 0, Params(o, pending[2])))
     /\ executed' = pending
     /\ accepted' = IF o = "OP_PATCH" THEN accepted \cup {i} ELSE accepted
     /\ cfast' = (cfast \/ o = "OP_SET_BAUD")
  /\ pending' = << >>
  /\ UNCHANGED <<chip, xfervars, progvars, stepvars, hup, noise>>

Refuse ==
  /\ pending # << >> /\ pending[1] \in chip.refuses
  /\ Send(Completion(pending[1], 1, Params(pending[1], pending[2])))
  /\ pending' = << >>
  /\ UNCHANGED <<chip, xfervars, progvars, stepvars, hup, cfast, noise, executed, accepted>>

ChipEvent ==
  /\ noise < chip.noise
  /\ \E event \in chip.unasked : Send(event)
  /\ noise' = noise + 1
  /\ UNCHANGED <<chip, xfervars, progvars, stepvars, hup, pending, cfast, executed, accepted>>

Finished == pc \in {"done", "failed", "exit"} /\ UNCHANGED vars

-----------------------------------------------------------------------------
Host == \/ WriteCmd \/ WriteFails \/ ReadType \/ ReadHeader \/ ReadShortHeader
        \/ ReadPayload \/ Timeout \/ PollError
Next == Host \/ HangUp \/ Execute \/ Refuse \/ ChipEvent \/ Finished

Spec == Init /\ [][Next]_vars

(* The host is a running process; a prompt controller answers.             *)
FairSpec == Spec /\ WF_vars(Host) /\ WF_vars(chip.prompt /\ Execute)

-----------------------------------------------------------------------------
Byte == 0..255

(* Every packet carries its own part of the data, although whether the     *)
(* pointer moves on is decided by an index that rolls over, answered by    *)
(* the controller and stored in eight bits (rtb_download_fwc).             *)
DataInOrder == op = "OP_PATCH" /\ pc \notin {"failed", "exit"} => offset = i

(* A refused packet, other than the last, stops the download: an attach    *)
(* that succeeds has had all of them accepted (rtb_download_fwc, "Index    *)
(* mismatch").                                                             *)
NoticedUpToLast == pc = "done" => 0..(LastIdx - 1) \subseteq accepted

TakenForDone == Polling /\ buf' # buf /\ pc' \in {"issue", "done"} /\ Outcome = "ok"

(* A command is only taken for completed after the controller carried out  *)
(* this very command, whatever else it sends and wherever a read cuts an   *)
(* event: the answer to an earlier command is never taken for that to a    *)
(* later one (start_xfer_wait).                                            *)
OkMeansExecuted == [][TakenForDone => executed = Current]_vars

(* The program ends, whatever the controller does (start_xfer_wait starts  *)
(* a new second of waiting with every event that is not a completion).     *)
Terminates == <>(pc \in {"done", "failed", "exit"})

(* A controller that answers within a second is attached, whatever events  *)
(* of other kinds it sends in between and however the parameters of its    *)
(* answers are cut (start_xfer_wait, "Continue receiving").                *)
Attachable == /\ chip.prompt /\ chip.refuses = {}
              /\ \A event \in chip.unasked : event[2] # 14
Attaches == Attachable ~> pc = "done"
=============================================================================
