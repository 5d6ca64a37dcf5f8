------------------------------ MODULE PatchRam ------------------------------
(***************************************************************************)
(* brcm_patchram_plus1.c: the download to a Broadcom controller.  One      *)
(* command is on its way at a time, and the answer that is read next is    *)
(* taken for its answer; only HCI_RESET is repeated, by a signal handler,  *)
(* while the program blocks in read_event.                                 *)
(***************************************************************************)
EXTENDS Integers, SequencesExt

CONSTANTS
  Cases,      \* the command lines and controllers considered
  Packets,    \* packets in the .hcd file
  MaxAlarms   \* alarms that may fire

(* baudrate: --baudrate was given; fast: --use_baudrate_for_download;      *)
(* found: there is a .hcd file for the name of the controller.             *)
OptionType ==
  [baudrate: BOOLEAN, fast: BOOLEAN, no2bytes: BOOLEAN, bdaddr: BOOLEAN, lpm: BOOLEAN,
   scopcm: BOOLEAN, i2s: BOOLEAN, enable_hci: BOOLEAN, found: BOOLEAN]

(* asleep: resets the controller misses before it is up; prompt: no alarm  *)
(* fires while a reset or its answer is on its way; refuses: it may answer *)
(* with an error; confirms: it confirms the minidriver with two bytes.     *)
ControllerType == [asleep: Nat, prompt: BOOLEAN, refuses: BOOLEAN, confirms: BOOLEAN]

ASSUME CasesAssumption  == Cases \subseteq (OptionType \X ControllerType)
ASSUME BoundsAssumption == Packets \in Nat /\ MaxAlarms \in Nat

VARIABLES opt, prog,            \* the command line, and what is left to be done
          pc,                   \* the step of the current operation
          armed, alarms,        \* alarm(4) is running; alarms fired
          tx, rx,               \* the line: commands with their speed, bytes
          buffer,               \* the last event, as read so far
          local_name, hspeed, status,
          ctl                   \* the controller

host == <<opt, prog, pc, buffer, local_name, hspeed, status>>
vars == <<host, armed, alarms, tx, rx, ctl>>

-----------------------------------------------------------------------------
If(b, seq) == IF b THEN seq ELSE << >>

(* Mutant: the packets are not followed by a reset.                        *)
MutPatchramNoReset(o) ==
  <<"minidriver">> \o If(~o.no2bytes, <<"two">>) \o [k \in 1..Packets |-> "packet"]
  \o If(o.fast, <<"slow">>)

(* proc_patchram *)
Patchram(o) ==
  <<"minidriver">> \o If(~o.no2bytes, <<"two">>) \o [k \in 1..Packets |-> "packet"]
  \o If(o.fast, <<"slow">>) \o <<"reset">>

(* main, after the command line *)
Main(o) ==
  <<"reset", "name", "open">> \o If(o.fast /\ o.baudrate, <<"baud">>) \o Patchram(o)
  \o If(o.baudrate, <<"baud">>) \o If(o.bdaddr, <<"bdaddr">>) \o If(o.lpm, <<"lpm">>)
  \o If(o.scopcm, <<"sco", "pcm">>) \o If(o.i2s, <<"i2s">>) \o If(o.enable_hci, <<"hci">>)
  \o <<"exit">>

Commands == {"reset", "name", "minidriver", "packet", "baud", "bdaddr", "lpm", "sco",
             "pcm", "i2s"}

Op == Head(prog)
Done == prog' = Tail(prog) /\ pc' = "begin"

(* An event: type, code, length, and the command it completes with its     *)
(* status.                                                                 *)
Event(cmd, st) == <<4, 14, 2, cmd, st>>

Init ==
  /\ \E c \in Cases :
       /\ opt = c[1]
       /\ ctl = [speed |-> "115200", mode |-> "rom", packets |-> 0, refused |-> FALSE,
                 two |-> 0, torn |-> FALSE, is |-> c[2], asleep |-> c[2].asleep]
  /\ prog = Main(opt) /\ pc = "begin"
  /\ armed = FALSE /\ alarms = 0 /\ tx = << >> /\ rx = << >> /\ buffer = << >>
  /\ local_name = "" /\ hspeed = "115200" /\ status = "running"

hci_send_cmd(cmd) == tx' = Append(tx, [cmd |-> cmd, speed |-> hspeed])

(* Mutant: the first of the two commands of proc_scopcm is not waited for. *)
MutSendCmd ==
  /\ pc = "begin" /\ Op \in Commands
  /\ hci_send_cmd(Op)
  /\ armed' = IF Op = "reset" THEN TRUE ELSE armed
  /\ IF Op = "sco" THEN Done /\ UNCHANGED buffer
     ELSE pc' = "header" /\ buffer' = << >> /\ UNCHANGED prog
  /\ UNCHANGED <<opt, local_name, hspeed, status, alarms, rx, ctl>>

(* A command is sent; with a reset the alarm is set (proc_reset). *)
SendCmd ==
  /\ pc = "begin" /\ Op \in Commands
  /\ hci_send_cmd(Op)
  /\ armed' = IF Op = "reset" THEN TRUE ELSE armed
  /\ pc' = "header" /\ buffer' = << >>
  /\ UNCHANGED <<opt, prog, local_name, hspeed, status, alarms, rx, ctl>>

(* Mutant: the handler sets the alarm again and sends nothing.             *)
MutExpired ==
  /\ armed /\ alarms < MaxAlarms
  /\ ctl.is.prompt => tx = << >> /\ rx = << >> /\ pc = "header"
  /\ alarms' = alarms + 1
  /\ UNCHANGED <<host, armed, tx, rx, ctl>>

(* The handler of SIGALRM; reads go on after it. *)
Expired ==
  /\ armed /\ alarms < MaxAlarms
  /\ ctl.is.prompt => tx = << >> /\ rx = << >> /\ pc = "header"
  /\ hci_send_cmd("reset")
  /\ alarms' = alarms + 1
  /\ UNCHANGED <<host, armed, rx, ctl>>

Read(n) == /\ buffer' = buffer \o SubSeq(rx, 1, n)
           /\ rx' = SubSeq(rx, n + 1, Len(rx))

(* read_event blocks until it has its three bytes, ... *)
ReadHeader ==
  /\ pc = "header" /\ Len(rx) >= 3
  /\ Read(3) /\ pc' = "payload"
  /\ UNCHANGED <<opt, prog, local_name, hspeed, status, armed, alarms, tx, ctl>>

(* ... and then as many as the third says. *)
ReadPayload ==
  /\ pc = "payload" /\ Len(rx) >= buffer[3]
  /\ Read(buffer[3]) /\ pc' = "answered"
  /\ UNCHANGED <<opt, prog, local_name, hspeed, status, armed, alarms, tx, ctl>>

(* Mutant: the alarm keeps running.                                        *)
MutDisarm == UNCHANGED armed

(* alarm(0) *)
Disarm == armed' = IF Op = "reset" THEN FALSE ELSE armed

(* What follows the answer.  Its status is not looked at; a name is taken  *)
(* from where it would be in the answer to the command for it.             *)
Answered ==
  /\ pc = "answered"
  /\ Disarm
  /\ local_name' = IF Op = "name" /\ buffer[4] = "name" THEN "chip" ELSE local_name
  /\ hspeed' = IF Op = "baud" THEN "high" ELSE hspeed
  /\ Done
  /\ UNCHANGED <<opt, buffer, status, alarms, tx, rx, ctl>>

(* The file for the name, in upper and then in lower case. *)
OpenPatchram ==
  /\ pc = "begin" /\ Op = "open"
  /\ IF local_name = "chip" /\ opt.found
     THEN Done /\ UNCHANGED status
     ELSE status' = "exit 5" /\ pc' = "ended" /\ UNCHANGED prog
  /\ UNCHANGED <<opt, buffer, local_name, hspeed, armed, alarms, tx, rx, ctl>>

(* read(uart_fd, &buffer[0], 2) returns with what there is. *)
ReadTwo ==
  /\ pc = "begin" /\ Op = "two" /\ rx # << >>
  /\ \E n \in 1..2 : /\ n = IF Len(rx) = 1 THEN 1 ELSE 2
                     /\ rx' = SubSeq(rx, n + 1, Len(rx))
  /\ Done
  /\ UNCHANGED <<opt, buffer, local_name, hspeed, status, armed, alarms, tx, ctl>>

SlowDown ==
  /\ pc = "begin" /\ Op = "slow"
  /\ hspeed' = "115200"
  /\ Done
  /\ UNCHANGED <<opt, buffer, local_name, status, armed, alarms, tx, rx, ctl>>

(* With --enable_hci the program hands the line over and sleeps. *)
Leave ==
  /\ pc = "begin" /\ Op \in {"hci", "exit"}
  /\ status' = IF Op = "hci" THEN "serving" ELSE "exit 0"
  /\ pc' = "ended"
  /\ UNCHANGED <<opt, prog, buffer, local_name, hspeed, armed, alarms, tx, rx, ctl>>

-----------------------------------------------------------------------------
(* The controller.  It understands what is sent at its speed, changes its  *)
(* speed after its answer to the command for it, and goes back to the      *)
(* first speed when it runs the code of the last packet.                   *)
After(cmd, ok) ==
  [ctl EXCEPT
     !.speed = IF cmd = "baud" /\ ok THEN "high"
               ELSE IF cmd = "packet" /\ ctl.packets + 1 = Packets THEN "115200" ELSE @,
     !.mode = CASE cmd = "minidriver" -> "patch"
                [] cmd = "packet" /\ ctl.packets + 1 = Packets -> "patched"
                [] cmd = "reset" /\ ctl.mode = "patched" -> "ready"
                [] OTHER -> @,
     !.packets = IF cmd = "packet" THEN @ + 1 ELSE @,
     !.refused = @ \/ ~ok,
     !.two = IF cmd = "minidriver" /\ ctl.is.confirms THEN 2 ELSE @,
     !.torn = @ \/ (cmd = "reset" /\ ctl.mode = "patch")]

CtlTake ==
  /\ tx # << >> /\ ctl.two = 0
  /\ LET c == Head(tx) IN
     IF c.speed # ctl.speed THEN UNCHANGED <<rx, ctl>>
     ELSE IF ctl.asleep > 0
          THEN ctl' = [ctl EXCEPT !.asleep = @ - 1] /\ UNCHANGED rx
     ELSE \E ok \in (IF ctl.is.refuses THEN BOOLEAN ELSE {TRUE}) :
            /\ ctl' = After(c.cmd, ok)
            /\ rx' = IF hspeed = ctl.speed
                     THEN rx \o Event(c.cmd, IF ok THEN 0 ELSE 1) ELSE rx
  /\ tx' = Tail(tx)
  /\ UNCHANGED <<host, armed, alarms>>

(* The confirmation of the minidriver, a byte at a time. *)
CtlConfirm ==
  /\ ctl.two > 0
  /\ rx' = Append(rx, 0)
  /\ ctl' = [ctl EXCEPT !.two = @ - 1]
  /\ UNCHANGED <<host, armed, alarms, tx>>

Ended == pc = "ended" /\ UNCHANGED vars

Host == SendCmd \/ ReadHeader \/ ReadPayload \/ Answered \/ OpenPatchram \/ ReadTwo
        \/ SlowDown \/ Leave

Next == Host \/ Expired \/ CtlTake \/ CtlConfirm \/ Ended

Spec == Init /\ [][Next]_vars

(* The program and the controller go on, and time passes. *)
FairSpec ==
  Spec /\ WF_vars(Host) /\ WF_vars(Expired) /\ WF_vars(CtlTake) /\ WF_vars(CtlConfirm)

-----------------------------------------------------------------------------
(* The controller behaves: no alarm fires over an answer on its way,       *)
(* nothing is refused, and nothing comes that is not waited for.           *)
Behaves == ctl.is.prompt /\ ~ctl.is.refuses /\ ~ctl.is.confirms

(* If no alarm fires over an answer that is on its way, each answer read   *)
(* is that to the command just sent, however often the reset was repeated  *)
(* before the controller was up (expired, read_event).                     *)
AnswersPaired == Behaves /\ pc = "answered" => buffer[4] = Op

(* When the program is done the controller was reset with the whole file   *)
(* in it, both ends of the line have the same speed, and no event is left  *)
(* for the line discipline to stumble over (proc_patchram, proc_baudrate   *)
(* and the order of the calls in main).                                    *)
ReadyAtEnd ==
  Behaves /\ status \in {"exit 0", "serving"} =>
    ctl.packets = Packets /\ ctl.mode = "ready" /\ hspeed = ctl.speed /\ rx = << >>

(* Whatever the alarm does and whatever is refused, no reset reaches the   *)
(* controller between the minidriver and the last packet (alarm(0) in      *)
(* proc_reset).                                                            *)
NotTorn == ~ctl.torn

(* The program ends, or hands the line over, if the controller wakes up    *)
(* and agrees, also when alarms fire over answers that are on their way    *)
(* (the resets that expired repeats, read_event).                          *)
Ends == ~ctl.is.refuses /\ ~ctl.is.confirms ~> pc = "ended"
=============================================================================
