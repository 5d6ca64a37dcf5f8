------------------------------- MODULE Attach -------------------------------
(***************************************************************************)
(* The life of an rtk_hciattach process around the attach itself           *)
(* (hciattach.c): set-up under an alarm, signal handlers, detaching, the   *)
(* wait for a hang-up or a signal, recovery through rfkill and back to     *)
(* start; and the service that runs it in the foreground and starts it     *)
(* again when it fails (vaaman-bt-start).  rtb_init is one step here: the  *)
(* protocol it runs is H5Link or H4Xfer.                                   *)
(***************************************************************************)
EXTENDS Naturals

CONSTANTS
  Services,  \* how the process may be run: from the service, or by hand
  FdLimit,   \* descriptors a process may have open
  MaxFail,   \* how many operations fail, alarms included
  MaxHangUp, \* how many hang-ups the kernel reports
  MaxTerm    \* how many SIGTERM or SIGINT are sent

ASSUME ServicesAssumption == Services \subseteq {"restart", "manual"}
ASSUME BoundsAssumption   == /\ FdLimit \in Nat /\ FdLimit >= 3
                             /\ MaxFail \in Nat /\ MaxHangUp \in Nat /\ MaxTerm \in Nat

VARIABLES
  pc,         \* place in main; "none": there is no process
  handlers,   \* SIGTERM and SIGINT are handled by sig_term
  canceled,   \* __io_canceled
  revents,    \* p.revents: "junk" while it is not initialised
  alarm,      \* an alarm is pending
  fds,        \* descriptors opened by the program and not closed
  ldisc,      \* line discipline of the port
  power,      \* rfkill state of the controller
  svc,        \* the service; "manual" if there is none
  code,       \* last exit status, 143 for SIGTERM
  \* bounds and history
  fails, hangups, terms,
  told,       \* this process was sent SIGTERM or SIGINT
  gaveUp      \* fork or ppoll has failed in this process

sigvars == <<handlers, canceled>>
budgets == <<fails, hangups, terms>>
history == <<told, gaveUp>>
env     == <<power, svc, budgets, history>>
vars    == <<pc, sigvars, revents, alarm, fds, ldisc, power, svc, code, budgets, history>>

(* A process run by hand detaches, and no service looks after it.          *)
Detach == svc = "manual"

SettingUp == {"start", "port", "init", "ldisc", "proto", "ready"}
Waiting   == {"test", "enter", "poll"}
Places    == SettingUp \cup Waiting
               \cup {"handlers", "fork", "restore", "decide", "off", "on", "none"}

Init ==
  /\ svc \in Services
  /\ pc = (IF Detach THEN "start" ELSE "none")
  /\ handlers = FALSE /\ canceled = FALSE /\ revents = "junk" /\ alarm = FALSE
  /\ fds = 0 /\ ldisc = "N_TTY" /\ power = "on"
  /\ code = 1 /\ fails = 0 /\ hangups = 0 /\ terms = 0
  /\ told = FALSE /\ gaveUp = FALSE

-----------------------------------------------------------------------------
(* The process ends; the kernel closes the port, which takes the line      *)
(* discipline down.                                                        *)
Exit(status) ==
  /\ pc' = "none" /\ code' = status
  /\ handlers' = FALSE /\ canceled' = FALSE /\ revents' = "junk"
  /\ alarm' = FALSE /\ fds' = 0 /\ ldisc' = "N_TTY"

OneFailure == fails < MaxFail /\ fails' = fails + 1

Goto(from, to) == pc = from /\ pc' = to

Begin ==                                    \* label start: alarm(to)
  /\ Goto("start", "port")
  /\ alarm' = TRUE
  /\ UNCHANGED <<sigvars, revents, fds, ldisc, code, env>>

OpenPort ==
  /\ Goto("port", "init") /\ fds < FdLimit
  /\ fds' = fds + 1
  /\ UNCHANGED <<sigvars, revents, alarm, ldisc, code, env>>

(* rtb_init needs an epoll descriptor, which stays open, and a timer.      *)
InitDevice ==
  /\ Goto("init", "ldisc") /\ power = "on" /\ fds + 2 <= FdLimit
  /\ fds' = fds + 1
  /\ UNCHANGED <<sigvars, revents, alarm, ldisc, code, env>>

SetDiscipline ==
  /\ Goto("ldisc", "proto")
  /\ ldisc' = "N_HCI"
  /\ UNCHANGED <<sigvars, revents, alarm, fds, code, env>>

SetProto ==
  /\ Goto("proto", "ready")
  /\ UNCHANGED <<sigvars, revents, alarm, fds, ldisc, code, env>>

(* Mutant: the alarm is left running.                                      *)
MutSetupDone ==
  /\ Goto("ready", "handlers")
  /\ UNCHANGED <<sigvars, revents, alarm, fds, ldisc, code, env>>

SetupDone ==                                \* alarm(0)
  /\ Goto("ready", "handlers")
  /\ alarm' = FALSE
  /\ UNCHANGED <<sigvars, revents, fds, ldisc, code, env>>

(* init_uart fails: at any system call, because there is no descriptor     *)
(* left, or because a controller without power does not answer.            *)
SetupFails ==
  /\ \/ pc \in {"port", "init", "ldisc", "proto"} /\ OneFailure
     \/ pc = "port" /\ fds >= FdLimit /\ UNCHANGED fails
     \/ pc = "init" /\ (fds + 2 > FdLimit \/ power = "off") /\ UNCHANGED fails
  /\ Exit(1)
  /\ UNCHANGED <<power, svc, hangups, terms, history>>

Alarm ==                                    \* sig_alarm
  /\ alarm /\ OneFailure
  /\ Exit(1)
  /\ UNCHANGED <<power, svc, hangups, terms, history>>

InstallHandlers ==
  /\ Goto("handlers", IF Detach THEN "fork" ELSE "test")
  /\ handlers' = TRUE
  /\ UNCHANGED <<canceled, revents, alarm, fds, ldisc, code, env>>

(* The child closes all but the port; the parent is gone.  A fork that     *)
(* fails returns -1, which the program takes for a child's number: it      *)
(* reports success and nobody serves.                                      *)
Fork ==
  /\ pc = "fork"
  /\ \/ /\ pc' = "test" /\ fds' = 1
        /\ UNCHANGED <<sigvars, revents, alarm, ldisc, code, fails, gaveUp>>
     \/ OneFailure /\ Exit(0) /\ gaveUp' = TRUE
  /\ UNCHANGED <<power, svc, hangups, terms, told>>

-----------------------------------------------------------------------------
(* The loop: the flag is tested, then ppoll blocks.  Signals are not       *)
(* blocked in between.                                                     *)
TestFlag ==
  /\ pc = "test"
  /\ IF canceled THEN pc' = "restore" /\ UNCHANGED revents
                 ELSE pc' = "enter" /\ revents' = "zero"
  /\ UNCHANGED <<sigvars, alarm, fds, ldisc, code, env>>

Block ==
  /\ Goto("enter", "poll")
  /\ UNCHANGED <<sigvars, revents, alarm, fds, ldisc, code, env>>

(* ppoll fails, other than by a signal, or reports POLLNVAL: the loop is   *)
(* left without a hang-up and without a request to stop.                   *)
PollFails ==
  /\ Goto("enter", "restore") /\ OneFailure
  /\ gaveUp' = TRUE
  /\ UNCHANGED <<sigvars, revents, alarm, fds, ldisc, power, svc, code, hangups, terms, told>>

HangUp ==
  /\ Goto("poll", "restore") /\ hangups < MaxHangUp
  /\ hangups' = hangups + 1
  /\ revents' = "hup"
  /\ UNCHANGED <<sigvars, alarm, fds, ldisc, power, svc, code, fails, terms, history>>

(* Mutant: a failure to restore the discipline is ignored.                 *)
MutRestore ==
  /\ pc = "restore"
  /\ \/ ldisc' = "N_TTY" /\ UNCHANGED fails
     \/ OneFailure /\ UNCHANGED ldisc
  /\ pc' = "decide"
  /\ UNCHANGED <<sigvars, revents, alarm, fds, code, power, svc, hangups, terms, history>>

Restore ==
  /\ pc = "restore"
  /\ \/ /\ pc' = "decide" /\ ldisc' = "N_TTY"
        /\ UNCHANGED <<sigvars, revents, alarm, fds, code, fails>>
     \/ OneFailure /\ Exit(1)
  /\ UNCHANGED <<power, svc, hangups, terms, history>>

Return ==
  /\ pc = "decide" /\ revents # "hup"
  /\ Exit(0)
  /\ UNCHANGED env

(* What is on the stack may look like a hang-up. *)
Recover ==
  /\ Goto("decide", "off") /\ revents # "zero"
  /\ UNCHANGED <<sigvars, revents, alarm, fds, ldisc, code, env>>

(* reset_bluetooth; its result is ignored, and a failed write leaves the   *)
(* controller as it is.                                                    *)
ResetBluetooth ==
  /\ \/ Goto("off", "on") /\ power' = "off" /\ UNCHANGED fails
     \/ Goto("on", "start") /\ power' = "on" /\ UNCHANGED fails
     \/ pc \in {"off", "on"} /\ pc' = "start" /\ OneFailure /\ UNCHANGED power
  /\ UNCHANGED <<sigvars, revents, alarm, fds, ldisc, code, svc, hangups, terms, history>>

-----------------------------------------------------------------------------
(* SIGTERM or SIGINT, from killall or with the service being stopped.      *)
(* Without a handler it kills.  In epoll_wait of rtb_init it is an error;  *)
(* in ppoll it makes the loop test its condition; elsewhere the flag is    *)
(* all there is.                                                           *)
Term ==
  /\ pc # "none" /\ terms < MaxTerm
  /\ terms' = terms + 1 /\ told' = TRUE
  /\ svc' \in IF Detach THEN {"manual"} ELSE {svc, "stopping"}
  /\ \/ ~handlers /\ Exit(143)
     \/ handlers /\ pc = "init" /\ Exit(1)
     \/ /\ handlers /\ canceled' = TRUE
        /\ pc' = IF pc = "poll" THEN "test" ELSE pc
        /\ UNCHANGED <<handlers, revents, alarm, fds, ldisc, code>>
  /\ UNCHANGED <<power, fails, hangups, gaveUp>>

(* The service.  It starts again what failed, unless it is being stopped.  *)
(* Mutant: what fails is not started again.                                *)
MutServiceEnds ==
  /\ svc \in {"active", "stopping"} /\ pc = "none"
  /\ svc' = "dead"
  /\ UNCHANGED <<pc, sigvars, revents, alarm, fds, ldisc, power, code, budgets, history>>

ServiceEnds ==
  /\ svc \in {"active", "stopping"} /\ pc = "none"
  /\ svc' = IF svc = "active" /\ code # 0 THEN "restart" ELSE "dead"
  /\ UNCHANGED <<pc, sigvars, revents, alarm, fds, ldisc, power, code, budgets, history>>

(* The script of the service: rfkill block, unblock, then the program.     *)
ScriptStep ==
  /\ \/ svc = "restart" /\ svc' = "blocked" /\ power' = "off" /\ UNCHANGED fails
     \/ svc = "blocked" /\ svc' = "unblocked" /\ power' = "on" /\ UNCHANGED fails
     \/ svc \in {"restart", "blocked"} /\ svc' = "restart" /\ OneFailure /\ UNCHANGED power
  /\ UNCHANGED <<pc, sigvars, revents, alarm, fds, ldisc, code, hangups, terms, history>>

Launch ==
  /\ svc = "unblocked" /\ svc' = "active"
  /\ pc' = "start" /\ told' = FALSE /\ gaveUp' = FALSE
  /\ UNCHANGED <<sigvars, revents, alarm, fds, ldisc, power, code, budgets>>

Over == \/ pc = "none" /\ svc \in {"manual", "dead"} /\ UNCHANGED vars
        \/ pc = "poll" /\ UNCHANGED vars          \* ppoll blocks

-----------------------------------------------------------------------------
Process == \/ Begin \/ OpenPort \/ InitDevice \/ SetDiscipline \/ SetProto \/ SetupDone
           \/ SetupFails \/ InstallHandlers \/ Fork \/ TestFlag \/ Block \/ PollFails \/ Restore
           \/ Return \/ Recover \/ ResetBluetooth
Service == ServiceEnds \/ ScriptStep \/ Launch
Next == Process \/ Service \/ Alarm \/ HangUp \/ Term \/ Over

Spec     == Init /\ [][Next]_vars
FairSpec == Spec /\ WF_vars(Process) /\ WF_vars(Service)

-----------------------------------------------------------------------------
(* While the process waits, the Bluetooth line discipline is on the port,  *)
(* the controller has power and no alarm is left that would end a working  *)
(* adapter ten seconds after it came up, first time or after a recovery.   *)
Serving == pc \in Waiting => ldisc = "N_HCI" /\ power = "on" /\ ~alarm

(* What a process that reports success leaves behind, which the service    *)
(* does not start again (Restart=on-failure): it was told to stop, or it   *)
(* is one of the two failures main takes for an end, fork and ppoll.  No   *)
(* failure of the set-up, the alarm, the restored line discipline or the   *)
(* recovery looks like a success, and the port is handed back before it is *)
(* closed, for any other descriptor open on it, unless fork failed.        *)
SuccessExplained ==
  [][pc # "none" /\ pc' = "none" /\ code' = 0 =>
       /\ canceled \/ gaveUp'
       /\ pc # "fork" => ldisc = "N_TTY"]_vars

(* However often the controller hangs up, the adapter comes back: the      *)
(* process by recovery, and for the service by a new process, whatever     *)
(* fails a bounded number of times, and also when recoveries have used up  *)
(* the descriptors (each leaves the old port and its epoll open).  Only a  *)
(* request to stop and a fork or ppoll that fails end the service.         *)
ServesAgain == []<>(pc \in Waiting \/ told \/ gaveUp \/ (Detach /\ fails > 0))
=============================================================================
