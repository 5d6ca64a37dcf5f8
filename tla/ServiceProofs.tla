---------------------------- MODULE ServiceProofs ----------------------------
(***************************************************************************)
(* The two units that are started with the system.  The Bluetooth service: *)
(* what a waiting process and a successful exit mean, for any number of    *)
(* failures, hang-ups, signals and descriptors, detached or not.  The      *)
(* first boot: what its markers guarantee, for any number of losses of     *)
(* power and failing commands.                                             *)
(***************************************************************************)
EXTENDS Attach, FirstBoot, TLAPS

Types ==
  /\ pc \in Places /\ canceled \in BOOLEAN /\ alarm \in BOOLEAN /\ gaveUp \in BOOLEAN
  /\ revents \in {"junk", "zero", "hup"} /\ ldisc \in {"N_TTY", "N_HCI"}
  /\ power \in {"on", "off"}
  /\ svc \in {"manual", "restart", "blocked", "unblocked", "active", "stopping", "dead"}

(* The service touches the controller only while there is no process.      *)
OneOwner == svc \in {"restart", "blocked", "unblocked"} => pc = "none"

(* What set-up has achieved by each place, and has not been undone.        *)
Achieved ==
  /\ pc \in {"ldisc", "proto", "ready", "handlers", "fork"} \cup Waiting => power = "on"
  /\ pc \in {"proto", "ready", "handlers", "fork"} \cup Waiting => ldisc = "N_HCI"
  /\ pc \in {"handlers", "fork", "restore", "decide", "off", "on"} \cup Waiting => ~alarm

(* Why the loop was left.                                                  *)
Left == /\ pc \in {"restore", "decide"} => canceled \/ gaveUp \/ revents = "hup"
        /\ pc = "decide" => ldisc = "N_TTY"

IInv == Types /\ OneOwner /\ Achieved /\ Left

LEMMA InitIInv == Init => IInv
  BY ServicesAssumption
     DEF Init, Detach, IInv, Types, OneOwner, Achieved, Left, Places, SettingUp, Waiting

(* The end of the process establishes the invariant, whatever the service  *)
(* is then.                                                                *)
LEMMA ExitKeeps ==
  ASSUME IInv, NEW status, Exit(status), power' = power, svc' = svc, gaveUp' \in BOOLEAN
  PROVE  IInv'
  BY DEF IInv, Types, OneOwner, Achieved, Left, Places, SettingUp, Waiting, Exit

LEMMA IInvStep == IInv /\ [Next]_vars => IInv'
<1> SUFFICES ASSUME IInv, [Next]_vars PROVE IInv'
  OBVIOUS
<1> USE DEF IInv, Types, OneOwner, Achieved, Left, Places, SettingUp, Waiting,
            Goto, env, sigvars, budgets, history
<1>1. CASE Begin
  BY <1>1 DEF Begin
<1>2. CASE OpenPort
  BY <1>2 DEF OpenPort
<1>3. CASE InitDevice
  BY <1>3 DEF InitDevice
<1>4. CASE SetDiscipline
  BY <1>4 DEF SetDiscipline
<1>5. CASE SetProto
  BY <1>5 DEF SetProto
<1>6. CASE SetupDone
  BY <1>6 DEF SetupDone
<1>7. CASE SetupFails
  BY <1>7, ExitKeeps DEF SetupFails
<1>8. CASE InstallHandlers
  BY <1>8 DEF InstallHandlers, Detach
<1>9. CASE Fork
  <2>1. CASE Exit(0)
    BY <1>9, <2>1, ExitKeeps DEF Fork
  <2>2. CASE ~Exit(0)
    BY <1>9, <2>2 DEF Fork
  <2>3. QED
    BY <2>1, <2>2
<1>10. CASE TestFlag
  BY <1>10 DEF TestFlag
<1>11. CASE Block
  BY <1>11 DEF Block
<1>12. CASE Restore
  <2>1. CASE Exit(1)
    BY <1>12, <2>1, ExitKeeps DEF Restore
  <2>2. CASE ~Exit(1)
    BY <1>12, <2>2 DEF Restore
  <2>3. QED
    BY <2>1, <2>2
<1>13. CASE Return
  BY <1>13, ExitKeeps DEF Return
<1>14. CASE Recover
  BY <1>14 DEF Recover
<1>15. CASE ResetBluetooth
  BY <1>15 DEF ResetBluetooth
<1>16. CASE ServiceEnds
  BY <1>16 DEF ServiceEnds
<1>17. CASE ScriptStep
  BY <1>17 DEF ScriptStep
<1>18. CASE Launch
  BY <1>18 DEF Launch
<1>19. CASE Alarm
  BY <1>19, ExitKeeps DEF Alarm
<1>20. CASE HangUp
  BY <1>20 DEF HangUp
<1>21. CASE Term
  <2>1. /\ power' = power /\ svc' \in {svc, "manual", "stopping"} /\ pc # "none"
        /\ gaveUp' = gaveUp
    BY <1>21 DEF Term, Detach
  <2>2. CASE Exit(143) \/ Exit(1)
    BY <2>1, <2>2 DEF Exit
  <2>3. CASE /\ canceled' = TRUE /\ pc' = (IF pc = "poll" THEN "test" ELSE pc)
             /\ UNCHANGED <<handlers, revents, alarm, fds, ldisc, code>>
    BY <2>1, <2>3
  <2>4. QED
    BY <1>21, <2>2, <2>3 DEF Term
<1>22. CASE PollFails
  BY <1>22 DEF PollFails
<1>23. CASE Over
  BY <1>23 DEF Over, vars
<1>24. CASE UNCHANGED vars
  BY <1>24 DEF vars
<1>25. QED
  BY <1>1, <1>2, <1>3, <1>4, <1>5, <1>6, <1>7, <1>8, <1>9, <1>10, <1>11, <1>12, <1>13,
     <1>14, <1>15, <1>16, <1>17, <1>18, <1>19, <1>20, <1>21, <1>22, <1>23, <1>24
     DEF Next, Process, Service

(* A process that waits serves: the line discipline is on the port, the    *)
(* controller has power and no alarm is left, in every wait of every       *)
(* process, after any recovery (main, init_uart).                          *)
THEOREM ServingAlways == Spec => []Serving
<1>1. IInv => Serving
  BY DEF IInv, Achieved, Serving
<1>2. QED
  BY InitIInv, IInvStep, <1>1, PTL DEF Spec

(* Exit status 0 means that the process was told to stop or that fork or   *)
(* ppoll failed (main: -1 taken for a child, a loop left on any error);    *)
(* but for fork, that the port was handed back.  The service takes no      *)
(* other failure for a success.                                            *)
THEOREM SuccessExplainedAlways == Spec => SuccessExplained
<1> DEFINE Explained == /\ canceled \/ gaveUp'
                        /\ pc # "fork" => ldisc = "N_TTY"
           Step == pc # "none" /\ pc' = "none" /\ code' = 0 => Explained
<1>1. IInv /\ [Next]_vars => [Step]_vars
  <2> SUFFICES ASSUME IInv, Next, pc # "none", pc' = "none", code' = 0
               PROVE  Explained
    BY DEF vars
  <2>1. \A status : Exit(status) => code' = status
    BY DEF Exit
  <2>2. ~SetupFails /\ ~Alarm
    BY <2>1 DEF SetupFails, Alarm
  <2>3. ~Term
    BY <2>1 DEF Term
  <2>4. ~(Restore /\ Exit(1)) /\ (Restore => Exit(1))
    BY <2>1 DEF Restore
  <2>5. Return \/ Fork
    BY <2>2, <2>3, <2>4
       DEF Next, Process, Service, Begin, OpenPort, InitDevice, SetDiscipline, SetProto,
           SetupDone, InstallHandlers, TestFlag, Block, PollFails, Recover, ResetBluetooth,
           ServiceEnds, ScriptStep, Launch, HangUp, Over, Goto, vars
  <2>6. CASE Return
    BY <2>6 DEF Return, IInv, Types, Left, env, history
  <2>7. CASE Fork
    BY <2>7 DEF Fork
  <2>8. QED
    BY <2>5, <2>6, <2>7
<1>2. QED
  BY InitIInv, IInvStep, <1>1, PTL DEF Spec, SuccessExplained
-----------------------------------------------------------------------------
(* The first boot.                                                         *)
BootTypes ==
  /\ mem \in [Files -> BOOLEAN] /\ disk \in [Files -> BOOLEAN]
  /\ part \in BOOLEAN /\ fs \in BOOLEAN /\ reboots \in Nat

(* The marker exists while the script is past it, and the reboot writes it *)
(* out: after one the script only skips.                                   *)
MarkerHeld ==
  /\ script \in {"helper", "resize2fs", "firstrun", "u-boot-update", "reboot"} => mem.marker
  /\ reboots > 0 => mem.marker /\ disk.marker /\ script \in {"start", "end", "failed"}
  /\ reboots <= 1

(* What the steps of rk-resize-helper find done.                           *)
StepsDone ==
  /\ script = "resize2fs" => part
  /\ script = "firstrun" => fs

BootIInv == BootTypes /\ MarkerHeld /\ StepsDone /\ RecordTrue

LEMMA BootInitIInv == BootInit => BootIInv
<1> SUFFICES ASSUME BootInit PROVE BootIInv
  OBVIOUS
<1>1. PICK again \in BOOLEAN : /\ mem = [NoFiles EXCEPT !.firstrun = again] /\ disk = mem
                               /\ part = again /\ fs = again
  BY DEF BootInit
<1>2. script = "start" /\ reboots = 0
  BY DEF BootInit
<1>3. BootTypes
  BY <1>1, <1>2 DEF BootTypes, NoFiles
<1>4. mem.firstrun = fs /\ disk.firstrun = fs /\ fs = part /\ fs \in BOOLEAN
  BY <1>1 DEF NoFiles, Files
<1>5. MarkerHeld /\ StepsDone
  BY <1>2 DEF MarkerHeld, StepsDone
<1>6. RecordTrue
  BY <1>4 DEF RecordTrue
<1>7. QED
  BY <1>3, <1>5, <1>6 DEF BootIInv

LEMMA BootIInvStep == BootIInv /\ [BootNext]_bootvars => BootIInv'
<1> SUFFICES ASSUME BootIInv, [BootNext]_bootvars PROVE BootIInv'
  OBVIOUS
<1> USE DEF BootIInv, BootTypes, MarkerHeld, StepsDone, RecordTrue, Files, files, counts
<1>1. CASE Skip
  BY <1>1 DEF Skip
<1>2. CASE Mark
  BY <1>2 DEF Mark
<1>3. CASE HelperSkips
  BY <1>3 DEF HelperSkips
<1>4. CASE GrowPartition
  BY <1>4 DEF GrowPartition
<1>5. CASE GrowFs
  BY <1>5 DEF GrowFs
<1>6. CASE HelperDone
  BY <1>6 DEF HelperDone
<1>7. CASE UBootUpdate
  BY <1>7 DEF UBootUpdate
<1>8. CASE Reboot
  <2>1. reboots = 0
    BY <1>8 DEF Reboot
  <2>2. reboots' = 1
    BY <1>8, <2>1 DEF Reboot, MaxReboots
  <2>3. QED
    BY <1>8, <2>2 DEF Reboot, Boot
<1>9. CASE ScriptFails
  BY <1>9 DEF ScriptFails
<1>10. CASE MountBoot
  BY <1>10 DEF MountBoot
<1>11. CASE Writeback
  BY <1>11 DEF Writeback
<1>12. CASE PowerLoss
  BY <1>12 DEF PowerLoss, Boot
<1>13. CASE Settled
  BY <1>13 DEF Settled, bootvars
<1>14. CASE UNCHANGED bootvars
  BY <1>14 DEF bootvars
<1>15. QED
  BY <1>1, <1>2, <1>3, <1>4, <1>5, <1>6, <1>7, <1>8, <1>9, <1>10, <1>11, <1>12, <1>13, <1>14
     DEF BootNext, Script

(* However often the power goes and whatever fails, the system reboots by  *)
(* itself once at most (rockchip.sh: the marker comes before the reboot).  *)
THEOREM RebootsOnceAlways == BootSpec => []RebootsOnce
<1>1. BootIInv => RebootsOnce
  BY DEF BootIInv, MarkerHeld, RebootsOnce
<1>2. QED
  BY BootInitIInv, BootIInvStep, <1>1, PTL DEF BootSpec

(* A file system recorded as grown is grown, and never larger than its     *)
(* partition, also after a loss of power at any step (rk-resize-helper).   *)
THEOREM RecordTrueAlways == BootSpec => []RecordTrue
<1>1. BootIInv => RecordTrue
  BY DEF BootIInv
<1>2. QED
  BY BootInitIInv, BootIInvStep, <1>1, PTL DEF BootSpec
=============================================================================
