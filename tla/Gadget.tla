------------------------------- MODULE Gadget -------------------------------
(***************************************************************************)
(* The USB gadget for adb: android-gadget-setup, -start and -cleanup, and  *)
(* their callers, adbd.sh and the unit that 10-adbd-rockchip.conf extends. *)
(* The kernel's configfs, functionfs and the daemon adbd are external.     *)
(***************************************************************************)
EXTENDS Naturals, Sequences

CONSTANTS Callers,   \* who calls the scripts, see systemd
          MaxFail,   \* steps of android-gadget-setup that fail of themselves
          MaxCalls   \* calls of the scripts

ASSUME GadgetAssumption == Callers \subseteq BOOLEAN /\ MaxFail \in Nat /\ MaxCalls \in Nat

VARIABLES systemd,   \* TRUE: the unit calls the scripts, FALSE: adbd.sh; never changes
          items,     \* what exists in /sys/kernel/config/usb_gadget
          dir,       \* /dev/usb-ffs/adb exists
          mounts,    \* functionfs mounts stacked on it
          bound,     \* the gadget is bound to a controller
          adbd,      \* the daemon
          held,      \* which of the mounts it has ep0 of open, 0: none
          script, step, next,   \* the script that runs, its step, what follows clean-up
          failures, calls

fs == <<items, dir, mounts>>
daemon == <<adbd, held, bound>>
counts == <<failures, calls>>
vars == <<fs, daemon, script, step, next, systemd, counts>>

SetupSteps   == <<"adb", "config", "function", "strings", "cstrings", "link", "dir", "mount">>
(* Mutant: the configuration before its strings.                           *)
MutCleanupSteps == <<"UDC", "mount", "dir", "link", "config", "cstrings", "function", "strings",
                     "adb">>
CleanupSteps == <<"UDC", "mount", "dir", "link", "cstrings", "config", "function", "strings",
                  "adb">>
Items == {"adb", "config", "function", "strings", "cstrings", "link"}

(* A directory of configfs goes when nothing is in it but what the kernel  *)
(* made, and a function when no configuration links to it.                 *)
Within(item) == CASE item = "adb"      -> Items \ {"adb"}
                  [] item = "config"   -> {"cstrings", "link"}
                  [] item = "function" -> {"link"}
                  [] OTHER             -> {}

Init ==
  /\ systemd \in Callers
  /\ items = {} /\ dir = FALSE /\ mounts = 0 /\ bound = FALSE
  /\ adbd = "none" /\ held = 0
  /\ script = "idle" /\ step = 1 /\ next = "idle"
  /\ failures = 0 /\ calls = 0

-----------------------------------------------------------------------------
(* One call at a time, of start, stop or restart; restart is stop, start.  *)
Call == script = "idle" /\ calls < MaxCalls /\ calls' = calls + 1

(* Mutant: what an earlier set-up left is not cleaned up.                  *)
MutSetup == script' = "setup" /\ step' = 1 /\ UNCHANGED next

Setup ==
  /\ script' = (IF "adb" \in items THEN "cleanup" ELSE "setup")
  /\ step' = 1
  /\ next' = (IF "adb" \in items THEN "setup" ELSE next)

Start ==
  /\ Call
  /\ systemd => adbd = "none"
  /\ Setup
  /\ UNCHANGED <<fs, daemon, systemd, failures>>

(* start-stop-daemon -K -o does not wait for the daemon; the unit does.    *)
Stop ==
  /\ Call
  /\ script' = "kill" /\ step' = 1
  /\ next' \in {"idle", "start"}
  /\ UNCHANGED <<fs, daemon, systemd, failures>>

(* Mutant: the unit has no ExecStopPost.                                   *)
MutFails == script' = "idle" /\ step' = 1 /\ UNCHANGED next

(* set -e, #!/bin/sh -e: what fails ends the script.  The unit then stops  *)
(* the daemon and runs ExecStopPost.                                       *)
Fails == IF systemd THEN script' = "kill" /\ step' = 1 /\ next' = "idle"
                    ELSE script' = "idle" /\ step' = 1 /\ UNCHANGED next

-----------------------------------------------------------------------------
(* android-gadget-setup.  What is there is not made a second time, but for *)
(* mkdir -p and a mount, which is stacked.                                 *)
Make(what) ==
  CASE what = "dir"   -> dir' = TRUE /\ UNCHANGED <<items, mounts>>
    [] what = "mount" -> mounts' = mounts + 1 /\ UNCHANGED <<items, dir>>
    [] OTHER          -> /\ what \notin items /\ items' = items \cup {what}
                         /\ UNCHANGED <<dir, mounts>>

SetupStep ==
  /\ script = "setup" /\ Make(SetupSteps[step])
  /\ IF step = Len(SetupSteps) THEN script' = "daemon" /\ step' = 1
                               ELSE step' = step + 1 /\ UNCHANGED script
  /\ UNCHANGED <<daemon, next, systemd, counts>>

SetupFails ==
  /\ script = "setup"
  /\ \/ failures < MaxFail /\ failures' = failures + 1
     \/ SetupSteps[step] \in items /\ UNCHANGED failures
  /\ Fails
  /\ UNCHANGED <<fs, daemon, systemd, calls>>

(* start-stop-daemon -S fails if it finds an adbd.                         *)
StartDaemon ==
  /\ script = "daemon"
  /\ IF adbd = "none" THEN /\ adbd' = "started" /\ held' = 0
                           /\ script' = "bind" /\ UNCHANGED <<step, next>>
                      ELSE Fails /\ UNCHANGED <<adbd, held>>
  /\ UNCHANGED <<fs, bound, systemd, counts>>

(* android-gadget-start.  The loop ends when fuser finds a user of ep0, or *)
(* after a hundred times; then the controller is written to UDC, which the *)
(* kernel refuses while the function is not ready.                         *)
InUse == held = mounts /\ mounts > 0
Ready == InUse /\ adbd = "ready"

Bind ==
  /\ bound' = TRUE /\ script' = "idle" /\ UNCHANGED <<step, next>>

(* With no controller in /sys/class/udc there is nothing to write, and the *)
(* script succeeds.                                                        *)
NoController ==
  /\ script' = "idle" /\ UNCHANGED <<bound, step, next>>

WaitOver ==
  /\ script = "bind" /\ InUse
  /\ \/ NoController
     \/ Ready /\ Bind
     \/ ~Ready /\ Fails /\ UNCHANGED bound
  /\ UNCHANGED <<fs, adbd, held, systemd, counts>>

(* Mutant: the script waits as long as it takes.                           *)
MutTimeout == script = "bind" /\ ~InUse /\ UNCHANGED vars

Timeout ==
  /\ script = "bind" /\ ~InUse
  /\ NoController \/ (Fails /\ UNCHANGED bound)
  /\ UNCHANGED <<fs, adbd, held, systemd, counts>>

-----------------------------------------------------------------------------
Kill ==
  /\ script = "kill"
  /\ IF systemd THEN adbd = "none" /\ UNCHANGED adbd
                ELSE adbd' = IF adbd = "none" THEN "none" ELSE "told"
  /\ \/ "adb" \in items /\ script' = "cleanup" /\ UNCHANGED next
     \/ "adb" \notin items /\ next = "start" /\ script' = "setup" /\ next' = "idle"
     \/ "adb" \notin items /\ next # "start" /\ script' = "idle" /\ UNCHANGED next
  /\ step' = 1
  /\ UNCHANGED <<systemd, fs, held, bound, counts>>

(* android-gadget-cleanup.  A step that fails is passed over.  Without a   *)
(* byte to write, echo -n "" > UDC may leave the gadget bound; removing    *)
(* the link unbinds it.                                                    *)
Remove(what) ==
  CASE what = "UDC"   -> bound' \in {bound, FALSE} /\ UNCHANGED fs
    [] what = "mount" -> /\ mounts' = IF mounts = 0 \/ held = mounts THEN mounts ELSE mounts - 1
                         /\ UNCHANGED <<items, dir, bound>>
    [] what = "dir"   -> dir' = (dir /\ mounts > 0) /\ UNCHANGED <<items, mounts, bound>>
    [] OTHER          -> /\ items' = IF Within(what) \cap items = {} THEN items \ {what} ELSE items
                         /\ bound' = (bound /\ what # "link")
                         /\ UNCHANGED <<dir, mounts>>

CleanupStep ==
  /\ script = "cleanup" /\ step < Len(CleanupSteps)
  /\ Remove(CleanupSteps[step])
  /\ step' = step + 1
  /\ UNCHANGED <<adbd, held, script, next, systemd, counts>>

(* Its result is that of the last rmdir; set-up does not look at it.       *)
CleanupEnds ==
  /\ script = "cleanup" /\ step = Len(CleanupSteps)
  /\ Remove(CleanupSteps[step])
  /\ step' = 1
  /\ script' = IF next = "setup" \/ (next = "start" /\ items' = {}) THEN "setup" ELSE "idle"
  /\ next' = "idle"
  /\ UNCHANGED <<systemd, adbd, held, counts>>

-----------------------------------------------------------------------------
(* The daemon opens ep0, writes its descriptors, and ends when it is told  *)
(* to or of itself.  Its end closes ep0, which unbinds the gadget, and has *)
(* the unit run ExecStopPost.                                              *)
AdbdOpens ==
  /\ adbd = "started" /\ mounts > 0
  /\ adbd' = "open" /\ held' = mounts
  /\ UNCHANGED <<fs, bound, script, step, next, systemd, counts>>

AdbdWrites ==
  /\ adbd = "open" /\ adbd' = "ready"
  /\ UNCHANGED <<fs, held, bound, script, step, next, systemd, counts>>

AdbdEnds ==
  /\ adbd # "none" /\ adbd' = "none" /\ held' = 0 /\ bound' = FALSE
  /\ IF systemd /\ script \in {"idle", "bind"}
       THEN script' = "kill" /\ step' = 1 /\ next' = "idle"
       ELSE UNCHANGED <<script, step, next>>
  /\ UNCHANGED <<fs, systemd, counts>>

(* The callers: no more calls. *)
Idle == script = "idle" /\ UNCHANGED vars

-----------------------------------------------------------------------------
Scripts == \/ SetupStep \/ SetupFails \/ StartDaemon \/ WaitOver \/ Timeout
           \/ Kill \/ CleanupStep \/ CleanupEnds
Adbd == AdbdOpens \/ AdbdWrites \/ AdbdEnds
Next == Start \/ Stop \/ Scripts \/ Adbd \/ Idle

Spec == Init /\ [][Next]_vars

(* The scripts go on, and a daemon that systemd told to end does (it sends *)
(* SIGKILL in the end).                                                    *)
FairSpec == Spec /\ WF_vars(Scripts) /\ WF_vars(script = "kill" /\ AdbdEnds)

-----------------------------------------------------------------------------
(* Clean-up takes down whatever set-up had built when it failed, at any    *)
(* step; no directory, link or mount is left (android-gadget-cleanup).     *)
NothingLeft == [][systemd /\ CleanupEnds => items' = {} /\ ~dir' /\ mounts' = 0]_vars

(* Whatever earlier calls left behind, an adbd that lives on and a mount   *)
(* it holds among them, set-up never fails over it (android-gadget-setup,  *)
(* the clean-up it begins with).                                           *)
NeverInTheWay == [][SetupFails => failures' # failures]_vars

(* Every call comes to its end (the bound of the loop over fuser).         *)
CallsEnd == []<>(script = "idle")

(* When the unit has come to rest without a daemon, whichever step failed  *)
(* and whether it was stopped or the daemon ended, the gadget is gone as a *)
(* whole and the next start finds nothing (ExecStopPost=).                 *)
DownMeansGone == systemd /\ script = "idle" /\ adbd = "none" =>
                   items = {} /\ ~dir /\ mounts = 0 /\ ~bound
=============================================================================
