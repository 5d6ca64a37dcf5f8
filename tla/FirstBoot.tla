----------------------------- MODULE FirstBoot -----------------------------
(***************************************************************************)
(* The scripts of the first boot: rockchip.sh, which makes a marker, grows *)
(* the root file system with rk-resize-helper, updates the boot loader's   *)
(* configuration and reboots; mountboot.sh, which mounts /boot beside it;  *)
(* power that may go at any time, and commands that may fail.              *)
(***************************************************************************)
EXTENDS Integers, Sequences

CONSTANTS MaxLoss,         \* losses of power
          MaxCommandFail   \* commands that fail

ASSUME BootAssumption == MaxLoss \in Nat /\ MaxCommandFail \in Nat

MaxReboots == 3    \* where the count of reboots stops

VARIABLES mem, disk,       \* the files of the root and boot file systems, as
                           \* they are read and as they survive
          part, fs,        \* the partition, the root file system are grown
          script, mount,   \* the next step of rockchip.sh, of mountboot.sh
          mounted,         \* the boot partition is mounted on /boot
           losses, failures, reboots

files == <<mem, disk>>
counts == <<losses, failures, reboots>>
bootvars == <<files, part, fs, script, mount, mounted, counts>>

(* marker: /usr/local/first-boot; firstrun: /var/lib/misc/firstrun; conf:  *)
(* the configuration in the boot partition is up to date; hidden: one was  *)
(* written to the directory /boot that the mount covers.                   *)
Files   == {"marker", "firstrun", "conf", "hidden"}
NoFiles == [f \in Files |-> FALSE]

(* A new image, or one whose first-boot marker was removed to have the     *)
(* script run again.                                                       *)
BootInit ==
  /\ \E again \in BOOLEAN :
       /\ mem = [NoFiles EXCEPT !.firstrun = again] /\ disk = mem
       /\ part = again /\ fs = again
  /\ script = "start" /\ mount = "start" /\ mounted = FALSE
  /\ losses = 0 /\ failures = 0 /\ reboots = 0

(* The units are started, ExecStart=/etc/rockchip.sh start among them.     *)
Boot == script' = "start" /\ mount' = "start" /\ mounted' = FALSE

-----------------------------------------------------------------------------
(* rockchip.sh start *)
Skip ==
  /\ script = "start" /\ mem.marker
  /\ script' = "end"
  /\ UNCHANGED <<files, part, fs, mount, mounted, counts>>

(* Mutant: the marker is forgotten.                                        *)
MutMark ==
  /\ script = "start" /\ ~mem.marker
  /\ script' = "helper"
  /\ UNCHANGED <<files, part, fs, mount, mounted, counts>>

Mark ==
  /\ script = "start" /\ ~mem.marker
  /\ mem' = [mem EXCEPT !.marker = TRUE]
  /\ script' = "helper"
  /\ UNCHANGED <<disk, part, fs, mount, mounted, counts>>

(* rk-resize-helper start does its work once. *)
HelperSkips ==
  /\ script = "helper" /\ mem.firstrun
  /\ script' = "u-boot-update"
  /\ UNCHANGED <<files, part, fs, mount, mounted, counts>>

(* sgdisk, parted, partprobe: the partition table is written through. *)
GrowPartition ==
  /\ script = "helper" /\ ~mem.firstrun
  /\ part' = TRUE /\ script' = "resize2fs"
  /\ UNCHANGED <<files, fs, mount, mounted, counts>>

(* Mutant: the file that says the work is done is made before it is.       *)
MutGrowFs ==
  /\ script = "resize2fs"
  /\ mem' = [mem EXCEPT !.firstrun = TRUE] /\ script' = "firstrun"
  /\ UNCHANGED <<disk, part, fs, mount, mounted, counts>>

GrowFs ==
  /\ script = "resize2fs"
  /\ fs' = part /\ script' = "firstrun"
  /\ UNCHANGED <<files, part, mount, mounted, counts>>

HelperDone ==
  /\ script = "firstrun"
  /\ mem' = [mem EXCEPT !.firstrun = TRUE]
  /\ script' = "u-boot-update"
  /\ UNCHANGED <<disk, part, fs, mount, mounted, counts>>

(* u-boot-update writes to what it finds at /boot. *)
UBootUpdate ==
  /\ script = "u-boot-update"
  /\ mem' = IF mounted THEN [mem EXCEPT !.conf = TRUE] ELSE [mem EXCEPT !.hidden = TRUE]
  /\ script' = "reboot"
  /\ UNCHANGED <<disk, part, fs, mount, mounted, counts>>

(* Mutant: the system is reset at once, without writing anything out.      *)
MutReboot ==
  /\ script = "reboot"
  /\ reboots' = IF reboots < MaxReboots THEN reboots + 1 ELSE reboots
  /\ mem' = disk
  /\ Boot
  /\ UNCHANGED <<disk, part, fs, losses, failures>>

(* A reboot writes everything out. *)
Reboot ==
  /\ script = "reboot"
  /\ reboots' = IF reboots < MaxReboots THEN reboots + 1 ELSE reboots
  /\ disk' = mem
  /\ Boot
  /\ UNCHANGED <<mem, part, fs, losses, failures>>

(* Every script runs with -e: a command that fails ends it, from the first *)
(* one, before there is a marker, to the reboot.  The system goes on to be *)
(* up without it.                                                          *)
ScriptFails ==
  /\ script \notin {"end", "failed"}
  /\ failures < MaxCommandFail
  /\ failures' = failures + 1 /\ script' = "failed"
  /\ UNCHANGED <<files, part, fs, mount, mounted, losses, reboots>>

(* mountboot.sh, a unit without an order to the other. *)
MountBoot ==
  /\ mount = "start"
  /\ \/ mounted' = TRUE /\ mount' = "end" /\ UNCHANGED failures
     \/ /\ failures < MaxCommandFail
        /\ failures' = failures + 1 /\ mount' = "failed" /\ UNCHANGED mounted
  /\ UNCHANGED <<files, part, fs, script, losses, reboots>>

-----------------------------------------------------------------------------
(* The kernel writes out what changed. *)
Writeback ==
  /\ disk # mem
  /\ disk' = mem
  /\ UNCHANGED <<mem, part, fs, script, mount, mounted, counts>>

PowerLoss ==
  /\ losses < MaxLoss
  /\ losses' = losses + 1
  /\ mem' = disk
  /\ Boot
  /\ UNCHANGED <<disk, part, fs, failures, reboots>>

Up == script \in {"end", "failed"} /\ mount \in {"end", "failed"}

Settled == Up /\ UNCHANGED bootvars

Script == \/ Skip \/ Mark \/ HelperSkips \/ GrowPartition \/ GrowFs \/ HelperDone
          \/ UBootUpdate \/ Reboot \/ ScriptFails

BootNext == Script \/ MountBoot \/ Writeback \/ PowerLoss \/ Settled

BootSpec == BootInit /\ [][BootNext]_bootvars

(* The scripts go on; nothing else need happen. *)
FairBootSpec == BootSpec /\ WF_bootvars(Script) /\ WF_bootvars(MountBoot)

-----------------------------------------------------------------------------
(* However often the power goes, the system reboots by itself once at most *)
(* (the marker of rockchip.sh, which the reboot itself writes out).        *)
RebootsOnce == reboots <= 1

(* What the helper remembers is true: a file system recorded as grown is,  *)
(* and it is never larger than its partition (rk-resize-helper).           *)
RecordTrue == /\ (mem.firstrun \/ disk.firstrun) => fs
              /\ fs => part

(* The boot comes to rest with both scripts ended (rockchip.sh's reboot).  *)
Settles == <>[]Up
=============================================================================
