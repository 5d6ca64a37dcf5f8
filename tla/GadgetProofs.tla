---------------------------- MODULE GadgetProofs ----------------------------
(***************************************************************************)
(* Set-up and clean-up of the gadget take each other's remains into        *)
(* account, for any number of calls and failing steps.                     *)
(***************************************************************************)
EXTENDS Gadget, TLAPS

Types ==
  /\ script \in {"idle", "setup", "daemon", "bind", "kill", "cleanup"}
  /\ step \in 1..9 /\ items \subseteq Items
  /\ mounts \in Nat /\ held \in Nat
  /\ adbd \in {"none", "started", "open", "ready", "told"}

(* What set-up still has to make is not there yet.                         *)
ToMake == script = "setup" => /\ step <= 8
                              /\ \A k \in step..8 : SetupSteps[k] \notin items
                              /\ step > 1 => "adb" \in items

(* Everything is in the gadget's directory.                                *)
Rooted == "adb" \notin items => items = {}

(* What clean-up has passed is gone.                                       *)
Gone == script = "cleanup" =>
          \A k \in 4..8 : k < step => CleanupSteps[k] \notin items

(* Why no step of the clean-up is refused: each item goes after those      *)
(* within it.                                                              *)
LEMMA InsideFirst ==
  \A k \in 4..9 : Within(CleanupSteps[k]) \subseteq {CleanupSteps[j] : j \in 4..(k - 1)}
<1> SUFFICES ASSUME NEW k \in 4..9
             PROVE  Within(CleanupSteps[k]) \subseteq {CleanupSteps[j] : j \in 4..(k - 1)}
  OBVIOUS
<1>1. /\ CleanupSteps[4] = "link" /\ CleanupSteps[5] = "cstrings"
      /\ CleanupSteps[6] = "config" /\ CleanupSteps[7] = "function"
      /\ CleanupSteps[8] = "strings" /\ CleanupSteps[9] = "adb"
  BY DEF CleanupSteps
<1>2. CASE k \in {4, 5, 8}
  BY <1>1, <1>2 DEF Within
<1>3. CASE k = 6
  <2>1. 4 \in 4..(k - 1) /\ 5 \in 4..(k - 1)
    BY <1>3
  <2>2. Within(CleanupSteps[k]) = {CleanupSteps[5], CleanupSteps[4]}
    BY <1>1, <1>3 DEF Within
  <2>3. QED
    BY <2>1, <2>2
<1>4. CASE k = 7
  <2>1. 4 \in 4..(k - 1)
    BY <1>4
  <2>2. Within(CleanupSteps[k]) = {CleanupSteps[4]}
    BY <1>1, <1>4 DEF Within
  <2>3. QED
    BY <2>1, <2>2
<1>5. CASE k = 9
  <2>1. \A j \in 4..8 : j \in 4..(k - 1)
    BY <1>5
  <2>2. Within(CleanupSteps[k]) = {CleanupSteps[4], CleanupSteps[5], CleanupSteps[6],
                                   CleanupSteps[7], CleanupSteps[8]}
    BY <1>1, <1>5 DEF Within, Items
  <2>3. QED
    BY <2>1, <2>2
<1>6. QED
  BY <1>2, <1>3, <1>4, <1>5

(* With the unit, which waits for the daemon, no mount is ever busy when   *)
(* it is to go, so that none is stacked on another.                        *)
Unit == systemd =>
  /\ mounts <= 1
  /\ "adb" \notin items => mounts = 0 /\ ~dir
  /\ script \in {"setup", "daemon", "cleanup"} => adbd = "none"
  /\ script = "setup" => mounts = 0 /\ (step <= 7 => ~dir)
  /\ script = "cleanup" => (step > 2 => mounts = 0) /\ (step > 3 => ~dir)

Closed == adbd = "none" => held = 0

IInv == Types /\ ToMake /\ Gone /\ Rooted /\ Unit /\ Closed

(* The caller stays the same.                                              *)
LEMMA CallerFixed == [Next]_vars => systemd' = systemd
  BY DEF Next, Start, Stop, Scripts, SetupStep, SetupFails, StartDaemon, WaitOver,
         NoController, Timeout, Kill, CleanupStep, CleanupEnds, Adbd, AdbdOpens, AdbdWrites,
         AdbdEnds, Idle, vars

(* The step of the clean-up that is about to be done empties its place.    *)
LEMMA StepRemoves ==
  ASSUME IInv, script = "cleanup", step \in 4..9, Remove(CleanupSteps[step])
  PROVE  items' = items \ {CleanupSteps[step]}
<1>1. Within(CleanupSteps[step]) \cap items = {}
  <2> SUFFICES ASSUME NEW x \in Within(CleanupSteps[step]) PROVE x \notin items
    OBVIOUS
  <2>1. PICK j \in 4..(step - 1) : x = CleanupSteps[j]
    BY InsideFirst
  <2>2. j \in 4..8 /\ j < step
    BY <2>1
  <2>3. QED
    BY <2>1, <2>2 DEF IInv, Gone
<1>2. CleanupSteps[step] \notin {"UDC", "mount", "dir"}
  BY DEF CleanupSteps
<1>3. QED
  BY <1>1, <1>2 DEF Remove

LEMMA CleanupEmpties == IInv /\ CleanupEnds => items' = {}
<1> SUFFICES ASSUME IInv, CleanupEnds PROVE items' = {}
  OBVIOUS
<1>1. script = "cleanup" /\ step = 9 /\ Remove(CleanupSteps[step])
  BY DEF CleanupEnds, CleanupSteps
<1>2. items' = items \ {CleanupSteps[9]}
  BY <1>1, StepRemoves
<1>3. \A k \in 4..8 : CleanupSteps[k] \notin items
  BY <1>1 DEF IInv, Gone
<1>4. /\ CleanupSteps[4] = "link" /\ CleanupSteps[5] = "cstrings"
      /\ CleanupSteps[6] = "config" /\ CleanupSteps[7] = "function"
      /\ CleanupSteps[8] = "strings" /\ CleanupSteps[9] = "adb"
  BY DEF CleanupSteps
<1>5. {"link", "cstrings", "config", "function", "strings"} \cap items = {}
  BY <1>3, <1>4
<1>6. QED
  BY <1>2, <1>4, <1>5 DEF IInv, Types, Items

LEMMA InitIInv == Init => IInv
<1> SUFFICES ASSUME Init PROVE IInv
  OBVIOUS
<1>1. /\ script = "idle" /\ step = 1 /\ items = {} /\ dir = FALSE /\ mounts = 0
      /\ adbd = "none" /\ held = 0
  BY DEF Init
<1>2. Types
  BY <1>1 DEF Types
<1>3. ToMake /\ Gone /\ Rooted /\ Closed
  BY <1>1 DEF ToMake, Gone, Rooted, Closed
<1>4. mounts <= 1 /\ ~dir
  BY <1>1
<1>5. Unit
  BY <1>1, <1>4 DEF Unit
<1>6. QED
  BY <1>2, <1>3, <1>5 DEF IInv

(* Set-up begins where there is nothing.                                   *)
LEMMA SetupBegins ==
  ASSUME NEW its, its = {}, NEW k \in 1..8 PROVE SetupSteps[k] \notin its
  OBVIOUS

LEMMA StepsDiffer ==
  /\ Len(SetupSteps) = 8 /\ SetupSteps[1] = "adb" /\ SetupSteps[7] = "dir"
  /\ SetupSteps[8] = "mount"
  /\ \A k \in 1..8 : k \notin {7, 8} => SetupSteps[k] \in Items
  /\ \A k, l \in 1..8 : k # l => SetupSteps[k] # SetupSteps[l]
<1>1. /\ SetupSteps[1] = "adb" /\ SetupSteps[2] = "config" /\ SetupSteps[3] = "function"
      /\ SetupSteps[4] = "strings" /\ SetupSteps[5] = "cstrings" /\ SetupSteps[6] = "link"
      /\ SetupSteps[7] = "dir" /\ SetupSteps[8] = "mount" /\ Len(SetupSteps) = 8
  BY DEF SetupSteps
<1>2. \A k \in 1..8 : k \in {1, 2, 3, 4, 5, 6, 7, 8}
  OBVIOUS
<1>3. \A k \in 1..8 : k \notin {7, 8} => SetupSteps[k] \in Items
  BY <1>1, <1>2 DEF Items
<1>4. \A k, l \in 1..8 : k # l => SetupSteps[k] # SetupSteps[l]
  BY <1>1, <1>2
<1>5. QED
  BY <1>1, <1>3, <1>4

LEMMA SetupStepKeeps == IInv /\ SetupStep => IInv'
<1> SUFFICES ASSUME IInv, SetupStep PROVE IInv'
  OBVIOUS
<1>0. systemd' = systemd
  BY DEF SetupStep
<1>1. /\ script = "setup" /\ step \in 1..8 /\ Make(SetupSteps[step])
      /\ \A k \in step..8 : SetupSteps[k] \notin items
      /\ UNCHANGED <<adbd, held>>
      /\ \/ step = 8 /\ script' = "daemon" /\ step' = 1
         \/ step < 8 /\ script' = "setup" /\ step' = step + 1
  BY StepsDiffer DEF SetupStep, IInv, Types, ToMake, daemon
<1>2. CASE step \in {7, 8}
  <2>1. /\ items' = items /\ "adb" \in items
        /\ step = 7 => dir' = TRUE /\ mounts' = mounts
        /\ step = 8 => dir' = dir /\ mounts' = mounts + 1
    BY <1>1, <1>2, StepsDiffer DEF Make, IInv, ToMake
  <2>2. /\ script' \in {"setup", "daemon"} /\ step' \in 1..8
        /\ script' = "setup" => step = 7 /\ step' = 8
    BY <1>1, <1>2
  <2>3. Types'
    BY <1>1, <1>2, <2>1, <2>2 DEF IInv, Types
  <2>4. \A k \in 8..8 : k \in 7..8
    OBVIOUS
  <2>5. ToMake' /\ Gone' /\ Rooted' /\ Closed'
    BY <1>1, <2>1, <2>2, <2>4 DEF IInv, ToMake, Gone, Rooted, Closed
  <2>6. systemd => mounts' <= 1 /\ (step = 7 => mounts' = 0)
    BY <1>1, <1>2, <2>1 DEF IInv, Types, Unit
  <2>7. Unit'
    BY <1>0, <1>1, <2>1, <2>2, <2>6 DEF IInv, Unit
  <2>8. QED
    BY <2>3, <2>5, <2>7 DEF IInv
<1>3. CASE step \notin {7, 8}
  <2>1. /\ items' = items \cup {SetupSteps[step]} /\ UNCHANGED <<dir, mounts>>
        /\ SetupSteps[step] \in Items
    BY <1>1, <1>3, StepsDiffer DEF Make, Items
  <2>2. "adb" \in items'
    BY <1>1, <2>1, StepsDiffer DEF IInv, ToMake
  <2>3. \A k \in (step + 1)..8 : SetupSteps[k] \notin items'
    <3> SUFFICES ASSUME NEW k \in (step + 1)..8 PROVE SetupSteps[k] \notin items'
      OBVIOUS
    <3>1. k \in step..8 /\ k \in 1..8 /\ k # step
      BY <1>1
    <3>2. QED
      BY <1>1, <2>1, <3>1, StepsDiffer
  <2>4. script' = "setup" /\ step' = step + 1 /\ step <= 6
    BY <1>1, <1>3
  <2>5. QED
    BY <1>0, <1>1, <2>1, <2>2, <2>3, <2>4 DEF IInv, Types, ToMake, Gone, Rooted, Unit, Closed
<1>4. QED
  BY <1>2, <1>3

LEMMA CleanupStepKeeps == IInv /\ CleanupStep => IInv'
<1> SUFFICES ASSUME IInv, CleanupStep PROVE IInv'
  OBVIOUS
<1>0. systemd' = systemd
  BY DEF CleanupStep
<1>1. /\ script = "cleanup" /\ step \in 1..8 /\ Remove(CleanupSteps[step])
      /\ step' = step + 1 /\ UNCHANGED <<adbd, held, script>>
  BY DEF CleanupStep, CleanupSteps, IInv, Types
<1>2. /\ CleanupSteps[1] = "UDC" /\ CleanupSteps[2] = "mount" /\ CleanupSteps[3] = "dir"
      /\ CleanupSteps[4] = "link" /\ CleanupSteps[5] = "cstrings"
      /\ CleanupSteps[6] = "config" /\ CleanupSteps[7] = "function"
      /\ CleanupSteps[8] = "strings"
  BY DEF CleanupSteps
<1>3. CASE step \in {1, 2, 3}
  <2>1. items' = items
    BY <1>1, <1>2, <1>3 DEF Remove, fs
  <2>2. /\ mounts' \in {mounts, mounts - 1} /\ mounts' \in Nat
        /\ ~dir => ~dir'
        /\ step = 2 => dir' = dir /\ (mounts # 0 /\ held # mounts => mounts' = mounts - 1)
        /\ step = 3 => mounts' = mounts /\ (mounts = 0 => ~dir')
    <3>1. CASE step = 1
      BY <1>1, <1>2, <3>1 DEF Remove, fs, IInv, Types
    <3>2. CASE step = 2
      BY <1>1, <1>2, <3>2 DEF Remove, fs, IInv, Types
    <3>3. CASE step = 3
      <4>1. dir' = (dir /\ mounts > 0) /\ mounts' = mounts
        BY <1>1, <1>2, <3>3 DEF Remove
      <4>2. (~dir => ~dir') /\ (~(mounts > 0) => ~dir')
        BY <4>1, Zenon
      <4>3. mounts = 0 => ~(mounts > 0)
        BY SMT
      <4>4. mounts \in Nat
        BY DEF IInv, Types
      <4>5. QED
        BY <3>3, <4>1, <4>2, <4>3, <4>4
    <3>4. QED
      BY <1>3, <3>1, <3>2, <3>3
  <2>3. systemd => (step' > 2 => mounts' = 0) /\ (step' > 3 => ~dir')
    <3>1. CASE step = 1
      BY <1>1, <3>1
    <3>2. CASE step = 2
      BY <1>1, <2>2, <3>2 DEF IInv, Types, Unit, Closed
    <3>3. CASE step = 3
      BY <1>1, <2>2, <3>3 DEF IInv, Types, Unit
    <3>4. QED
      BY <1>3, <3>1, <3>2, <3>3
  <2>4. Gone' /\ Rooted' /\ ToMake'
    BY <1>1, <1>3, <2>1 DEF IInv, Gone, Rooted, ToMake
  <2>5. QED
    BY <1>0, <1>1, <2>1, <2>2, <2>3, <2>4 DEF IInv, Types, Unit, Closed
<1>4. CASE step \in 4..8
  <2>1. items' = items \ {CleanupSteps[step]}
    BY <1>1, <1>4, StepRemoves
  <2>2. UNCHANGED <<dir, mounts>> /\ CleanupSteps[step] # "adb"
    <3>1. CleanupSteps[step] \in {"link", "cstrings", "config", "function", "strings"}
      BY <1>2, <1>4
    <3>2. QED
      BY <1>1, <3>1 DEF Remove
  <2>3. Gone'
    BY <1>1, <1>4, <2>1 DEF IInv, Gone
  <2>4. QED
    BY <1>0, <1>1, <1>4, <2>1, <2>2, <2>3 DEF IInv, Types, ToMake, Rooted, Unit, Closed
<1>5. QED
  BY <1>1, <1>3, <1>4

(* Where set-up starts again there is nothing.                             *)
LEMMA NothingThere ==
  ASSUME Types', systemd' = systemd, items' = {}, script' = "setup", step' = 1,
         systemd => mounts' = 0 /\ ~dir' /\ adbd' = "none",
         adbd' = "none" => held' = 0
  PROVE  IInv'
<1>1. ToMake' /\ Gone' /\ Rooted' /\ Closed'
  BY StepsDiffer DEF ToMake, Gone, Rooted, Closed
<1>2. systemd => mounts' <= 1
  OBVIOUS
<1>3. Unit'
  BY <1>2 DEF Unit
<1>4. QED
  BY <1>1, <1>3 DEF IInv

LEMMA CleanupEndsKeeps == IInv /\ CleanupEnds => IInv'
<1> SUFFICES ASSUME IInv, CleanupEnds PROVE IInv'
  OBVIOUS
<1>0. systemd' = systemd
  BY DEF CleanupEnds
<1>1. items' = {}
  BY CleanupEmpties
<1>2. /\ script = "cleanup" /\ step = 9 /\ Remove("adb") /\ step' = 1
      /\ script' \in {"setup", "idle"} /\ UNCHANGED <<adbd, held>>
  BY DEF CleanupEnds, CleanupSteps
<1>3. UNCHANGED <<dir, mounts>>
  BY <1>2 DEF Remove
<1>4. Types'
  BY <1>1, <1>2, <1>3 DEF IInv, Types
<1>5. (systemd => mounts' = 0 /\ ~dir' /\ adbd' = "none") /\ Closed'
  BY <1>2, <1>3 DEF IInv, Unit, Closed
<1>6. CASE script' = "setup"
  BY <1>0, <1>1, <1>2, <1>4, <1>5, <1>6, NothingThere DEF Closed
<1>7. CASE script' = "idle"
  <2>1. ToMake' /\ Gone' /\ Rooted'
    BY <1>1, <1>7 DEF ToMake, Gone, Rooted
  <2>2. systemd => mounts' <= 1
    BY <1>5
  <2>3. Unit'
    BY <1>0, <1>5, <1>7, <2>2 DEF Unit
  <2>4. QED
    BY <1>4, <1>5, <2>1, <2>3 DEF IInv
<1>8. QED
  BY <1>2, <1>6, <1>7

(* Steps outside of set-up and clean-up, which touch neither the gadget    *)
(* nor the mounts.                                                         *)
LEMMA OutsideKeeps ==
  ASSUME IInv, UNCHANGED <<systemd, fs>>, step' \in 1..9,
         script' \in {"idle", "daemon", "bind", "kill"},
         adbd' \in {"none", "started", "open", "ready", "told"}, held' \in Nat,
         adbd' = "none" => held' = 0,
         systemd /\ script' = "daemon" => adbd' = "none"
  PROVE  IInv'
<1>1. Types'
  BY DEF IInv, Types, fs
<1>2. ToMake' /\ Gone' /\ Rooted' /\ Closed'
  BY DEF IInv, ToMake, Gone, Rooted, Closed, fs
<1>3. Unit'
  BY DEF IInv, Unit, fs
<1>4. QED
  BY <1>1, <1>2, <1>3 DEF IInv

(* Clean-up begins.                                                        *)
LEMMA CleanupBegins ==
  ASSUME IInv, UNCHANGED <<systemd, fs, held>>, script' = "cleanup", step' = 1,
         adbd' \in {"none", "told"}, adbd' = "none" => adbd = "none",
         systemd => adbd' = "none"
  PROVE  IInv'
<1>1. Types'
  BY DEF IInv, Types, fs
<1>2. Gone'
  BY DEF Gone
<1>3. ToMake' /\ Rooted' /\ Closed'
  BY DEF IInv, ToMake, Rooted, Closed, fs
<1>4. ~(step' > 2) /\ ~(step' > 3)
  OBVIOUS
<1>5. Unit'
  BY <1>4 DEF IInv, Unit, fs
<1>6. QED
  BY <1>1, <1>2, <1>3, <1>5 DEF IInv

LEMMA IInvStep == IInv /\ [Next]_vars => IInv'
<1> SUFFICES ASSUME IInv, [Next]_vars PROVE IInv'
  OBVIOUS
<1>0. /\ script \in {"idle", "setup", "daemon", "bind", "kill", "cleanup"} /\ step \in 1..9
      /\ adbd \in {"none", "started", "open", "ready", "told"} /\ held \in Nat
      /\ adbd = "none" => held = 0
      /\ mounts \in Nat /\ 0 \in Nat /\ 1 \in 1..9
      /\ systemd' = systemd
  BY CallerFixed DEF IInv, Types, Closed
<1>f. ASSUME Fails, UNCHANGED <<fs, adbd, held>> PROVE IInv'
  <2>1. script' \in {"kill", "idle"} /\ step' = 1
    BY <1>f DEF Fails
  <2>2. QED
    BY <1>0, <1>f, <2>1, OutsideKeeps
<1>1. CASE Start
  <2>1. UNCHANGED <<fs, adbd, held>> /\ step' = 1 /\ (systemd => adbd = "none")
    BY <1>1 DEF Start, Setup, daemon
  <2>2. CASE "adb" \in items
    <3>1. script' = "cleanup"
      BY <1>1, <2>2 DEF Start, Setup
    <3>2. CASE adbd = "none"
      BY <1>0, <2>1, <3>1, <3>2, CleanupBegins
    <3>3. CASE adbd # "none"
      <4>1. ~systemd /\ Types' /\ Gone' /\ ToMake' /\ Rooted' /\ Closed'
        BY <1>0, <2>1, <3>1, <3>3 DEF IInv, Types, Gone, ToMake, Rooted, Closed, fs
      <4>2. QED
        BY <1>0, <4>1 DEF IInv, Unit
    <3>4. QED
      BY <3>2, <3>3
  <2>3. CASE "adb" \notin items
    <3>1. script' = "setup" /\ items' = {}
      BY <1>1, <2>1, <2>3 DEF Start, Setup, IInv, Rooted, fs
    <3>2. systemd => mounts' = 0 /\ ~dir' /\ adbd' = "none"
      BY <2>1, <2>3 DEF IInv, Unit, fs
    <3>3. Types'
      BY <1>0, <2>1, <3>1 DEF Types, IInv, fs
    <3>4. QED
      BY <1>0, <2>1, <3>1, <3>2, <3>3, NothingThere
  <2>4. QED
    BY <2>2, <2>3
<1>2. CASE Stop
  BY <1>0, <1>2, OutsideKeeps DEF Stop, daemon
<1>3. CASE SetupStep
  BY <1>3, SetupStepKeeps
<1>4. CASE SetupFails
  BY <1>4, <1>f DEF SetupFails, daemon
<1>5. CASE StartDaemon
  <2>1. CASE adbd = "none"
    <3>1. /\ adbd' = "started" /\ held' = 0 /\ script' = "bind" /\ step' = step
          /\ UNCHANGED fs
      BY <1>5, <2>1 DEF StartDaemon
    <3>2. QED
      BY <1>0, <3>1, OutsideKeeps
  <2>2. CASE adbd # "none"
    BY <1>5, <1>f, <2>2 DEF StartDaemon
  <2>3. QED
    BY <2>1, <2>2
<1>n. ASSUME NoController, UNCHANGED <<systemd, fs, adbd, held>> PROVE IInv'
  BY <1>0, <1>n, OutsideKeeps DEF NoController
<1>6. CASE WaitOver
  <2>1. UNCHANGED <<fs, adbd, held, systemd>>
    BY <1>6 DEF WaitOver
  <2>2. CASE Bind
    BY <1>0, <2>1, <2>2, OutsideKeeps DEF Bind
  <2>3. QED
    BY <1>6, <1>f, <1>n, <2>1, <2>2 DEF WaitOver
<1>7. CASE Timeout
  BY <1>7, <1>f, <1>n DEF Timeout
<1>8. CASE Kill
  <2>1. /\ UNCHANGED <<fs, held>> /\ step' = 1
        /\ adbd' \in {"none", "told"} /\ (adbd' = "none" => adbd = "none")
        /\ systemd => adbd' = "none"
    BY <1>8 DEF Kill
  <2>2. CASE "adb" \in items
    BY <1>0, <1>8, <2>1, <2>2, CleanupBegins DEF Kill
  <2>3. CASE "adb" \notin items /\ script' = "setup"
    <3>1. items' = {} /\ (systemd => mounts' = 0 /\ ~dir' /\ adbd' = "none")
      BY <2>1, <2>3 DEF IInv, Rooted, Unit, fs
    <3>2. Types'
      BY <1>0, <2>1, <2>3, <3>1 DEF Types, fs
    <3>3. QED
      BY <1>0, <2>1, <2>3, <3>1, <3>2, NothingThere
  <2>4. CASE "adb" \notin items /\ script' = "idle"
    BY <1>0, <2>1, <2>4, OutsideKeeps
  <2>5. QED
    BY <1>8, <2>2, <2>3, <2>4 DEF Kill
<1>9. CASE CleanupStep
  BY <1>9, CleanupStepKeeps
<1>10. CASE CleanupEnds
  BY <1>10, CleanupEndsKeeps
<1>11. CASE AdbdOpens \/ AdbdWrites
  <2>1. UNCHANGED <<fs, script, step>> /\ adbd # "none" /\ adbd' # "none"
        /\ adbd' \in {"open", "ready"} /\ held' \in Nat
    BY <1>0, <1>11 DEF AdbdOpens, AdbdWrites
  <2>2. QED
    BY <1>0, <2>1 DEF IInv, Types, ToMake, Gone, Rooted, Unit, Closed, fs
<1>12. CASE AdbdEnds
  <2>1. UNCHANGED fs /\ adbd' = "none" /\ held' = 0
        /\ \/ UNCHANGED <<script, step>>
           \/ script' = "kill" /\ step' = 1
    BY <1>12 DEF AdbdEnds
  <2>2. QED
    BY <1>0, <2>1 DEF IInv, Types, ToMake, Gone, Rooted, Unit, Closed, fs
<1>13. CASE UNCHANGED vars
  BY <1>13 DEF vars, fs, daemon, IInv, Types, ToMake, Gone, Rooted, Unit, Closed
<1>14. QED
  BY <1>1, <1>2, <1>3, <1>4, <1>5, <1>6, <1>7, <1>8, <1>9, <1>10, <1>11, <1>12, <1>13
     DEF Next, Scripts, Adbd, Idle

LEMMA FailuresStep == failures \in Nat /\ [Next]_vars => (failures \in Nat)'
  BY DEF Next, Start, Stop, Call, Scripts, SetupStep, SetupFails, StartDaemon, WaitOver,
         NoController, Timeout, Kill, CleanupStep, CleanupEnds, Adbd, AdbdOpens, AdbdWrites,
         AdbdEnds, Idle, counts, vars

(* Set-up never fails over what an earlier call left, whoever calls and    *)
(* however many steps failed before (android-gadget-setup).                *)
THEOREM NeverInTheWayAlways == Spec => NeverInTheWay
<1>1. IInv /\ failures \in Nat /\ [Next]_vars => [SetupFails => failures' # failures]_vars
  <2> SUFFICES ASSUME IInv, failures \in Nat, SetupFails
               PROVE  failures' # failures \/ UNCHANGED vars
    OBVIOUS
  <2>1. script = "setup" /\ step \in 1..8 /\ SetupSteps[step] \notin items
    BY DEF SetupFails, IInv, Types, ToMake
  <2>2. failures' = failures + 1
    BY <2>1 DEF SetupFails
  <2>3. QED
    BY <2>2
<1>2. Init => failures \in Nat
  BY DEF Init
<1>3. QED
  BY InitIInv, IInvStep, FailuresStep, <1>1, <1>2, PTL DEF Spec, NeverInTheWay

(* Called by the unit, clean-up leaves nothing of the gadget, at whatever  *)
(* step set-up had failed (android-gadget-cleanup).                        *)
THEOREM NothingLeftAlways == Spec => NothingLeft
<1>1. IInv /\ [Next]_vars => [systemd /\ CleanupEnds => items' = {} /\ ~dir' /\ mounts' = 0]_vars
  <2> SUFFICES ASSUME IInv, systemd, CleanupEnds PROVE items' = {} /\ ~dir' /\ mounts' = 0
    OBVIOUS
  <2>1. script = "cleanup" /\ step = 9 /\ Remove("adb")
    BY DEF CleanupEnds, CleanupSteps
  <2>2. UNCHANGED <<dir, mounts>>
    BY <2>1 DEF Remove
  <2>3. QED
    BY <2>1, <2>2, CleanupEmpties DEF IInv, Unit
<1>2. QED
  BY InitIInv, IInvStep, <1>1, PTL DEF Spec, NothingLeft

(* At rest: a bound gadget has a daemon, and the unit without one has no   *)
(* gadget.                                                                 *)
Rest == /\ bound => adbd # "none"
        /\ systemd /\ script = "bind" => adbd # "none"
        /\ systemd /\ script = "idle" /\ adbd = "none" => items = {}

LEMMA RestStep == IInv /\ Rest /\ [Next]_vars => Rest'
<1> SUFFICES ASSUME IInv, Rest, [Next]_vars PROVE Rest'
  OBVIOUS
<1> USE CallerFixed DEF Rest, fs, daemon
<1>1. CASE Start
  BY <1>1 DEF Start, Setup
<1>2. CASE Stop
  BY <1>2 DEF Stop
<1>3. CASE SetupStep
  BY <1>3 DEF SetupStep
<1>4. CASE SetupFails \/ Timeout
  BY <1>4 DEF SetupFails, Timeout, NoController, Fails
<1>5. CASE StartDaemon
  BY <1>5 DEF StartDaemon, Fails
<1>6. CASE WaitOver
  BY <1>6 DEF WaitOver, NoController, Ready, Bind, Fails
<1>7. CASE Kill
  <2>1. "adb" \notin items => items' = {}
    BY <1>7 DEF Kill, IInv, Rooted
  <2>2. QED
    BY <1>7, <2>1 DEF Kill
<1>8. CASE CleanupStep
  BY <1>8 DEF CleanupStep, Remove
<1>9. CASE CleanupEnds
  BY <1>9, CleanupEmpties DEF CleanupEnds, Remove
<1>10. CASE Adbd
  BY <1>10 DEF Adbd, AdbdOpens, AdbdWrites, AdbdEnds
<1>11. CASE UNCHANGED vars
  BY <1>11 DEF vars
<1>12. QED
  BY <1>1, <1>2, <1>3, <1>4, <1>5, <1>6, <1>7, <1>8, <1>9, <1>10, <1>11
     DEF Next, Scripts, Idle

(* When the unit has come to rest without a daemon, the whole gadget is    *)
(* gone, whatever failed on the way (ExecStopPost=).                       *)
THEOREM DownMeansGoneAlways == Spec => []DownMeansGone
<1>1. Init => Rest
  BY DEF Init, Rest
<1>2. IInv /\ Rest => DownMeansGone
  BY DEF IInv, Unit, Rest, DownMeansGone
<1>3. QED
  BY InitIInv, IInvStep, RestStep, <1>1, <1>2, PTL DEF Spec
=============================================================================
