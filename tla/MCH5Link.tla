------------------------------ MODULE MCH5Link ------------------------------
(* Instances of H5Link for TLC: the controllers and the lines of each run. *)
EXTENDS H5Link

Devices(typed, baud, ends, resets) ==
  [typed: typed, baud: baud, endIdx: ends, resets: resets]

Line(cap, loss, unasked, refuses, prompt) ==
  [cap |-> cap, loss |-> loss, noise |-> unasked, refuses |-> refuses, prompt |-> prompt]

(* A line that loses packets: retransmission, duplicates, late answers.    *)
Lossy == Devices({FALSE}, {FALSE}, {1}, {FALSE}) \X {Line(2, 2, 0, {}, FALSE)}

(* Refused commands and download packets, the change of speed, a lost      *)
(* packet; whether or not the controller restarts its numbers.             *)
Refusing == Devices({FALSE}, {TRUE}, {0}, {TRUE})
              \X {Line(2, 1, 0, {"OP_LMP_VER", "OP_SET_BAUD", "OP_PATCH", "OP_HCI_RESET"},
                       FALSE)}
RefusingPackets == Devices({FALSE}, {FALSE}, {1}, BOOLEAN) \X {Line(3, 2, 1, {"OP_PATCH"}, TRUE)}

(* A controller that restarts its numbers, and sends of its own.           *)
Restarting == Devices(BOOLEAN, {FALSE}, {0, 1}, BOOLEAN) \X {Line(3, 2, 2, {}, TRUE)}

(* Every residue of the download length, on a line that loses nothing.     *)
EveryResidue == (Devices(BOOLEAN, BOOLEAN, 0..8, BOOLEAN)
                   \cup Devices({FALSE}, {FALSE}, {126, 127, 128, 240}, {FALSE}))
                  \X {Line(3, 0, 0, {}, TRUE)}

SafetyChips == Lossy \cup Refusing \cup RefusingPackets \cup Restarting \cup EveryResidue

(* One lost packet; a controller that may never answer.                    *)
OneLoss == Devices(BOOLEAN, {FALSE}, {0, 1}, BOOLEAN) \X {Line(3, 1, 0, {}, TRUE)}
Mute    == Devices({FALSE}, {FALSE}, {0}, {TRUE}) \X {Line(2, 0, 0, {}, FALSE)}

LiveChips == OneLoss \cup Mute
               \cup (Devices({FALSE}, {TRUE}, {0}, {TRUE}) \X {Line(3, 0, 0, {}, TRUE)})

(* Downloads of more than 255 and of more than 127 packets.                *)
RolloverChips  == Devices({FALSE}, {FALSE}, {260}, {FALSE}) \X {Line(3, 0, 0, {}, TRUE)}
LongResetChips == Devices({FALSE}, {FALSE}, {130}, {TRUE}) \X {Line(3, 0, 0, {}, TRUE)}
=============================================================================
