------------------------------ MODULE CmdPipe ------------------------------
(***************************************************************************)
(* What the attach program needs from its serial link, with no link in     *)
(* sight: commands go to the Bluetooth controller one at a time; each is   *)
(* issued once, executed once and completed once, in that order, until the *)
(* host gives up, after which it issues and completes no more.  H5Link     *)
(* implements it over a lossy wire.                                        *)
(***************************************************************************)
EXTENDS Naturals

VARIABLES issued,     \* commands the host has put on the link
          executed,   \* commands the controller has carried out
          completed,  \* commands whose completion the host has taken
          ended       \* the host has given up

pipe == <<issued, executed, completed, ended>>

Init == issued = 0 /\ executed = 0 /\ completed = 0 /\ ended = FALSE

Issue == /\ ~ended /\ completed = issued
         /\ issued' = issued + 1
         /\ UNCHANGED <<executed, completed, ended>>

Execute == /\ executed < issued
           /\ executed' = executed + 1
           /\ UNCHANGED <<issued, completed, ended>>

Complete == /\ ~ended /\ completed < executed
            /\ completed' = completed + 1
            /\ UNCHANGED <<issued, executed, ended>>

End == ~ended /\ ended' = TRUE /\ UNCHANGED <<issued, executed, completed>>

Next == Issue \/ Execute \/ Complete \/ End

Spec == Init /\ [][Next]_pipe
=============================================================================
