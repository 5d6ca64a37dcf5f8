------------------------------ MODULE MCH4Xfer ------------------------------
(* The controllers H4Xfer is checked with. *)
EXTENDS H4Xfer

(* One of another kind whose parameter looks like a packet type, one       *)
(* without parameters, and the completion of no command, which tells how   *)
(* many commands the controller takes.                                     *)
OtherKind == {<<4, 255, 1, 4>>, <<4, 255, 0>>}
AnyEvent  == OtherKind \cup {<<4, 14, 3, 1, 0, 0>>}

Controllers(baud, ends, events, unasked, refuses, prompt) ==
  [baud: baud, endIdx: ends, unasked: {events}, noise: {unasked}, refuses: {refuses},
   prompt: {prompt}]

(* Refusals, unasked events, cut reads, a hang-up; a controller that       *)
(* answers, between events of other kinds; downloads around the roll-over  *)
(* of the index.                                                           *)
Difficult == Controllers(BOOLEAN, {0, 1, 2}, AnyEvent, 1, H4Ops, FALSE)
               \cup Controllers({TRUE}, {1}, AnyEvent, 2, {"OP_PATCH"}, FALSE)
Answering == Controllers(BOOLEAN, {0, 1, 2}, OtherKind, 2, {}, TRUE)
Rolling   == Controllers({FALSE}, {126, 127, 128, 260}, {}, 0, {}, TRUE)

AllChips == Difficult \cup Answering \cup Rolling
=============================================================================
