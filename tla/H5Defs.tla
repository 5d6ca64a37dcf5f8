------------------------------- MODULE H5Defs -------------------------------
(***************************************************************************)
(* Constants and pure arithmetic of the Realtek three-wire ("H5") attach   *)
(* program hciattach_rtk.c: the operations it performs, how often each is  *)
(* retransmitted, and how the firmware download is cut into packets.       *)
(* Nothing here has state; H5Link is the protocol built from it.           *)
(***************************************************************************)
EXTENDS Integers

(* enum H5_LINK_STATE, in the order the program takes them. *)
LinkStates == {"H5_SYNC", "H5_CONFIG", "H5_INIT", "H5_PATCH",
               "H5_HCI_RESET", "H5_ACTIVE"}

(* The OP_* codes, with one for the firmware download command 0xfc20. *)
LinkOps == {"OP_H5_SYNC", "OP_H5_CONFIG"}
InitOps == {"OP_LMP_VER", "OP_ROM_VER", "OP_CHIP_TYPE", "OP_SET_BAUD"}
Ops     == LinkOps \cup InitOps \cup {"OP_PATCH", "OP_HCI_RESET"}

(* Mutant: only link requests and HCI_RESET are ever sent again.           *)
MutMaxRetry(op) == CASE op \in LinkOps -> 10 [] op = "OP_HCI_RESET" -> 1 [] OTHER -> 0

(* How many retransmissions each caller of the wait loops allows. *)
MaxRetry(op) == CASE op \in LinkOps -> 10
                  [] op = "OP_SET_BAUD" -> 0
                  [] op = "OP_HCI_RESET" -> 1
                  [] OTHER -> 3

(* What rtb_init_h5, rtb_config and rtb_download_fwc do after op; "typed"  *)
(* is the test on lmp_subver, "baud" the test on the configured speed.     *)
NextOp(op, typed, baud) ==
  CASE op = "OP_H5_SYNC"   -> "OP_H5_CONFIG"
    [] op = "OP_H5_CONFIG" -> "OP_LMP_VER"
    [] op = "OP_LMP_VER"   -> "OP_ROM_VER"
    [] op = "OP_ROM_VER"   -> IF typed THEN "OP_CHIP_TYPE"
                              ELSE IF baud THEN "OP_SET_BAUD" ELSE "OP_PATCH"
    [] op = "OP_CHIP_TYPE" -> IF baud THEN "OP_SET_BAUD" ELSE "OP_PATCH"
    [] op = "OP_SET_BAUD"  -> "OP_PATCH"
    [] OTHER               -> "OP_HCI_RESET"

-----------------------------------------------------------------------------
SEQ == 0..7                       \* sequence numbers are three bits
(* Mutant: "& 0x07" forgotten.                                             *)
MutSucc8(n) == n + 1
Succ8(n) == (n + 1) % 8

(* Mutant: no number reserved for HCI_RESET.                               *)
MutAddPkts(num_of_cmd_sent, end_idx) ==
  LET num == num_of_cmd_sent + end_idx + 1
  IN  IF num % 8 # 0 THEN 8 - (num % 8) ELSE 8

(* Number of empty packets appended to the download, given the number of   *)
(* commands completed so far and the index of the last data packet.        *)
AddPkts(num_of_cmd_sent, end_idx) ==
  LET num == num_of_cmd_sent + end_idx + 1
      add == IF num % 8 # 0 THEN 8 - (num % 8) ELSE 0
  IN  IF add # 0 THEN add - 1 ELSE add + 7

TotalIdx(num_of_cmd_sent, end_idx) == AddPkts(num_of_cmd_sent, end_idx) + end_idx

(* The index written in packet i: bit 7 marks the last packet of all.      *)
RollOver(i) == IF i > 127 THEN (i % 128) + 1 ELSE i

OrBit7(j) == IF j % 256 >= 128 THEN j % 256 ELSE (j % 256) + 128

(* Mutant: the last packet but one marked as well.                         *)
MutCurrIdx(i, total) == IF i + 1 >= total THEN OrBit7(RollOver(i)) ELSE RollOver(i)

CurrIdx(i, total) == IF i = total THEN OrBit7(RollOver(i)) ELSE RollOver(i)

(* The largest download the size limits of rtb_config admit: CHIP_8852CS,  *)
(* 0x130D0 + 529 bytes in packets of 252.                                  *)
MaxEndIdx == (78032 + 529 - 1) \div 252
=============================================================================
