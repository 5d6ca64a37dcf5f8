----------------------------- MODULE RtbConfig -----------------------------
(***************************************************************************)
(* What rtb_config decides: which controller it has, which firmware and    *)
(* configuration files belong to it, whether the image in the file may be  *)
(* downloaded and at which speed.  The exchanges with the controller are   *)
(* those of H5Link and H4Xfer; here each is one step.                      *)
(***************************************************************************)
EXTENDS Integers, SequencesExt, FiniteSetsExt

CONSTANTS
  Ics,       \* names of the controllers considered, see KnownIcs
  Projects,  \* project ids of the images considered besides a controller's own
  Confs,     \* speeds in the configuration; "none": no file, "unset": no item
  Sizes,     \* lengths of patch and configuration
  Speed      \* the speed given on the command line

(* rtb_fwc.h: lmp subversions by their hexadecimal digits, chip types. *)
CHIP_8852BS     == 0
CHIP_8723CS_CG  == 3
CHIP_8723CS_VF  == 4
CHIP_8723CS_XX  == 5
CHIP_8725AS     == 5
CHIP_8852BPE_VR == 6
CHIP_8703BS     == 7
CHIP_8852BPS    == 10
CHIP_UNKNOWN    == 0
CHIP_8761AT     == 31
CHIP_8761ATF    == 47
CHIP_8761BTC    == 63
CHIP_8761BH4    == 79
CHIP_8723BS     == 95
CHIP_8822BS     == 112
CHIP_8723DS     == 113
CHIP_8821CS     == 114
CHIP_8822CS     == 115
CHIP_8761B      == 116
CHIP_8852AS     == 117
CHIP_8723FS     == 118
CHIP_8852CS     == 119
CHIP_8852BP     == 120

Row(match, chip, lmp, proj, ver, rev, ic) ==
  [match |-> match, chip |-> chip, lmp |-> lmp, proj |-> proj, ver |-> ver,
   rev |-> rev, ic |-> ic]

Type == "RTL_FW_MATCH_CHIP_TYPE"
Ver  == "RTL_FW_MATCH_HCI_VER"
Rev  == "RTL_FW_MATCH_HCI_REV"

NONE == Row({}, 0, "0000", "0000", 0, 0, "NONE")

h4_patch_table == <<
  Row({Type}, CHIP_8761AT, "8761", "ffff", 0, 10, "RTL8761AT"),
  Row({Type}, CHIP_8761ATF, "8761", "ffff", 0, 10, "RTL8761ATF"),
  Row({Type}, CHIP_8761BTC, "8763", "ffff", 0, 11, "RTL8761BTC"),
  Row({Type}, CHIP_8761BH4, "8761", "ffff", 0, 11, "RTL8761BH4"),
  Row({Ver, Rev}, CHIP_8723DS, "8723", "8723", 8, 13, "RTL8723DSH4") >>

patch_table == <<
  Row({}, 0, "1200", "1200", 0, 0, "RTL8723AS"),
  Row({Rev}, CHIP_8821CS, "8821", "8821", 0, 12, "RTL8821CS"),
  Row({}, 0, "8821", "8821", 0, 0, "RTL8821AS"),
  Row({Ver, Rev}, 0, "8761", "8761", 6, 10, "RTL8761ATV"),
  Row({Type, Ver, Rev}, CHIP_8725AS, "8761", "8761", 10, 11, "RTL8725AS"),
  Row({Ver, Rev}, CHIP_8761B, "8761", "8761", 10, 11, "RTL8761BTV"),
  Row({Rev}, CHIP_8822BS, "8822", "8822", 0, 11, "RTL8822BS"),
  Row({Rev}, CHIP_8822CS, "8822", "8822", 0, 12, "RTL8822CS"),
  Row({Rev}, CHIP_8852AS, "8852", "8852", 11, 10, "RTL8852AS"),
  Row({Type, Ver, Rev}, CHIP_8852BS, "8852", "8852", 11, 11, "RTL8852BS"),
  Row({Type, Ver, Rev}, CHIP_8852BP, "8852", "8852", 11, 11, "RTL8852BP"),
  Row({Type, Ver, Rev}, CHIP_8852CS, "8852", "8852", 11, 12, "RTL8852CS"),
  Row({Type}, CHIP_8703BS, "8703", "8703", 0, 0, "RTL8703BS"),
  Row({Type}, CHIP_8723CS_XX, "8703", "8704", 0, 0, "RTL8723CS_XX"),
  Row({Type}, CHIP_8723CS_CG, "8703", "8705", 0, 0, "RTL8723CS_CG"),
  Row({Type}, CHIP_8723CS_VF, "8703", "8706", 0, 0, "RTL8723CS_VF"),
  Row({Ver, Rev}, 0, "8723", "8723", 6, 11, "RTL8723BS"),
  Row({Ver, Rev}, CHIP_8723DS, "8723", "8723", 8, 13, "RTL8723DS"),
  Row({Ver, Rev}, CHIP_8723FS, "8723", "8723", 11, 15, "RTL8723FS") >>

(* project_id[], for the project ids that stand for something. *)
project_id ==
  [k \in 0..34 |->
     CASE k = 0 -> "1200" [] k \in {1, 9, 19} -> "8723" [] k \in {2, 10} -> "8821"
       [] k \in {3, 14} -> "8761" [] k = 4 -> "87b3" [] k = 5 -> "8763"
       [] k = 6 -> "8703" [] k = 7 -> "87c3" [] k \in {8, 13} -> "8822"
       [] k \in {18, 20, 25, 34} -> "8852" [] OTHER -> "0000"]

baudrates == << <<"0252C014", 115200>>, <<"0252C00A", 230400>>, <<"05F75004", 921600>>,
  <<"00005004", 1000000>>, <<"04928002", 1500000>>, <<"01128002", 1500000>>,
  <<"00005002", 2000000>>, <<"0000B001", 2500000>>, <<"04928001", 3000000>>,
  <<"052A6001", 3500000>>, <<"00005001", 4000000>> >>

-----------------------------------------------------------------------------
(* The controllers: the row of each and the project index of its image, as *)
(* the comments on project_id[] give it.                                   *)
Rows == ToSet(h4_patch_table) \cup ToSet(patch_table)
KnownIcs == {r.ic : r \in Rows}
RowOf(ic) == CHOOSE r \in Rows : r.ic = ic

Project ==
  [RTL8723AS |-> 0, RTL8723BS |-> 1, RTL8821AS |-> 2, RTL8761ATV |-> 3, RTL8703BS |-> 6,
   RTL8723CS_XX |-> 7, RTL8723CS_CG |-> 7, RTL8723CS_VF |-> 7, RTL8822BS |-> 8,
   RTL8723DS |-> 9, RTL8723DSH4 |-> 9, RTL8821CS |-> 10, RTL8822CS |-> 13,
   RTL8761BTV |-> 14, RTL8725AS |-> 14, RTL8852AS |-> 18, RTL8723FS |-> 19,
   RTL8852BS |-> 20, RTL8852CS |-> 25, RTL8852BP |-> 34,
   RTL8761AT |-> 3, RTL8761ATF |-> 3, RTL8761BTC |-> 14, RTL8761BH4 |-> 14]

(* The cases are controllers of the tables and ids within project_id[].    *)
ASSUME CasesAssumption == Ics \subseteq KnownIcs /\ Projects \subseteq DOMAIN project_id

Versions == 0..2    \* ROM versions that exist

(* What a controller answers: its row where the row says something, else   *)
(* what no other row of its lmp subversion claims.  The chip type has four *)
(* bits: 8852BP is reported as 6 or 10.                                    *)
Nibble(ic) ==
  LET r == RowOf(ic) IN
  CASE ic = "RTL8852BP" -> {CHIP_8852BPE_VR, CHIP_8852BPS}
    [] Type \in r.match /\ r.chip < 16 -> {r.chip}
    [] OTHER -> {0, 8} \cup (IF r.lmp = "8761" THEN {} ELSE {CHIP_8725AS})

Eversions(ic) == CASE ic = "RTL8761AT" -> {2} [] ic = "RTL8761ATF" -> {3} [] OTHER -> Versions

Answers(ic) ==
  LET r == RowOf(ic) IN
  [ic: {ic}, proto: {IF r \in ToSet(patch_table) THEN "H5" ELSE "H4"}, lmp: {r.lmp},
   ver: {IF r.ver # 0 THEN r.ver ELSE 6}, rev: {IF r.rev # 0 THEN r.rev ELSE 10},
   ever: Eversions(ic), chip: Nibble(ic),
   chipver: IF ic = "RTL8852BP" THEN Versions ELSE {0}]

(* The image in the file named after the controller: its own for all ROM   *)
(* versions, or that of another project, or one without the extension      *)
(* section (the format of RTL8723AS), or none.                             *)
Image(kind, proj) == [kind |-> kind, proj |-> proj]
Own(ic) == IF ic = "RTL8723AS" THEN Image("raw", 0) ELSE Image("patches", Project[ic])
Images(ic) == {Own(ic), Image("none", 0), Image("raw", 0)}
              \cup {Image("patches", k) : k \in Projects}

VARIABLES chip,       \* the controller: what it answers
          image,      \* the firmware file of its row
          conf,       \* the configuration file of its row
          size,
          lost,       \* the commands over H4 that get no answer
          pc,
          rtl,        \* rtb_cfg: lmp, ver, rev, ever, chip
          ent,        \* rtb_cfg.patch_ent
          mac,        \* the offset at which the address is written
          vendor_baud, line_speed,
          loaded      \* the ROM version of the patch downloaded, -1: none

vars == <<chip, image, conf, size, lost, pc, rtl, ent, mac, vendor_baud, line_speed, loaded>>
given == <<chip, image, conf, size, lost>>

Init ==
  /\ \E ic \in Ics : /\ chip \in Answers(ic)
                     /\ image \in Images(ic)
                     /\ lost \in IF chip.proto = "H4" THEN SUBSET {"local", "rom"} ELSE {{}}
  /\ conf \in Confs /\ size \in Sizes
  /\ pc = "versions"
  /\ rtl = [lmp |-> "0000", ver |-> 0, rev |-> 0, ever |-> 0, chip |-> 0, chipver |-> 0]
  /\ ent = NONE /\ mac = -1 /\ vendor_baud = "0" /\ line_speed = 115200 /\ loaded = -1

Fail(how) == pc' = how /\ UNCHANGED <<rtl, ent, mac, vendor_baud, line_speed, loaded>>

(* The results of the two commands are not looked at; over the three-wire  *)
(* link one that fails ends the program, over H4 it leaves zeros.          *)
ReadVersions ==
  /\ pc = "versions"
  /\ LET local == IF "local" \in lost THEN rtl ELSE chip
         rom   == IF "rom" \in lost THEN rtl ELSE chip
     IN  rtl' = [rtl EXCEPT !.lmp = local.lmp, !.ver = local.ver, !.rev = local.rev,
                            !.ever = rom.ever]
  /\ pc' = IF chip.proto = "H4" THEN "h4" ELSE "chip"
  /\ UNCHANGED <<given, ent, mac, vendor_baud, line_speed, loaded>>

std_speed_to_vendor(speed) ==
  LET hits == SelectSeq(baudrates, LAMBDA b : b[2] = speed)
  IN  IF hits = << >> THEN "701D" ELSE hits[1][1]

vendor_speed_to_std(v) ==
  LET hits == SelectSeq(baudrates, LAMBDA b : b[1] = v)
  IN  IF hits = << >> THEN 115200 ELSE hits[1][2]

(* The chip types that are told apart over H4. *)
H4ChipType(r) ==
  CASE r.lmp = "8763" -> CHIP_8761BTC
    [] r.lmp = "8761" /\ r.rev = 11 -> CHIP_8761BH4
    [] r.lmp = "8761" /\ r.rev = 10 /\ r.ever = 3 -> CHIP_8761ATF
    [] r.lmp = "8761" /\ r.rev = 10 /\ r.ever = 2 -> CHIP_8761AT
    [] r.lmp = "8723" /\ r.ver = 8 /\ r.rev = 13 -> CHIP_8723DS
    [] r.lmp = "8723" /\ r.ver = 6 /\ r.rev = 11 -> CHIP_8723BS
    [] OTHER -> CHIP_UNKNOWN

(* An RTL8761BTC takes no firmware; an unknown chip of another subversion  *)
(* is looked for in the table all the same.                                *)
IdentifyH4 ==
  /\ pc = "h4"
  /\ LET c == H4ChipType(rtl) IN
     \/ /\ c = CHIP_UNKNOWN /\ rtl.lmp = "8723"
        /\ Fail("fail")
     \/ /\ ~(c = CHIP_UNKNOWN /\ rtl.lmp = "8723")
        /\ rtl' = [rtl EXCEPT !.chip = c]
        /\ vendor_baud' = IF c = CHIP_8761BTC THEN std_speed_to_vendor(1500000)
                                              ELSE vendor_baud
        /\ pc' = IF c = CHIP_8761BTC THEN "baud" ELSE "chip"
        /\ UNCHANGED <<ent, mac, line_speed, loaded>>
  /\ UNCHANGED given

(* rtb_read_chip_type is a three-wire exchange: over H4 it is never        *)
(* answered and its retries end the program.                               *)
ReadChipType ==
  /\ pc = "chip"
  /\ IF rtl.lmp \notin {"8761", "8703", "8852"}
     THEN pc' = "entry" /\ UNCHANGED <<rtl, ent, mac, vendor_baud, line_speed, loaded>>
     ELSE IF chip.proto = "H4" THEN Fail("exit")
     ELSE /\ rtl' = [rtl EXCEPT !.chip = chip.chip, !.chipver = chip.chipver]
          /\ pc' = "entry" /\ UNCHANGED <<ent, mac, vendor_baud, line_speed, loaded>>
  /\ UNCHANGED given

(* Mutant: the flag for the revision is not looked at.                     *)
MutMatches(r, n) ==
  /\ Type \in n.match => n.chip = r.chip
  /\ Ver \in n.match => n.ver = r.ver
  /\ n.lmp = r.lmp

Matches(r, n) ==
  /\ Type \in n.match => n.chip = r.chip
  /\ Ver \in n.match => n.ver = r.ver
  /\ Rev \in n.match => n.rev = r.rev
  /\ n.lmp = r.lmp

(* The first row that matches; never NULL, at worst the row NONE. *)
get_patch_entry(r) ==
  LET table == IF chip.proto = "H5" THEN patch_table ELSE h4_patch_table
      hits  == {k \in DOMAIN table : Matches(r, table[k])}
  IN  IF hits = {} THEN NONE ELSE table[Min(hits)]

(* Mutant: the ROM version is that of the other chips.                     *)
MutRenamed(r) ==
  [r EXCEPT !.chip = IF @ \in {CHIP_8852BPE_VR, CHIP_8852BPS} THEN CHIP_8852BP ELSE @]

(* Mutant: one of the two forgotten.                                       *)
MutRenamedOne(r) ==
  LET c == IF r.chip = CHIP_8852BPE_VR THEN CHIP_8852BP ELSE r.chip
  IN  [r EXCEPT !.chip = c, !.ever = IF c = CHIP_8852BP THEN r.chipver ELSE @]

(* The two chips that are sold as RTL8852BP, and their ROM version. *)
Renamed(r) ==
  LET c == IF r.chip \in {CHIP_8852BPE_VR, CHIP_8852BPS} THEN CHIP_8852BP ELSE r.chip
  IN  [r EXCEPT !.chip = c, !.ever = IF c = CHIP_8852BP THEN r.chipver ELSE @]

ChooseEntry ==
  /\ pc = "entry"
  /\ rtl' = Renamed(rtl)
  /\ ent' = get_patch_entry(Renamed(rtl))
  /\ pc' = "config"
  /\ UNCHANGED <<given, mac, vendor_baud, line_speed, loaded>>

get_mac_offset(c) ==
  CASE c \in {CHIP_8822BS, CHIP_8723DS, CHIP_8821CS} -> 68
    [] c \in {CHIP_8822CS, CHIP_8761B, CHIP_8852AS, CHIP_8723FS, CHIP_8852BS, CHIP_8852CS} -> 48
    [] OTHER -> 60

(* A missing configuration is not an error.  There is no file for NONE. *)
ReadConfig ==
  /\ pc = "config"
  /\ LET file == IF ent = NONE THEN "none" ELSE conf IN
       /\ mac' = IF file = "none" THEN mac ELSE get_mac_offset(ent.chip)
       /\ vendor_baud' = IF file \in {"none", "unset"} THEN vendor_baud ELSE file
  /\ pc' = "firmware"
  /\ UNCHANGED <<given, rtl, ent, line_speed, loaded>>

(* Mutant: an image of another project accepted.                           *)
MutProjectMatches(im) == TRUE

(* A project id beyond the table reads what follows it: not considered. *)
ProjectMatches(im) ==
  project_id[im.proj] = IF rtl.lmp # "8703" THEN rtl.lmp ELSE ent.proj

(* rtb_read_firmware and rtb_get_final_patch. *)
ReadFirmware ==
  /\ pc = "firmware"
  /\ \/ /\ ent = NONE \/ image.kind = "none"
        /\ Fail("fail")
     \/ /\ ent # NONE /\ image.kind # "none"
        /\ LET single == chip.proto = "H5" /\ rtl.lmp = "1200"
               good   == IF single THEN image.kind = "raw"
                         ELSE /\ image.kind = "patches" /\ ProjectMatches(image)
                              /\ rtl.ever \in Versions
           IN  IF good
               THEN pc' = "size" /\ UNCHANGED <<rtl, ent, mac, vendor_baud, line_speed, loaded>>
               ELSE Fail("exit")
  /\ UNCHANGED given

max_patch_size(c) ==
  CASE c = CHIP_8822BS -> 25 * 1024
    [] c \in {CHIP_8821CS, CHIP_8723DS, CHIP_8822CS, CHIP_8761B, CHIP_8725AS} -> 40 * 1024
    [] c = CHIP_8852AS -> 70864 + 529
    [] c = CHIP_8723FS -> 50383 + 529
    [] c \in {CHIP_8852BS, CHIP_8852BP} -> 66768 + 529
    [] c = CHIP_8852CS -> 78032 + 529
    [] OTHER -> 24 * 1024

CheckSize ==
  /\ pc = "size"
  /\ IF size > max_patch_size(ent.chip) THEN Fail("fail")
     ELSE pc' = "baud" /\ UNCHANGED <<rtl, ent, mac, vendor_baud, line_speed, loaded>>
  /\ UNCHANGED given

ChangeBaud ==
  /\ pc = "baud"
  /\ \/ /\ vendor_baud \in {"0", "00000000"}
        /\ vendor_baud' = std_speed_to_vendor(Speed)
        /\ UNCHANGED line_speed
     \/ /\ vendor_baud \notin {"0", "00000000"}
        /\ line_speed' = vendor_speed_to_std(vendor_baud)
        /\ UNCHANGED vendor_baud
  /\ pc' = "download"
  /\ UNCHANGED <<given, rtl, ent, mac, loaded>>

Download ==
  /\ pc = "download"
  /\ loaded' = IF rtl.chip = CHIP_8761BTC THEN loaded ELSE rtl.ever
  /\ pc' = "done"
  /\ UNCHANGED <<given, rtl, ent, mac, vendor_baud, line_speed>>

Finished == pc \in {"done", "fail", "exit"} /\ UNCHANGED vars

Next == \/ ReadVersions \/ IdentifyH4 \/ ReadChipType \/ ChooseEntry \/ ReadConfig
        \/ ReadFirmware \/ CheckSize \/ ChangeBaud \/ Download \/ Finished

Spec == Init /\ [][Next]_vars
-----------------------------------------------------------------------------
Rom == IF chip.ic = "RTL8852BP" THEN chip.chipver ELSE chip.ever

(* No controller is taken for another one of the tables: neither by the    *)
(* order of the rows, nor by what a row leaves unlooked at, nor by the     *)
(* values two chip types share (get_patch_entry, the special cases of H4). *)
OwnEntry == ent.ic \in {"NONE", chip.ic}

(* Nothing is downloaded on the strength of the row NONE, whichever answer *)
(* of a chip went missing, nor an image of another lmp subversion that     *)
(* lies in the file of this controller (rtb_get_final_patch).              *)
ForeignRefused ==
  loaded # -1 => /\ ent.ic = chip.ic
                 /\ image.kind = "patches" => project_id[image.proj] = chip.lmp

(* The patch is that of the controller's own ROM version; RTL8852BP gives  *)
(* it with its chip type (rtb_config, rtb_get_patch_entry).  The results   *)
(* of the commands are not looked at, so this needs the answer.            *)
RightRom == loaded # -1 /\ "rom" \notin lost => loaded = Rom

(* Controllers the code gives up on whatever image is installed: the chip  *)
(* type of the first has no room in four bits, the images of the next are  *)
(* of a project that their rows do not name, and the chip type of the last *)
(* is asked for over H4 with a three-wire exchange.                        *)
Unreached == {"RTL8852CS"}
NoProject == {"RTL8723CS_XX", "RTL8723CS_CG", "RTL8723CS_VF"}
OverH4    == {"RTL8761AT", "RTL8761ATF", "RTL8761BH4"}

(* Any other controller that has its own image in its file and answers     *)
(* both commands is attached, with whatever configuration (rtb_config; the *)
(* comments beside the rows of the tables name their controllers).         *)
Accepted ==
  pc \in {"fail", "exit"} =>
    \/ chip.ic \in Unreached \cup NoProject \cup OverH4 \/ lost # {}
    \/ image # Own(chip.ic) \/ size > max_patch_size(RowOf(chip.ic).chip)
=============================================================================
