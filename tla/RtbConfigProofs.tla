--------------------------- MODULE RtbConfigProofs ---------------------------
(***************************************************************************)
(* That each controller of the tables is told from the others, for any set *)
(* of them, any images, configurations, sizes and speed.                   *)
(***************************************************************************)
EXTENDS RtbConfig, TLAPS

LEMMA TablesAre ==
  /\ DOMAIN patch_table = 1..19 /\ DOMAIN h4_patch_table = 1..5
  /\ Rows = {h4_patch_table[k] : k \in 1..5} \cup {patch_table[k] : k \in 1..19}
  BY DEF Rows, ToSet, patch_table, h4_patch_table

LEMMA RowsDiffer ==
  /\ \A j, k \in 1..19 : patch_table[j].ic = patch_table[k].ic => j = k
  /\ \A j, k \in 1..5 : h4_patch_table[j].ic = h4_patch_table[k].ic => j = k
  /\ \A j \in 1..5, k \in 1..19 : h4_patch_table[j].ic # patch_table[k].ic
<1>1. \A j, k \in 1..19 : patch_table[j].ic = patch_table[k].ic => j = k
  BY SMTT(60) DEF patch_table, Row
<1>2. \A j, k \in 1..5 : h4_patch_table[j].ic = h4_patch_table[k].ic => j = k
  BY SMTT(60) DEF h4_patch_table, Row
<1>3. \A j \in 1..5, k \in 1..19 : h4_patch_table[j].ic # patch_table[k].ic
  BY SMTT(60) DEF h4_patch_table, patch_table, Row
<1>4. QED
  BY <1>1, <1>2, <1>3

LEMMA RowIs == \A r \in Rows : RowOf(r.ic) = r
<1> SUFFICES ASSUME NEW r \in Rows PROVE RowOf(r.ic) = r
  OBVIOUS
<1>1. \A s \in Rows : s.ic = r.ic => s = r
  BY TablesAre, RowsDiffer, Zenon
<1>2. QED
  BY <1>1 DEF RowOf

(* The table that is searched.                                             *)
Table == IF chip.proto = "H5" THEN patch_table ELSE h4_patch_table

LEMMA FirstMatch ==
  ASSUME NEW r, NEW n \in Nat, DOMAIN Table = 1..n,
         NEW k \in 1..n, Matches(r, Table[k]),
         \A j \in 1..(k - 1) : ~Matches(r, Table[j])
  PROVE  get_patch_entry(r) = Table[k]
<1> DEFINE hits == {j \in 1..n : Matches(r, Table[j])}
<1>1. k \in hits /\ \A j \in hits : k <= j
  OBVIOUS
<1>2. Min(hits) = k
  <2> HIDE DEF hits
  <2>1. \A j \in hits : j \in Nat
    BY DEF hits
  <2>2. \A x \in hits : (\A y \in hits : x <= y) => x = k
    BY <1>1, <2>1
  <2>3. QED
    BY <1>1, <2>2 DEF Min
<1>3. QED
  BY <1>1, <1>2 DEF get_patch_entry, Table

LEMMA NoMatch ==
  ASSUME NEW r, \A j \in DOMAIN Table : ~Matches(r, Table[j])
  PROVE  get_patch_entry(r) = NONE
  BY DEF get_patch_entry, Table

(* What the two version commands leave in rtb_cfg.                         *)
Zeros == [lmp |-> "0000", ver |-> 0, rev |-> 0, ever |-> 0, chip |-> 0, chipver |-> 0]

Heard ==
  LET heard == "local" \notin lost IN
  [lmp |-> IF heard THEN chip.lmp ELSE "0000", ver |-> IF heard THEN chip.ver ELSE 0,
   rev |-> IF heard THEN chip.rev ELSE 0, ever |-> IF "rom" \notin lost THEN chip.ever ELSE 0,
   chip |-> 0, chipver |-> 0]

Asks == Heard.lmp \in {"8761", "8703", "8852"}

(* What is known when the row is looked for.                               *)
Learnt ==
  IF chip.proto = "H4" THEN [Heard EXCEPT !.chip = H4ChipType(Heard)]
  ELSE IF Asks THEN [Heard EXCEPT !.chip = chip.chip, !.chipver = chip.chipver]
  ELSE Heard

LEMMA AnswersOf ==
  ASSUME NEW k \in 1..19, NEW c \in Answers(patch_table[k].ic)
  PROVE  /\ c.ic = patch_table[k].ic /\ c.proto = "H5" /\ c.lmp = patch_table[k].lmp
         /\ c.ver = IF patch_table[k].ver # 0 THEN patch_table[k].ver ELSE 6
         /\ c.rev = IF patch_table[k].rev # 0 THEN patch_table[k].rev ELSE 10
         /\ c.chip \in Nibble(patch_table[k].ic) /\ c.ever \in Eversions(patch_table[k].ic)
         /\ c.chipver \in IF patch_table[k].ic = "RTL8852BP" THEN Versions ELSE {0}
<1>1. patch_table[k] \in Rows /\ patch_table[k] \in ToSet(patch_table)
  BY TablesAre DEF ToSet
<1>2. RowOf(patch_table[k].ic) = patch_table[k]
  BY <1>1, RowIs
<1>3. QED
  BY <1>1, <1>2 DEF Answers

LEMMA AnswersOfH4 ==
  ASSUME NEW k \in 1..5, NEW c \in Answers(h4_patch_table[k].ic)
  PROVE  /\ c.ic = h4_patch_table[k].ic /\ c.proto = "H4" /\ c.lmp = h4_patch_table[k].lmp
         /\ c.ver = IF h4_patch_table[k].ver # 0 THEN h4_patch_table[k].ver ELSE 6
         /\ c.rev = IF h4_patch_table[k].rev # 0 THEN h4_patch_table[k].rev ELSE 10
         /\ c.ever \in Eversions(h4_patch_table[k].ic)
<1>1. h4_patch_table[k] \in Rows
  BY TablesAre
<1>2. h4_patch_table[k] \notin ToSet(patch_table)
  BY TablesAre, RowsDiffer DEF ToSet
<1>3. RowOf(h4_patch_table[k].ic) = h4_patch_table[k]
  BY <1>1, RowIs
<1>4. QED
  BY <1>2, <1>3 DEF Answers

(* Over the three-wire link every controller but the RTL8852CS finds its   *)
(* own row, whatever its chip type and ROM version.                        *)
LEMMA OwnRow ==
  ASSUME NEW k \in 1..19, chip \in Answers(patch_table[k].ic), lost = {}
  PROVE  get_patch_entry(Renamed(Learnt)) = IF k = 12 THEN NONE ELSE patch_table[k]
<1> DEFINE r == Renamed(Learnt)
<1> USE DEF CHIP_8852BS, CHIP_8723CS_CG, CHIP_8723CS_VF, CHIP_8723CS_XX, CHIP_8725AS,
            CHIP_8852BPE_VR, CHIP_8703BS, CHIP_8852BPS, CHIP_8822BS, CHIP_8723DS, CHIP_8821CS,
            CHIP_8822CS, CHIP_8761B, CHIP_8852AS, CHIP_8723FS, CHIP_8852CS, CHIP_8852BP,
            Type, Ver, Rev
<1>1. RowOf(patch_table[k].ic) = patch_table[k]
  BY RowIs, TablesAre
<1>2. chip.proto = "H5" /\ chip.lmp = patch_table[k].lmp
  BY AnswersOf
<1>3. r.lmp = patch_table[k].lmp /\ r.ver = chip.ver /\ r.rev = chip.rev
  BY <1>2 DEF Renamed, Learnt, Heard, Asks
<1>4. /\ chip.ver = (IF patch_table[k].ver # 0 THEN patch_table[k].ver ELSE 6)
      /\ chip.rev = (IF patch_table[k].rev # 0 THEN patch_table[k].rev ELSE 10)
      /\ chip.chip \in Nibble(patch_table[k].ic)
  BY AnswersOf
<1>5. r.chip = LET c == IF patch_table[k].lmp \in {"8761", "8703", "8852"}
                        THEN chip.chip ELSE 0
               IN  IF c \in {6, 10} THEN 120 ELSE c
  BY <1>2 DEF Renamed, Learnt, Heard, Asks
<1> HIDE DEF r
<1>6. IF k = 12 THEN \A j \in 1..19 : ~Matches(r, patch_table[j])
      ELSE Matches(r, patch_table[k]) /\ \A j \in 1..(k - 1) : ~Matches(r, patch_table[j])
  <2>1. CASE k = 1
    BY <2>1, <1>1, <1>3, <1>4, <1>5 DEF Matches, patch_table, Row, Nibble
  <2>2. CASE k = 2
    BY <2>2, <1>1, <1>3, <1>4, <1>5 DEF Matches, patch_table, Row, Nibble
  <2>3. CASE k = 3
    BY <2>3, <1>1, <1>3, <1>4, <1>5 DEF Matches, patch_table, Row, Nibble
  <2>4. CASE k = 4
    BY <2>4, <1>1, <1>3, <1>4, <1>5 DEF Matches, patch_table, Row, Nibble
  <2>5. CASE k = 5
    BY <2>5, <1>1, <1>3, <1>4, <1>5 DEF Matches, patch_table, Row, Nibble
  <2>6. CASE k = 6
    BY <2>6, <1>1, <1>3, <1>4, <1>5 DEF Matches, patch_table, Row, Nibble
  <2>7. CASE k = 7
    BY <2>7, <1>1, <1>3, <1>4, <1>5 DEF Matches, patch_table, Row, Nibble
  <2>8. CASE k = 8
    BY <2>8, <1>1, <1>3, <1>4, <1>5 DEF Matches, patch_table, Row, Nibble
  <2>9. CASE k = 9
    BY <2>9, <1>1, <1>3, <1>4, <1>5 DEF Matches, patch_table, Row, Nibble
  <2>10. CASE k = 10
    BY <2>10, <1>1, <1>3, <1>4, <1>5 DEF Matches, patch_table, Row, Nibble
  <2>11. CASE k = 11
    BY <2>11, <1>1, <1>3, <1>4, <1>5 DEF Matches, patch_table, Row, Nibble
  <2>12. CASE k = 12
    BY <2>12, <1>1, <1>3, <1>4, <1>5 DEF Matches, patch_table, Row, Nibble
  <2>13. CASE k = 13
    BY <2>13, <1>1, <1>3, <1>4, <1>5 DEF Matches, patch_table, Row, Nibble
  <2>14. CASE k = 14
    BY <2>14, <1>1, <1>3, <1>4, <1>5 DEF Matches, patch_table, Row, Nibble
  <2>15. CASE k = 15
    BY <2>15, <1>1, <1>3, <1>4, <1>5 DEF Matches, patch_table, Row, Nibble
  <2>16. CASE k = 16
    BY <2>16, <1>1, <1>3, <1>4, <1>5 DEF Matches, patch_table, Row, Nibble
  <2>17. CASE k = 17
    BY <2>17, <1>1, <1>3, <1>4, <1>5 DEF Matches, patch_table, Row, Nibble
  <2>18. CASE k = 18
    BY <2>18, <1>1, <1>3, <1>4, <1>5 DEF Matches, patch_table, Row, Nibble
  <2>19. CASE k = 19
    BY <2>19, <1>1, <1>3, <1>4, <1>5 DEF Matches, patch_table, Row, Nibble
  <2>20. QED
    BY <2>1, <2>2, <2>3, <2>4, <2>5, <2>6, <2>7, <2>8, <2>9, <2>10, <2>11, <2>12, <2>13,
       <2>14, <2>15, <2>16, <2>17, <2>18, <2>19
<1>7. Table = patch_table /\ DOMAIN patch_table = 1..19
  BY <1>2, TablesAre DEF Table
<1>8. get_patch_entry(r) = IF k = 12 THEN NONE ELSE patch_table[k]
  BY <1>6, <1>7, FirstMatch, NoMatch
<1>9. QED
  BY <1>8 DEF r

(* Over H4 only the RTL8723DSH4 is looked for in the table, or a           *)
(* controller that did not answer, for which there is no row.              *)
LEMMA OwnRowH4 ==
  ASSUME NEW k \in 1..5, chip \in Answers(h4_patch_table[k].ic), ~Asks, Heard.lmp # "8763"
  PROVE  IF "local" \in lost THEN get_patch_entry(Renamed(Learnt)) = NONE
         ELSE k = 5 /\ get_patch_entry(Renamed(Learnt)) = h4_patch_table[k]
<1> DEFINE r == Renamed(Learnt)
<1>1. chip.proto = "H4" /\ chip.lmp = h4_patch_table[k].lmp
  BY AnswersOfH4
<1>2. Table = h4_patch_table /\ DOMAIN h4_patch_table = 1..5
  BY <1>1, TablesAre DEF Table
<1>3. r.lmp = Heard.lmp /\ r.ver = Heard.ver /\ r.rev = Heard.rev
  BY <1>1 DEF Renamed, Learnt, Heard
<1>4. CASE "local" \in lost
  <2>1. r.lmp = "0000"
    BY <1>3, <1>4 DEF Heard
  <2> HIDE DEF r
  <2>2. \A j \in 1..5 : ~Matches(r, h4_patch_table[j])
    BY <2>1 DEF Matches, h4_patch_table, Row
  <2>3. get_patch_entry(r) = NONE
    BY <2>2, <1>2, NoMatch
  <2>4. QED
    BY <2>3, <1>4 DEF r
<1>5. CASE "local" \notin lost
  <2>1. k = 5
    BY <1>1, <1>5 DEF Asks, Heard, h4_patch_table, Row
  <2>2. h4_patch_table[5] = Row({Ver, Rev}, CHIP_8723DS, "8723", "8723", 8, 13, "RTL8723DSH4")
    BY DEF h4_patch_table
  <2>3. r.lmp = "8723" /\ r.ver = 8 /\ r.rev = 13
    BY <1>1, <1>3, <1>5, <2>1, <2>2, AnswersOfH4 DEF Heard, Row
  <2> HIDE DEF r
  <2>4. Matches(r, h4_patch_table[5])
    BY <2>2, <2>3 DEF Matches, Row, Type, Ver, Rev
  <2>5. \A j \in 1..4 : ~Matches(r, h4_patch_table[j])
    BY <2>3 DEF Matches, h4_patch_table, Row
  <2>6. get_patch_entry(r) = h4_patch_table[5]
    BY <2>4, <2>5, <1>2, FirstMatch
  <2>7. QED
    BY <2>1, <2>6, <1>5 DEF r
<1>6. QED
  BY <1>4, <1>5

(* A controller is one of a row of the tables.                             *)
LEMMA Known ==
  ASSUME NEW ic \in KnownIcs
  PROVE  /\ RowOf(ic).ic = ic
         /\ \/ \E k \in 1..19 : ic = patch_table[k].ic /\ RowOf(ic) = patch_table[k]
            \/ \E k \in 1..5 : ic = h4_patch_table[k].ic /\ RowOf(ic) = h4_patch_table[k]
<1>1. PICK r \in Rows : ic = r.ic
  BY DEF KnownIcs
<1>2. RowOf(ic) = r
  BY <1>1, RowIs
<1>3. QED
  BY <1>1, <1>2, TablesAre

LEMMA NotNone == \A ic \in KnownIcs : RowOf(ic) # NONE
<1>1. \A k \in 1..19 : patch_table[k].ic # "NONE"
  BY DEF patch_table, Row
<1>2. \A k \in 1..5 : h4_patch_table[k].ic # "NONE"
  BY DEF h4_patch_table, Row
<1>3. NONE.ic = "NONE"
  BY DEF NONE, Row
<1>4. QED
  BY <1>1, <1>2, <1>3, Known

(* Only the two chips sold as RTL8852BP have their ROM version in the      *)
(* answer to the chip type.                                                *)
LEMMA VersionRead ==
  ASSUME NEW k \in 1..19, chip \in Answers(patch_table[k].ic), lost = {}
  PROVE  Renamed(Learnt).ever = Rom
<1> USE DEF CHIP_8852BS, CHIP_8723CS_CG, CHIP_8723CS_VF, CHIP_8723CS_XX, CHIP_8725AS,
            CHIP_8852BPE_VR, CHIP_8703BS, CHIP_8852BPS, CHIP_8822BS, CHIP_8723DS, CHIP_8821CS,
            CHIP_8822CS, CHIP_8761B, CHIP_8852AS, CHIP_8723FS, CHIP_8852CS, CHIP_8852BP, Type
<1>1. RowOf(patch_table[k].ic) = patch_table[k]
  BY RowIs, TablesAre
<1>2. /\ chip.proto = "H5" /\ chip.ic = patch_table[k].ic /\ chip.lmp = patch_table[k].lmp
      /\ chip.chip \in Nibble(patch_table[k].ic)
  BY AnswersOf
<1>3. IF k = 11 THEN chip.chip \in {6, 10} ELSE chip.chip \notin {6, 10, 120}
  BY <1>1, <1>2, SMTT(40) DEF Nibble, patch_table, Row
<1>4. patch_table[k].ic = "RTL8852BP" <=> k = 11
  BY DEF patch_table, Row
<1>5. k = 11 => Asks
  BY <1>2 DEF Asks, Heard, patch_table, Row
<1>6. QED
  BY <1>2, <1>3, <1>4, <1>5 DEF Renamed, Learnt, Heard, Rom

LEMMA VersionReadH4 ==
  ASSUME NEW k \in 1..5, chip \in Answers(h4_patch_table[k].ic), "rom" \notin lost
  PROVE  Renamed(Learnt).ever = Rom
<1>1. chip.proto = "H4" /\ chip.ic # "RTL8852BP"
  BY AnswersOfH4 DEF h4_patch_table, Row
<1>2. H4ChipType(Heard) \notin {6, 10, 120}
  BY DEF H4ChipType, CHIP_8761BTC, CHIP_8761BH4, CHIP_8761ATF, CHIP_8761AT, CHIP_8723DS,
         CHIP_8723BS, CHIP_UNKNOWN
<1>3. QED
  BY <1>1, <1>2 DEF Renamed, Learnt, Heard, Rom, CHIP_8852BPE_VR, CHIP_8852BPS, CHIP_8852BP

(* No image in the table of projects is of one that only a row names.      *)
LEMMA ProjectIds ==
  \A k \in 0..34 : project_id[k] \notin {"8704", "8705", "8706"}
  BY DEF project_id

(* The project index of each controller, row by row.                       *)
LEMMA ProjectOf ==
  /\ \A k \in 1..19 : Project[patch_table[k].ic] =
       <<0, 10, 2, 3, 14, 14, 8, 13, 18, 20, 34, 25, 6, 7, 7, 7, 1, 9, 19>>[k]
  /\ \A k \in 1..5 : Project[h4_patch_table[k].ic] = <<3, 3, 14, 14, 9>>[k]
  BY SMTT(60) DEF Project, patch_table, h4_patch_table, Row

(* The image that a controller's own row names is of its project.  That of *)
(* the RTL8723AS is no patch list, and the RTL8761BTC takes no firmware.   *)
LEMMA OwnProject ==
  ASSUME NEW ic \in KnownIcs, ic \notin NoProject \cup {"RTL8723AS", "RTL8761BTC"}
  PROVE  project_id[Project[ic]] =
           IF RowOf(ic).lmp # "8703" THEN RowOf(ic).lmp ELSE RowOf(ic).proj
<1>1. /\ project_id[10] = "8821" /\ project_id[2] = "8821" /\ project_id[3] = "8761"
      /\ project_id[14] = "8761" /\ project_id[8] = "8822" /\ project_id[13] = "8822"
      /\ project_id[18] = "8852" /\ project_id[20] = "8852" /\ project_id[34] = "8852"
      /\ project_id[25] = "8852" /\ project_id[6] = "8703" /\ project_id[1] = "8723"
      /\ project_id[9] = "8723" /\ project_id[19] = "8723"
  BY DEF project_id
<1>2. ASSUME NEW k \in 1..19, ic = patch_table[k].ic, RowOf(ic) = patch_table[k]
      PROVE  project_id[Project[ic]] =
               IF RowOf(ic).lmp # "8703" THEN RowOf(ic).lmp ELSE RowOf(ic).proj
  <2>1. k \notin {1, 14, 15, 16}
    BY <1>2 DEF patch_table, Row, NoProject
  <2>2. Project[ic] = <<0, 10, 2, 3, 14, 14, 8, 13, 18, 20, 34, 25, 6, 7, 7, 7, 1, 9, 19>>[k]
    BY <1>2, ProjectOf
  <2>3. QED
    BY <1>1, <1>2, <2>1, <2>2, SMTT(60) DEF patch_table, Row
<1>3. ASSUME NEW k \in 1..5, ic = h4_patch_table[k].ic, RowOf(ic) = h4_patch_table[k]
      PROVE  project_id[Project[ic]] =
               IF RowOf(ic).lmp # "8703" THEN RowOf(ic).lmp ELSE RowOf(ic).proj
  <2>1. k # 3
    BY <1>3 DEF h4_patch_table, Row
  <2>2. Project[ic] = <<3, 3, 14, 14, 9>>[k]
    BY <1>3, ProjectOf
  <2>3. QED
    BY <1>1, <1>3, <2>1, <2>2, SMTT(60) DEF h4_patch_table, Row
<1>4. QED
  BY <1>2, <1>3, Known

LEMMA ImagesNumbered ==
  ASSUME NEW ic \in Ics, NEW im \in Images(ic)
  PROVE  im.proj \in 0..34
<1>1. DOMAIN project_id = 0..34
  BY DEF project_id
<1>2. \A k \in 1..19 : Project[patch_table[k].ic] \in 0..34
  BY ProjectOf
<1>3. \A k \in 1..5 : Project[h4_patch_table[k].ic] \in 0..34
  BY ProjectOf
<1>4. Project[ic] \in 0..34
  BY <1>2, <1>3, Known, CasesAssumption
<1>5. QED
  BY <1>1, <1>4, CasesAssumption DEF Images, Image, Own

-----------------------------------------------------------------------------
(* The case that is run: it never changes.                                 *)
Cases ==
  /\ chip.ic \in Ics /\ chip \in Answers(chip.ic) /\ image \in Images(chip.ic)
  /\ lost \subseteq {"local", "rom"} /\ (chip.proto = "H5" => lost = {})

(* What rtb_cfg holds up to the choice of the row; a controller that takes *)
(* no firmware is past it by then.                                         *)
Told ==
  /\ pc = "versions" => rtl = Zeros
  /\ pc = "h4" => rtl = Heard /\ chip.proto = "H4"
  /\ pc = "chip" => rtl = IF chip.proto = "H4" THEN Learnt ELSE Heard
  /\ pc = "entry" => rtl = Learnt /\ (chip.proto = "H4" => ~Asks)
  /\ pc \in {"chip", "entry"} /\ chip.proto = "H4" => Heard.lmp # "8763"

(* A controller that is accepted with its own image.                       *)
Attachable == lost = {} /\ chip.ic \notin Unreached \cup NoProject \cup OverH4

(* What the choice of the row leaves.                                      *)
Chosen == /\ ent # NONE => rtl.lmp = chip.lmp
          /\ "rom" \notin lost => rtl.ever = Rom
          /\ Attachable => ent = RowOf(chip.ic) /\ chip.ic # "RTL8761BTC"

(* What the firmware has passed.                                           *)
Checked == /\ ent # NONE
           /\ image.kind = "patches" => project_id[image.proj] = chip.lmp

Takes == rtl.chip # CHIP_8761BTC

Passed ==
  /\ ent \in {NONE, RowOf(chip.ic)}
  /\ pc \in {"config", "firmware"} => Chosen
  /\ pc = "size" => Chosen /\ Checked
  /\ pc \in {"baud", "download"} => (Takes => Chosen /\ Checked)
  /\ pc # "done" => loaded = -1
  /\ pc = "done" /\ loaded # -1 => Chosen /\ Checked /\ loaded = rtl.ever

(* Why the program gave up.                                                *)
GaveUp ==
  pc \in {"fail", "exit"} =>
    \/ ~Attachable
    \/ image # Own(chip.ic) \/ size > max_patch_size(RowOf(chip.ic).chip)

IInv == Cases /\ Told /\ Passed /\ GaveUp

LEMMA OneTable ==
  ASSUME Cases
  PROVE  /\ chip.ic \in KnownIcs /\ RowOf(chip.ic).ic = chip.ic /\ RowOf(chip.ic) # NONE
         /\ chip.lmp = RowOf(chip.ic).lmp
         /\ \/ /\ chip.proto = "H5" /\ lost = {}
               /\ \E k \in 1..19 : chip.ic = patch_table[k].ic /\ RowOf(chip.ic) = patch_table[k]
            \/ /\ chip.proto = "H4"
               /\ \E k \in 1..5 : /\ chip.ic = h4_patch_table[k].ic
                                  /\ RowOf(chip.ic) = h4_patch_table[k]
<1>1. chip.ic \in KnownIcs
  BY CasesAssumption DEF Cases
<1>2. QED
  BY <1>1, Known, NotNone, AnswersOf, AnswersOfH4 DEF Cases

LEMMA InitIInv == Init => IInv
<1> SUFFICES ASSUME Init PROVE IInv
  OBVIOUS
<1>1. PICK ic \in Ics : /\ chip \in Answers(ic) /\ image \in Images(ic)
                        /\ lost \in IF chip.proto = "H4" THEN SUBSET {"local", "rom"} ELSE {{}}
  BY DEF Init
<1>2. chip.ic = ic
  BY <1>1, Known, AnswersOf, AnswersOfH4, CasesAssumption
<1>3. chip.proto \in {"H4", "H5"}
  BY <1>1, Known, AnswersOf, AnswersOfH4, CasesAssumption
<1>4. Cases
  BY <1>1, <1>2, <1>3 DEF Cases
<1>5. QED
  BY <1>4 DEF Init, IInv, Told, Passed, GaveUp, Zeros

(* The case is the same behind a step, and with it all that is said of it. *)
LEMMA SameCase ==
  ASSUME Cases, UNCHANGED given
  PROVE  Cases' /\ Heard' = Heard /\ Learnt' = Learnt /\ Asks' = Asks /\ Rom' = Rom
         /\ (Attachable' <=> Attachable)
  BY DEF Cases, given, Heard, Learnt, Asks, Rom, Attachable, Answers, Images

LEMMA CaseStays == [Next]_vars => UNCHANGED given
  BY DEF Next, ReadVersions, IdentifyH4, ReadChipType, ChooseEntry, ReadConfig, ReadFirmware,
         CheckSize, ChangeBaud, Download, Finished, vars, given

(* The row chosen is the controller's own or none, and its own if it can   *)
(* be accepted.                                                            *)
LEMMA EntryChosen ==
  ASSUME Cases, pc = "entry", Told
  PROVE  LET e == get_patch_entry(Renamed(rtl)) IN
         /\ e \in {NONE, RowOf(chip.ic)}
         /\ e # NONE => Renamed(rtl).lmp = chip.lmp
         /\ "rom" \notin lost => Renamed(rtl).ever = Rom
         /\ Attachable => e = RowOf(chip.ic) /\ chip.ic # "RTL8761BTC"
<1>1. rtl = Learnt
  BY DEF Told
<1>2. Renamed(rtl).lmp = Heard.lmp
  BY <1>1 DEF Renamed, Learnt, Heard
<1>3. CASE chip.proto = "H5"
  <2>1. PICK k \in 1..19 : chip.ic = patch_table[k].ic /\ RowOf(chip.ic) = patch_table[k]
    BY <1>3, OneTable
  <2>2. lost = {}
    BY <1>3 DEF Cases
  <2>3. chip \in Answers(patch_table[k].ic)
    BY <2>1 DEF Cases
  <2>4. get_patch_entry(Renamed(Learnt)) = IF k = 12 THEN NONE ELSE patch_table[k]
    BY <2>2, <2>3, OwnRow
  <2>5. Renamed(Learnt).ever = Rom
    BY <2>2, <2>3, VersionRead
  <2>6. k = 12 => chip.ic \in Unreached
    BY <2>1 DEF patch_table, Row, Unreached
  <2>7. Heard.lmp = chip.lmp
    BY <2>2 DEF Heard
  <2>8. chip.ic # "RTL8761BTC"
    BY <2>1 DEF patch_table, Row
  <2>9. QED
    BY <1>1, <1>2, <2>1, <2>4, <2>5, <2>6, <2>7, <2>8 DEF Attachable
<1>4. CASE chip.proto = "H4"
  <2>1. PICK k \in 1..5 : chip.ic = h4_patch_table[k].ic /\ RowOf(chip.ic) = h4_patch_table[k]
    BY <1>4, OneTable
  <2>2. ~Asks /\ Heard.lmp # "8763"
    BY <1>4 DEF Told
  <2>3. chip \in Answers(h4_patch_table[k].ic)
    BY <2>1 DEF Cases
  <2>4. IF "local" \in lost THEN get_patch_entry(Renamed(Learnt)) = NONE
        ELSE k = 5 /\ get_patch_entry(Renamed(Learnt)) = h4_patch_table[k]
    BY <2>2, <2>3, OwnRowH4
  <2>5. "rom" \notin lost => Renamed(Learnt).ever = Rom
    BY <2>3, VersionReadH4
  <2>6. "local" \notin lost => Heard.lmp = chip.lmp
    BY DEF Heard
  <2>7. k = 5 => chip.ic # "RTL8761BTC"
    BY <2>1 DEF h4_patch_table, Row
  <2>8. QED
    BY <1>1, <1>2, <2>1, <2>4, <2>5, <2>6, <2>7 DEF Attachable
<1>5. QED
  BY <1>3, <1>4, OneTable

(* The image accepted is of the controller's project, and its own image is *)
(* accepted.                                                               *)
LEMMA FirmwareChecked ==
  ASSUME Cases, Chosen, ent = RowOf(chip.ic), image.kind = "patches"
  PROVE  /\ ProjectMatches(image) => project_id[image.proj] = chip.lmp
         /\ Attachable /\ image = Own(chip.ic) => ProjectMatches(image)
<1>1. rtl.lmp = chip.lmp /\ chip.lmp = ent.lmp
  BY OneTable DEF Chosen
<1>2. ent.lmp = "8703" => ent.proj \in {"8703", "8704", "8705", "8706"}
  <2>1. CASE \E k \in 1..19 : ent = patch_table[k]
    BY <2>1, SMTT(40) DEF patch_table, Row
  <2>2. CASE \E k \in 1..5 : ent = h4_patch_table[k]
    BY <2>2 DEF h4_patch_table, Row
  <2>3. QED
    BY <2>1, <2>2, OneTable
<1>3. project_id[image.proj] \notin {"8704", "8705", "8706"}
  BY ImagesNumbered, ProjectIds DEF Cases
<1>4. ProjectMatches(image) => project_id[image.proj] = chip.lmp
  BY <1>1, <1>2, <1>3 DEF ProjectMatches
<1>5. ASSUME Attachable, image = Own(chip.ic)
      PROVE  ProjectMatches(image)
  <2>1. chip.ic # "RTL8723AS" /\ image.proj = Project[chip.ic]
    BY <1>5 DEF Own, Image
  <2>2. chip.ic # "RTL8761BTC"
    BY <1>5 DEF Chosen
  <2>3. QED
    BY <1>1, <1>5, <2>1, <2>2, OwnProject, OneTable DEF ProjectMatches, Attachable
<1>6. QED
  BY <1>4, <1>5

(* Two controllers over H4 are told without a question about the chip type.*)
LEMMA Attachable4 ==
  ASSUME Cases, Attachable, chip.proto = "H4"
  PROVE  /\ Heard.lmp \in {"8763", "8723"} /\ H4ChipType(Heard) # CHIP_UNKNOWN
<1>1. PICK k \in 1..5 : chip.ic = h4_patch_table[k].ic
  BY OneTable
<1>2. chip \in Answers(h4_patch_table[k].ic)
  BY <1>1 DEF Cases
<1>3. k \in {3, 5}
  BY <1>1 DEF Attachable, OverH4, h4_patch_table, Row
<1>4. Heard.lmp = chip.lmp /\ Heard.ver = chip.ver /\ Heard.rev = chip.rev
  BY DEF Attachable, Heard
<1>5. k = 3 => chip.lmp = "8763"
  BY <1>2, AnswersOfH4 DEF h4_patch_table, Row
<1>6. k = 5 => chip.lmp = "8723" /\ chip.ver = 8 /\ chip.rev = 13
  <2>1. h4_patch_table[5] = Row({Ver, Rev}, CHIP_8723DS, "8723", "8723", 8, 13, "RTL8723DSH4")
    BY DEF h4_patch_table
  <2>2. QED
    BY <1>2, <2>1, AnswersOfH4 DEF Row
<1>7. QED
  BY <1>3, <1>4, <1>5, <1>6 DEF H4ChipType, CHIP_8761BTC, CHIP_8723DS, CHIP_UNKNOWN

LEMMA RomIsOne ==
  ASSUME Cases, Attachable
  PROVE  Rom \in Versions
<1>1. chip.ic \notin {"RTL8761AT", "RTL8761ATF"}
  BY DEF Attachable, OverH4
<1>2. chip.ever \in Eversions(chip.ic)
  BY OneTable, AnswersOf, AnswersOfH4 DEF Cases
<1>3. chip.ic = "RTL8852BP" => chip.chipver \in Versions
  <2>1. \A k \in 1..5 : h4_patch_table[k].ic # "RTL8852BP"
    BY DEF h4_patch_table, Row
  <2>2. QED
    BY <2>1, OneTable, AnswersOf DEF Cases
<1>4. QED
  BY <1>1, <1>2, <1>3 DEF Rom, Eversions

LEMMA FirmwareKeeps == IInv /\ ReadFirmware => IInv'
<1> SUFFICES ASSUME IInv, ReadFirmware PROVE IInv'
  OBVIOUS
<1> USE DEF IInv
<1>1. UNCHANGED given /\ pc = "firmware" /\ Chosen
  BY DEF ReadFirmware, Passed
<1>2. Cases' /\ (Attachable' <=> Attachable) /\ Rom' = Rom
  BY <1>1, SameCase
<1>3. UNCHANGED <<rtl, ent, mac, vendor_baud, line_speed, loaded>>
  BY DEF ReadFirmware, Fail
<1>4. Chosen'
  BY <1>1, <1>2, <1>3 DEF Chosen, given
<1> DEFINE single == chip.proto = "H5" /\ rtl.lmp = "1200"
           good   == IF single THEN image.kind = "raw"
                     ELSE /\ image.kind = "patches" /\ ProjectMatches(image)
                          /\ rtl.ever \in Versions
<1>5. CASE ent # NONE /\ image.kind # "none" /\ good
  <2>1. pc' = "size"
    BY <1>1, <1>5 DEF ReadFirmware, Fail
  <2>2. image.kind = "patches" => ProjectMatches(image)
    BY <1>5
  <2>3. ent = RowOf(chip.ic)
    BY <1>5 DEF Passed
  <2>4. Checked
    BY <1>1, <1>5, <2>2, <2>3, FirmwareChecked DEF Checked
  <2>5. QED
    BY <1>1, <1>2, <1>3, <1>4, <2>1, <2>4 DEF Told, Passed, GaveUp, Checked, given
<1>6. CASE ~(ent # NONE /\ image.kind # "none" /\ good)
  <2>1. pc' \in {"fail", "exit"}
    BY <1>1, <1>6 DEF ReadFirmware, Fail
  <2>2. ASSUME Attachable PROVE image # Own(chip.ic)
    <3> SUFFICES ASSUME image = Own(chip.ic) PROVE FALSE
      OBVIOUS
    <3>1. ent = RowOf(chip.ic) /\ ent # NONE /\ rtl.lmp = chip.lmp /\ chip.lmp = ent.lmp
      BY <1>1, <2>2, OneTable DEF Chosen
    <3>2. image.kind # "none"
      BY DEF Own, Image
    <3>3. rtl.ever \in Versions
      BY <1>1, <2>2, RomIsOne DEF Chosen, Attachable
    <3>4. CASE chip.ic = "RTL8723AS"
      <4>1. \A k \in 1..5 : h4_patch_table[k].ic # "RTL8723AS"
        BY DEF h4_patch_table, Row
      <4>2. \A k \in 1..19 : patch_table[k].ic = "RTL8723AS" => patch_table[k].lmp = "1200"
        BY DEF patch_table, Row
      <4>3. single
        BY <3>1, <3>4, <4>1, <4>2, OneTable
      <4>4. image.kind = "raw"
        BY <3>4 DEF Own, Image
      <4>5. QED
        BY <1>6, <3>1, <3>2, <4>3, <4>4
    <3>5. CASE chip.ic # "RTL8723AS"
      <4>1. \A k \in 1..19 : patch_table[k].ic # "RTL8723AS" => patch_table[k].lmp # "1200"
        BY DEF patch_table, Row
      <4>2. ~single
        BY <3>1, <3>5, <4>1, OneTable
      <4>3. image.kind = "patches"
        BY <3>5 DEF Own, Image
      <4>4. ProjectMatches(image)
        BY <1>1, <2>2, <3>1, <4>3, FirmwareChecked
      <4>5. QED
        BY <1>6, <3>1, <3>2, <3>3, <4>2, <4>3, <4>4
    <3>6. QED
      BY <3>4, <3>5
  <2>3. QED
    BY <1>1, <1>2, <1>3, <1>4, <2>1, <2>2 DEF Told, Passed, GaveUp, given
<1>7. QED
  BY <1>5, <1>6

LEMMA IdentifyKeeps == IInv /\ IdentifyH4 => IInv'
<1> SUFFICES ASSUME IInv, IdentifyH4 PROVE IInv'
  OBVIOUS
<1> USE DEF IInv
<1>1. UNCHANGED given /\ pc = "h4" /\ rtl = Heard /\ chip.proto = "H4" /\ loaded = -1
  BY DEF IdentifyH4, Told, Passed
<1>2. /\ Cases' /\ Heard' = Heard /\ Learnt' = Learnt /\ Asks' = Asks
      /\ (Attachable' <=> Attachable)
  BY <1>1, SameCase
<1> DEFINE c == H4ChipType(rtl)
<1>3. CASE c = CHIP_UNKNOWN /\ rtl.lmp = "8723"
  <2>1. pc' = "fail" /\ UNCHANGED <<rtl, ent, loaded>>
    BY <1>3 DEF IdentifyH4, Fail
  <2>2. ~Attachable
    BY <1>1, <1>3, Attachable4
  <2>3. QED
    BY <1>1, <1>2, <2>1, <2>2 DEF Told, Passed, GaveUp, given
<1>4. CASE ~(c = CHIP_UNKNOWN /\ rtl.lmp = "8723")
  <2>1. rtl' = [rtl EXCEPT !.chip = c] /\ UNCHANGED <<ent, loaded>>
    BY <1>4 DEF IdentifyH4
  <2>2. rtl' = Learnt /\ rtl'.chip = c
    BY <1>1, <2>1 DEF Learnt, Heard
  <2>3. CASE c = CHIP_8761BTC
    <3>1. pc' = "baud"
      BY <1>4, <2>3 DEF IdentifyH4
    <3>2. QED
      BY <1>1, <1>2, <2>1, <2>2, <2>3, <3>1 DEF Told, Passed, GaveUp, Takes, given
  <2>4. CASE c # CHIP_8761BTC
    <3>1. pc' = "chip"
      BY <1>4, <2>4 DEF IdentifyH4
    <3>2. Heard.lmp # "8763"
      BY <1>1, <2>4 DEF H4ChipType
    <3>3. QED
      BY <1>1, <1>2, <2>1, <2>2, <3>1, <3>2 DEF Told, Passed, GaveUp, given
  <2>5. QED
    BY <2>3, <2>4
<1>5. QED
  BY <1>3, <1>4

LEMMA ChipTypeKeeps == IInv /\ ReadChipType => IInv'
<1> SUFFICES ASSUME IInv, ReadChipType PROVE IInv'
  OBVIOUS
<1> USE DEF IInv
<1>1. /\ UNCHANGED given /\ pc = "chip" /\ loaded = -1 /\ UNCHANGED <<ent, loaded>>
      /\ rtl = (IF chip.proto = "H4" THEN Learnt ELSE Heard)
  BY DEF ReadChipType, Told, Passed, Fail
<1>2. /\ Cases' /\ Heard' = Heard /\ Learnt' = Learnt /\ (Asks' <=> Asks)
      /\ (Attachable' <=> Attachable)
  BY <1>1, SameCase
<1>3. rtl.lmp \in {"8761", "8703", "8852"} <=> Asks
  BY <1>1 DEF Asks, Learnt, Heard
<1>4. chip.proto \in {"H4", "H5"}
  BY OneTable
<1>5. CASE ~Asks
  <2>1. pc' = "entry" /\ rtl' = rtl
    BY <1>3, <1>5 DEF ReadChipType
  <2>2. rtl = Learnt
    BY <1>1, <1>5 DEF Learnt
  <2>3. QED
    BY <1>1, <1>2, <1>5, <2>1, <2>2 DEF Told, Passed, GaveUp, given
<1>6. CASE Asks /\ chip.proto = "H4"
  <2>1. pc' = "exit" /\ rtl' = rtl
    BY <1>3, <1>6 DEF ReadChipType, Fail
  <2>2. ~Attachable
    BY <1>6, Attachable4 DEF Asks
  <2>3. QED
    BY <1>1, <1>2, <2>1, <2>2 DEF Told, Passed, GaveUp, given
<1>7. CASE Asks /\ chip.proto = "H5"
  <2>1. pc' = "entry" /\ rtl' = [rtl EXCEPT !.chip = chip.chip, !.chipver = chip.chipver]
    BY <1>3, <1>7 DEF ReadChipType
  <2>2. rtl' = Learnt
    BY <1>1, <1>7, <2>1 DEF Learnt
  <2>3. QED
    BY <1>1, <1>2, <1>7, <2>1, <2>2 DEF Told, Passed, GaveUp, given
<1>8. QED
  BY <1>4, <1>5, <1>6, <1>7

LEMMA IInvStep == IInv /\ [Next]_vars => IInv'
<1> SUFFICES ASSUME IInv, [Next]_vars PROVE IInv'
  OBVIOUS
<1> USE DEF IInv
<1>1. UNCHANGED given
  BY CaseStays
<1>2. /\ Cases' /\ Heard' = Heard /\ Learnt' = Learnt /\ Asks' = Asks /\ Rom' = Rom
      /\ (Attachable' <=> Attachable) /\ RowOf(chip.ic)' = RowOf(chip.ic)
  BY <1>1, SameCase DEF given
<1>3. CASE ReadVersions
  <2>1. pc = "versions" /\ rtl = Zeros /\ loaded = -1 /\ UNCHANGED <<ent, loaded>>
    BY <1>3 DEF ReadVersions, Told, Passed
  <2>2. rtl' = Heard
    BY <1>3, <2>1 DEF ReadVersions, Heard, Zeros
  <2>3. pc' = IF chip.proto = "H4" THEN "h4" ELSE "chip"
    BY <1>3 DEF ReadVersions
  <2>4. QED
    BY <1>1, <1>2, <2>1, <2>2, <2>3 DEF Told, Passed, GaveUp, given
<1>4. CASE IdentifyH4
  BY <1>4, IdentifyKeeps
<1>5. CASE ReadChipType
  BY <1>5, ChipTypeKeeps
<1>6. CASE ChooseEntry
  <2>1. /\ pc = "entry" /\ loaded = -1 /\ pc' = "config" /\ UNCHANGED loaded
        /\ rtl' = Renamed(rtl) /\ ent' = get_patch_entry(Renamed(rtl))
    BY <1>6 DEF ChooseEntry, Passed
  <2>2. /\ ent' \in {NONE, RowOf(chip.ic)}
        /\ ent' # NONE => rtl'.lmp = chip.lmp
        /\ "rom" \notin lost => rtl'.ever = Rom
        /\ Attachable => ent' = RowOf(chip.ic) /\ chip.ic # "RTL8761BTC"
    BY <2>1, EntryChosen
  <2>3. Chosen'
    BY <1>1, <1>2, <2>2 DEF Chosen, given
  <2>4. QED
    BY <1>1, <1>2, <2>1, <2>2, <2>3 DEF Told, Passed, GaveUp, given
<1>7. CASE ReadConfig
  <2>1. pc = "config" /\ pc' = "firmware" /\ UNCHANGED <<rtl, ent, loaded>>
    BY <1>7 DEF ReadConfig
  <2>2. QED
    BY <1>1, <1>2, <2>1 DEF Told, Passed, GaveUp, Chosen, given
<1>8. CASE ReadFirmware
  BY <1>8, FirmwareKeeps
<1>9. CASE CheckSize
  <2>1. pc = "size" /\ UNCHANGED <<rtl, ent, loaded>>
    BY <1>9 DEF CheckSize, Fail
  <2>2. IF size > max_patch_size(ent.chip) THEN pc' = "fail" ELSE pc' = "baud"
    BY <1>9 DEF CheckSize, Fail
  <2>3. Chosen /\ Checked
    BY <2>1 DEF Passed
  <2>4. Chosen' /\ Checked'
    BY <1>1, <1>2, <2>1, <2>3 DEF Chosen, Checked, given
  <2>5. ent = RowOf(chip.ic)
    BY <2>3 DEF Passed, Checked
  <2>6. QED
    BY <1>1, <1>2, <2>1, <2>2, <2>4, <2>5 DEF Told, Passed, GaveUp, given
<1>10. CASE ChangeBaud
  <2>1. pc = "baud" /\ pc' = "download" /\ UNCHANGED <<rtl, ent, loaded>>
    BY <1>10 DEF ChangeBaud
  <2>2. QED
    BY <1>1, <1>2, <2>1 DEF Told, Passed, GaveUp, Chosen, Checked, Takes, given
<1>11. CASE Download
  <2>1. /\ pc = "download" /\ pc' = "done" /\ UNCHANGED <<rtl, ent>> /\ loaded = -1
        /\ loaded' = IF ~Takes THEN loaded ELSE rtl.ever
    BY <1>11 DEF Download, Passed, Takes
  <2>2. QED
    BY <1>1, <1>2, <2>1 DEF Told, Passed, GaveUp, Chosen, Checked, given
<1>12. CASE Finished \/ UNCHANGED vars
  BY <1>1, <1>2, <1>12 DEF Finished, vars, Told, Passed, GaveUp, Chosen, Checked, Takes, given
<1>13. QED
  BY <1>3, <1>4, <1>5, <1>6, <1>7, <1>8, <1>9, <1>10, <1>11, <1>12 DEF Next

LEMMA AlwaysIInv == Spec => []IInv
  BY InitIInv, IInvStep, PTL DEF Spec

(* Whatever controller of the tables answers, and whichever of its answers *)
(* is lost, the row chosen is its own or the row NONE (get_patch_entry).   *)
THEOREM OwnEntryAlways == Spec => []OwnEntry
<1>1. NONE.ic = "NONE"
  BY DEF NONE, Row
<1>2. IInv => OwnEntry
  BY <1>1, OneTable DEF IInv, Passed, OwnEntry
<1>3. QED
  BY <1>2, AlwaysIInv, PTL

(* What is downloaded is of the controller's own row and project: nothing  *)
(* on the strength of the row NONE, and no image of another subversion     *)
(* (rtb_get_final_patch, get_patch_entry).                                 *)
THEOREM ForeignAlwaysRefused == Spec => []ForeignRefused
<1>1. IInv => ForeignRefused
  BY OneTable DEF IInv, Passed, Checked, ForeignRefused
<1>2. QED
  BY <1>1, AlwaysIInv, PTL

(* If the ROM version was answered, the patch downloaded is for it, also   *)
(* for the RTL8852BP, which gives it with its chip type (rtb_config).      *)
THEOREM RightRomAlways == Spec => []RightRom
<1>1. IInv => RightRom
  BY DEF IInv, Passed, Chosen, RightRom
<1>2. QED
  BY <1>1, AlwaysIInv, PTL

(* A controller that the code can accept, with its own image and both      *)
(* answers, is given up only for the size of its files (rtb_config).       *)
THEOREM AcceptedAlways == Spec => []Accepted
<1>1. IInv => Accepted
  BY DEF IInv, GaveUp, Attachable, Accepted
<1>2. QED
  BY <1>1, AlwaysIInv, PTL
=============================================================================
