----------------------------- MODULE MCFwFiles -----------------------------
(***************************************************************************)
(* Instances of FwFiles for TLC.  A configuration file and an extra        *)
(* configuration may repeat an offset, be cut short, unreadable or too     *)
(* long together.  An image has up to three patches of different lengths   *)
(* and three fields, and may be damaged.                                   *)
(***************************************************************************)
EXTENDS FwFiles

Baud == 12     \* 0x000c
Mac  == 68     \* 0x0044
High == 300    \* an offset above 255

MCFiles == { << >>,
             <<Item(Baud, <<20, 192>>)>>,
             <<Item(Mac, <<1, 2>>), Item(High, <<7>>)>>,
             <<Item(High, <<5, 6, 7>>), Item(Baud, <<20, 192>>), Item(Mac, <<1>>)>>,
             <<Item(Mac, <<1>>), Item(High, <<5, 6, 7>>), Item(Mac, <<1, 2, 3>>)>>,
             <<Item(High, <<5, 6, 7>>), Item(High, <<1, 2>>)>>,
             <<Item(High, <<5, 6, 7>>), Item(Mac, <<1, 2>>), Item(High, <<5, 6, 7>>)>> }

Line(ofs, data) == [ofs |-> ofs, len |-> Len(data), data |-> data]

Lines == { Line(Baud, <<9>>), Line(Mac, <<8, 8>>), Line(High, <<4, 4>>), Line(High, << >>),
           [ofs |-> Mac, len |-> 3, data |-> <<8, 8>>] }

(* Every file that is read as a whole, and one in every other state.       *)
MCInputs ==
  LET macs == {<< >>, <<Item(Mac, <<3, 3>>)>>}
  IN  InputType(MCFiles, {"whole"}, {"good"}, SeqOf(Lines, 3), macs)
      \cup InputType({<<Item(Baud, <<20, 192>>)>>}, Reads, Contents, SeqOf(Lines, 2), macs)

Patch(chip, first, len) == [chip |-> chip, data |-> [k \in 1..len |-> (first + k) % 256]]

MCPatches == { <<Patch(1, 10, 12)>>,
               <<Patch(2, 250, 13), Patch(1, 30, 16)>>,
               <<Patch(1, 10, 20), Patch(3, 40, 5), Patch(3, 70, 14)>>,
               <<Patch(258, 20, 4), Patch(2, 60, 300)>> }

(* Data that look like an opcode, a length or the end of the section. *)
MCField == { [op |-> 0, data |-> <<9>>], [op |-> 0, data |-> <<255>>],
             [op |-> 0, data |-> <<1, 0>>], [op |-> 1, data |-> <<7, 1, 0>>],
             [op |-> 3, data |-> <<255, 255>>], [op |-> 2, data |-> << >>] }

Low == [patches |-> <<Patch(2, 90, 13), Patch(1, 30, 16)>>,
        fields  |-> <<[op |-> 0, data |-> <<9>>]>>, version |-> <<4, 3, 2, 1>>]

MCImages == {Low} \cup
            [patches: MCPatches, fields: UNION { [1..n -> MCField] : n \in 1..3 },
             version: { <<4, 3, 2, 1>> }]

One == [patches |-> <<Patch(2, 250, 13), Patch(1, 30, 16)>>,
        fields  |-> <<[op |-> 0, data |-> <<9>>]>>, version |-> <<4, 3, 2, 1>>]

(* One byte is another, the length of the last field any; the file is cut, *)
(* with and without its signature.  (No number read from it has more than  *)
(* the 31 bits of TLC's.)                                                  *)
Damaged ==
  LET file == Fw!File(Low)
  IN  { [file EXCEPT ![k] = b] : k \in DOMAIN file, b \in {0, 1, 3, 120} }
      \cup { [file EXCEPT ![Len(file) - 5] = b] : b \in 0..255 }
      \cup { SubSeq(file, 1, n) : n \in 0..Len(file) }
      \cup { SubSeq(file, 1, n) \o Fw!emagic : n \in {k \in 0..Len(file) : k % 4 # 3} }

(* Every configuration with one image, every image with one configuration  *)
(* and with none.                                                          *)
MCCases ==
  LET conf(r) == [items |-> <<Item(Baud, <<20, 192>>)>>, read |-> r, buf |-> "good",
                  lines |-> << >>, mac |-> << >>]
  IN  { <<in, One, 0, Fw!File(One)>> : in \in MCInputs }
      \cup { <<conf(r), im, ev, Fw!File(im)>> :
               r \in {"whole", "absent"}, im \in MCImages, ev \in 0..2 }
      \cup { <<conf("whole"), Low, ev, file>> : ev \in 0..2, file \in Damaged }
=============================================================================
