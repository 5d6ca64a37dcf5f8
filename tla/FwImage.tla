------------------------------ MODULE FwImage ------------------------------
(***************************************************************************)
(* How rtb_fwc.c finds what to download in a firmware image: the project   *)
(* id in an extension section that is read backwards from the end of the   *)
(* file, the patch for the ROM version in a directory of three arrays, and *)
(* the buffer of patch and configuration made from it.                     *)
(***************************************************************************)
EXTENDS Integers, SequencesExt

CONSTANTS
  Images,    \* the images considered, see ImageType
  Eversions  \* ROM versions of the controller

(* An image is made of patches, each for one ROM version, and of the       *)
(* fields of its extension section in the order they are read.             *)
ImageType(patches, fields, versions) ==
  [patches: patches, fields: fields, version: versions]

Bytes == 0..255
Words == 0..65535
BytesOf(least, most) == {d \in Seq(Bytes) : least <= Len(d) /\ Len(d) <= most}
PatchType == [chip: Words, data: BytesOf(4, 65535)]   \* it ends with its version
FieldType == [op: 0..254, data: BytesOf(0, 255)]

smagic == <<82, 101, 97, 108, 116, 101, 99, 104>>
emagic == <<81, 4, 253, 119>>
HdrLen == 14   \* signature, fw_version, number_of_patch

VARIABLES src,       \* the image as its maker sees it
          image,     \* rtb_cfg.fw_buf: any bytes, those of the maker or not
          eversion, pc,
          p_buf,     \* offset of the extension field looked at
          proj_id,
          i,         \* the entry of the directory looked at
          buf        \* what is downloaded

vars == <<src, image, eversion, pc, p_buf, proj_id, i, buf>>

-----------------------------------------------------------------------------
(* The format, for the maker of an image. *)
Le16(n) == <<n % 256, n \div 256>>
Le32(n) == Le16(n % 65536) \o Le16(n \div 65536)

(* A field is its data, their length and the opcode, so that it can be     *)
(* read from its end.                                                      *)
Field(f) == f.data \o <<Len(f.data), f.op>>

(* Parts in front of the end of a file, each in front of those before it:  *)
(* the file from each part on.                                             *)
Stacked(parts, end) ==
  LET from[k \in 0..Len(parts)] == IF k = 0 THEN end ELSE parts[k] \o from[k - 1]
  IN  from

Section(fields) == Stacked([k \in DOMAIN fields |-> Field(fields[k])], emagic)
Data(im) ==
  Stacked(Reverse([k \in DOMAIN im.patches |-> im.patches[k].data]),
          <<255>> \o Section(im.fields)[Len(im.fields)])

(* Where the data of the k-th patch are. *)
Start(im, k) ==
  LET n == Len(im.patches)
  IN  HdrLen + 8 * n + (Len(Data(im)[n]) - Len(Data(im)[n + 1 - k]))

(* An array of numbers of two bytes, and of four. *)
Array16(ns) == [j \in 1..(2 * Len(ns)) |-> Le16(ns[1 + (j - 1) \div 2])[1 + ((j - 1) % 2)]]
Array32(ns) == [j \in 1..(4 * Len(ns)) |-> Le32(ns[1 + (j - 1) \div 4])[1 + ((j - 1) % 4)]]

File(im) ==
  smagic \o im.version \o Le16(Len(im.patches))
  \o Array16([k \in DOMAIN im.patches |-> im.patches[k].chip])
  \o Array16([k \in DOMAIN im.patches |-> Len(im.patches[k].data)])
  \o Array32([k \in DOMAIN im.patches |-> Start(im, k)])
  \o Data(im)[Len(im.patches)]

-----------------------------------------------------------------------------
Byte(at) == image[at + 1]
get_unaligned_le16(at) == Byte(at) + 256 * Byte(at + 1)
get_unaligned_le32(at) == get_unaligned_le16(at) + 65536 * get_unaligned_le16(at + 2)
memcpy(at, len) == SubSeq(image, at + 1, at + len)
InFile(at, len) == at >= 0 /\ at + len <= Len(image)

(* The reads a step makes.  The code checks two signatures, and no offset  *)
(* or length it finds in the image: it may read outside of it, and what    *)
(* follows is undefined.  The model stops there.                           *)
Reading(spans, step) ==
  IF \A s \in spans : InFile(s[1], s[2]) THEN step
  ELSE pc' = "outside" /\ UNCHANGED <<p_buf, proj_id, i, buf>>

Init ==
  /\ src \in Images /\ eversion \in Eversions /\ image \in Seq(Bytes)
  /\ pc = "signature" /\ p_buf = 0 /\ proj_id = 0 /\ i = 0 /\ buf = << >>

CheckSignature ==
  /\ pc = "signature"
  /\ Reading({<<0, 8>>, <<Len(image) - 4, 4>>},
       /\ IF memcpy(0, 8) # smagic \/ memcpy(Len(image) - 4, 4) # emagic
          THEN pc' = "err" ELSE pc' = "project"
       /\ p_buf' = Len(image) - 5
       /\ UNCHANGED <<proj_id, i, buf>>)
  /\ UNCHANGED <<src, image, eversion>>

(* Mutant: the opcode and the length are not both skipped.                 *)
MutPrevious(at, len) == at - (len + 1)

Previous(at, len) == at - (len + 2)

(* rtb_get_fw_project_id: one turn of its loop. *)
ReadField ==
  /\ pc = "project"
  /\ Reading({<<p_buf - 2, 3>>},
       LET opcode == Byte(p_buf)
           len    == Byte(p_buf - 1)
           to     == Previous(p_buf, len)
       IN  IF opcode = 0 /\ len = 1
           THEN proj_id' = Byte(p_buf - 2) /\ pc' = "entry" /\ UNCHANGED <<p_buf, i, buf>>
           ELSE /\ p_buf' = to
                /\ pc' = IF ~InFile(to, 1) THEN "outside"
                         ELSE IF Byte(to) = 255 THEN "entry" ELSE "project"
                /\ UNCHANGED <<proj_id, i, buf>>)
  /\ UNCHANGED <<src, image, eversion>>

number_of_patch == get_unaligned_le16(12)
ci_base == HdrLen
pl_base == ci_base + 2 * number_of_patch

so_base == pl_base + 2 * number_of_patch

(* rtb_get_patch_entry: one turn of its loop; the versions at the end of   *)
(* the patch found are read for the log.                                   *)
NextEntry ==
  /\ pc = "entry"
  /\ Reading({<<12, 2>>},
       IF i = number_of_patch
       THEN pc' = "err" /\ UNCHANGED <<p_buf, proj_id, i, buf>>
       ELSE Reading({<<ci_base + 2 * i, 2>>},
              /\ IF get_unaligned_le16(ci_base + 2 * i) = eversion + 1
                 THEN pc' = "copy" /\ i' = i
                 ELSE pc' = pc /\ i' = i + 1
              /\ UNCHANGED <<p_buf, proj_id, buf>>))
  /\ UNCHANGED <<src, image, eversion>>

patch_len == get_unaligned_le16(pl_base + 2 * i)
soffset   == get_unaligned_le32(so_base + 4 * i)

(* fw_version goes over the last four bytes of the patch. *)
WithVersion(patch) == SubSeq(patch, 1, Len(patch) - 4) \o memcpy(8, 4)

(* rtb_get_final_patch, after the entry was found; config is what is in    *)
(* rtb_cfg.config_buf, << >> if there is none.  In a patch of less than    *)
(* four bytes the version is written in front of the buffer.               *)
CopyPatch(config) ==
  /\ pc = "copy"
  /\ Reading({<<pl_base + 2 * i, 2>>, <<so_base + 4 * i, 4>>},
       Reading({<<soffset, patch_len>>, <<soffset + patch_len - 12, 12>>},
         /\ IF patch_len < 4 THEN pc' = "outside" /\ UNCHANGED buf
            ELSE /\ buf' = WithVersion(memcpy(soffset, patch_len)) \o config
                 /\ pc' = "done"
         /\ UNCHANGED <<p_buf, proj_id, i>>))
  /\ UNCHANGED <<src, image, eversion>>

Finished == pc \in {"done", "err", "outside"} /\ UNCHANGED vars

Next(config) == CheckSignature \/ ReadField \/ NextEntry \/ CopyPatch(config) \/ Finished

-----------------------------------------------------------------------------
(* The image is one that its maker laid out, and not damaged since.        *)
Intact == image = File(src)

IsProject(f) == f.op = 0 /\ Len(f.data) = 1

(* The project id is that of the field nearest to the end of the file, and *)
(* 0 if there is none, whatever other fields, longer ones and fields of    *)
(* opcode 0 with another length are between (rtb_get_fw_project_id).       *)
ProjectRight ==
  LET ps == {k \in DOMAIN src.fields : IsProject(src.fields[k])}
  IN  Intact /\ pc \in {"entry", "copy", "done"} =>
        proj_id = IF ps = {} THEN 0 ELSE src.fields[Min(ps)].data[1]

(* Of an intact image nothing is read that is not in it.  The patch for    *)
(* the ROM version is the first of the image that is for it, wherever it   *)
(* is in the file, with the version of the image in its last four bytes,   *)
(* and it is missed only if there is none (rtb_get_patch_entry,            *)
(* rtb_get_final_patch); config is what is to follow it.                   *)
PatchRight(config) ==
  LET mine == {k \in DOMAIN src.patches : src.patches[k].chip = eversion + 1}
      data == src.patches[Min(mine)].data
  IN  Intact => /\ pc # "outside"
                /\ pc = "err"  => mine = {}
                /\ pc = "done" =>
                     /\ mine # {}
                     /\ buf = SubSeq(data, 1, Len(data) - 4) \o src.version \o config
=============================================================================
