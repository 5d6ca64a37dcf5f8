------------------------------ MODULE FwFiles ------------------------------
(***************************************************************************)
(* What rtb_config makes of its two files: the configuration is read and   *)
(* merged first (CfgLists), then the firmware image is read and the buffer *)
(* to download is put together from its patch and that configuration       *)
(* (FwImage).  rtb_get_final_patch takes rtb_cfg.config_buf as it was left.*)
(***************************************************************************)
EXTENDS CfgLists

CONSTANTS
  Cases,              \* files considered: <<input, src, ROM version, image>>
  Images, Eversions   \* the images (src) and versions among them

VARIABLES src, image, eversion, stage, p_buf, proj_id, i, buf

fwvars == <<src, image, eversion, stage, p_buf, proj_id, i, buf>>

(* rtb_read_config's result: no buffer without a file, or if it cannot be  *)
(* read; rtb_config then goes on with a length of 0.                       *)
config_buf == IF pc = "done" THEN out ELSE << >>

Fw == INSTANCE FwImage WITH pc <- stage

(* An image as it is made has a field in its extension section, and its    *)
(* length is an int.  What is read may be any bytes.                       *)
ASSUME ImagesAssumption ==
  /\ Eversions \subseteq Nat
  /\ \A im \in Images :
       /\ im \in Fw!ImageType(Seq(Fw!PatchType), Seq(Fw!FieldType), Fw!BytesOf(4, 4))
       /\ im.fields # << >> /\ Len(im.patches) <= 65535
       /\ Len(Fw!File(im)) <= 2147483647
  /\ \A case \in Cases : case[4] \in Seq(Fw!Bytes)

FilesInit ==
  /\ \E case \in Cases :
       input = case[1] /\ src = case[2] /\ eversion = case[3] /\ image = case[4]
  /\ Init /\ Fw!Init

FilesVars == <<vars, fwvars>>

ConfigStep   == Next /\ UNCHANGED fwvars
FirmwareStep == pc \in {"done", "none"} /\ Fw!Next(config_buf) /\ UNCHANGED vars

FilesNext == ConfigStep \/ FirmwareStep

FilesSpec == FilesInit /\ [][FilesNext]_FilesVars

-----------------------------------------------------------------------------
(* The project id of an intact image is that of the field nearest to the   *)
(* end of the file, and 0 if there is none, whatever other fields are      *)
(* between (rtb_get_fw_project_id).                                        *)
ProjectRight == Fw!ProjectRight

(* Of an intact image and tame files nothing is undefined, and what is     *)
(* downloaded is the first patch for the ROM version, with the version of  *)
(* the image in its last four bytes, and behind it what the configuration  *)
(* and the extra items say together: the extra items alone if the file is  *)
(* not a configuration or could not be read, and nothing if there is none  *)
(* or less was read than there is (rtb_read_config, rtb_get_final_patch).  *)
Downloaded ==
  Tame => /\ pc # "crash"
          /\ Fw!PatchRight(IF Usable THEN File(Merged(Base, Extras)) ELSE << >>)
=============================================================================
