---------------------------- MODULE MCRtbConfig ----------------------------
(***************************************************************************)
(* Instances of RtbConfig for TLC.                                         *)
(***************************************************************************)
EXTENDS RtbConfig

MCAll      == KnownIcs

MCProjects == {0, 1, 2, 3, 4, 5, 6, 7, 8, 11, 18}
MCConfs    == {"none", "unset", "00000000", "0252C014", "01128002", "0000B001", "12345678"}
MCSizes    == {24 * 1024, 25 * 1024 + 1, 66768 + 529}
=============================================================================
