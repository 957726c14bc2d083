---------------------------- MODULE MCFtpClient ----------------------------
(***************************************************************************)
(* Instances of FtpClient for TLC.                                         *)
(***************************************************************************)
EXTENDS FtpClient

AllKinds   == {"cd", "mkdir", "remove", "rename", "list", "download", "upload"}
Trouble    == {"fails", "breaks"}
Interferes == {"whileDown"}
=============================================================================
