--------------------------- MODULE MCDriveUploader ---------------------------
(***************************************************************************)
(* Instances of DriveUploader for TLC.                                     *)
(***************************************************************************)
EXTENDS DriveUploader

CONSTANTS w1, w2, main
=============================================================================
