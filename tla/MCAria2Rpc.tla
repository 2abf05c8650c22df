----------------------------- MODULE MCAria2Rpc -----------------------------
(***************************************************************************)
(* Instances of Aria2Rpc for TLC.                                          *)
(***************************************************************************)
EXTENDS Aria2Rpc

CONSTANT r1
=============================================================================
