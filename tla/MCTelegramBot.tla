---------------------------- MODULE MCTelegramBot ----------------------------
(***************************************************************************)
(* Instances of TelegramBot for TLC.                                       *)
(***************************************************************************)
EXTENDS TelegramBot

CONSTANTS params, token_, options, h1, r1, r2
=============================================================================
