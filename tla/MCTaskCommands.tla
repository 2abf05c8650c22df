---------------------------- MODULE MCTaskCommands ----------------------------
(***************************************************************************)
(* Instances of the transfer and command specifications for TLC.           *)
(***************************************************************************)
EXTENDS TaskInvariants, TLC

CONSTANTS t1, chat1, chat2, c1, c2

\* chat1 owns every task.
OneChat == [t \in Tasks |-> chat1]

\* Commands differ only in name.
CommandSymmetry == Permutations(Commands)
=============================================================================
