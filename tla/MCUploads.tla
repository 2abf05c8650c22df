------------------------------- MODULE MCUploads -------------------------------
(***************************************************************************)
(* Two rclone uploads at once, so that two probes may run; or a Telegram   *)
(* upload of up to three parts or files by two workers, so that there is   *)
(* an item more than there are workers.                                    *)
(***************************************************************************)
EXTENDS Uploads, TLC

CONSTANTS r1, r2, w1, w2

MCRuns == {r1, r2}
MCWorkers == {w1, w2}
=============================================================================
