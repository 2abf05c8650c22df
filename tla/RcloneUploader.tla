---------------------------- MODULE RcloneUploader ----------------------------
(***************************************************************************)
(* RcloneUploader: uploads that run rclone, after one of them has found out*)
(* whether there is an rclone to run.  Several uploads of a task share the *)
(* uploader.                                                               *)
(***************************************************************************)
EXTENDS Subprocess

VARIABLES
    readiness,  \* the verdict of the last probe
    up,         \* where an upload is
    outcome     \* what it returned

rcloneVars == <<readiness, up, outcome>>

RcloneTypes ==
    /\ readiness \in {"unprobed", "missing", "ready"}
    /\ up \in [Runs -> {"idle", "begun", "probing", "probed", "copying", "over"}]
    /\ outcome \in [Runs -> {"none", "ok", "error", "cancelled", "thrown"}]

RcloneInit ==
    /\ readiness = "unprobed"
    /\ up = [r \in Runs |-> "idle"]
    /\ outcome = [r \in Runs |-> "none"]

Over(r, o) ==
    /\ up' = [up EXCEPT ![r] = "over"]
    /\ outcome' = [outcome EXCEPT ![r] = o]

Goes(r, place) ==
    /\ up' = [up EXCEPT ![r] = place]
    /\ UNCHANGED outcome

\* upload_file() or upload_directory(): a destination is wanted and something to
\* upload.
Upload(r) ==
    /\ up[r] = "idle"
    /\ Goes(r, "begun") \/ Over(r, "error")
    /\ UNCHANGED <<subprocessVars, readiness>>

\* co_await of run_rclone() and of probe_rclone(), which runs rclone --version
\* unless there is a verdict.
Probe(r) ==
    /\ up[r] = "begun"
    /\ \/ /\ r \in cancelled
          /\ Over(r, "thrown")
          /\ UNCHANGED subprocessVars
       \/ /\ r \notin cancelled /\ readiness = "unprobed"
          /\ Goes(r, "probing")
          /\ RunSpawns(r)
       \/ /\ r \notin cancelled /\ readiness # "unprobed"
          /\ IF readiness = "ready" THEN Goes(r, "probed") ELSE Over(r, "error")
          /\ UNCHANGED subprocessVars
    /\ UNCHANGED readiness

ExitedWell(r) == wp[r] = "finished" /\ code[r] = "zero"

\* The verdict is kept for good, also that of a probe that was killed.
ProbeReturns(r) ==
    /\ up[r] = "probing"
    /\ RunReturns(r)
    /\ readiness' = IF ExitedWell(r) THEN "ready" ELSE "missing"
    /\ IF ExitedWell(r) THEN Goes(r, "probed") ELSE Over(r, "error")

\* run_rclone() goes on to the copy, unless it has been cancelled.
Copy(r) ==
    /\ up[r] = "probed"
    /\ \/ /\ r \in cancelled
          /\ Over(r, "cancelled") \/ Over(r, "thrown")
          /\ UNCHANGED subprocessVars
       \/ /\ r \notin cancelled
          /\ Goes(r, "copying")
          /\ RunSpawns(r)
    /\ UNCHANGED readiness

CopyReturns(r) ==
    /\ up[r] = "copying"
    /\ RunReturns(r)
    /\ Over(r, IF ExitedWell(r) THEN "ok" ELSE "error")
    /\ UNCHANGED readiness

UploadStep(r) ==
    \/ Upload(r) \/ Probe(r) \/ ProbeReturns(r) \/ Copy(r) \/ CopyReturns(r)

RunStep(r) ==
    /\ RunAssigns(r) \/ RunTerminates(r)
    /\ UNCHANGED rcloneVars

-----------------------------------------------------------------------------
\* An upload that reports success is one whose rclone was probed and, reaped and
\* not killed, has said that all was copied, however the upload was cancelled or
\* ran into its deadline meanwhile.
OkMeansCopied ==
    \A r \in Runs : outcome[r] = "ok" =>
        readiness # "unprobed" /\ child[r] = "reaped" /\ code[r] = "zero"
=============================================================================
