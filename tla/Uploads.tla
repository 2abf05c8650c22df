-------------------------------- MODULE Uploads --------------------------------
(***************************************************************************)
(* The two uploaders besides Google Drive: rclone, which runs a child      *)
(* process for each upload, and Telegram, which sends messages.  They have *)
(* no state in common, so a behaviour is about one of them.                *)
(***************************************************************************)
EXTENDS RcloneUploader, TelegramUploader

VARIABLE backend  \* the uploader that tasks ask for

vars == <<backend, subprocessVars, rcloneVars, telegramVars>>

TypeOK ==
    /\ backend \in {"rclone", "telegram"}
    /\ SubprocessTypes
    /\ RcloneTypes
    /\ TelegramTypes

Init ==
    /\ backend \in {"rclone", "telegram"}
    /\ SubprocessInit
    /\ RcloneInit
    /\ TelegramInit

-----------------------------------------------------------------------------
\* A step with the rclone uploader; there is none after std::terminate.
Rclone(A) ==
    /\ backend = "rclone" /\ ~down
    /\ A
    /\ UNCHANGED <<backend, telegramVars>>

Telegram(A) ==
    /\ backend = "telegram"
    /\ A
    /\ UNCHANGED <<backend, subprocessVars, rcloneVars>>

\* The upload of a task, on the thread pool.
Uploader(r) == Rclone(UploadStep(r) \/ RunStep(r))

\* The thread that attends to its child.
Attendant(r) == Rclone(WorkerStep(r) /\ UNCHANGED rcloneVars)

\* /cancel, and the child.
Around(r) == Rclone((EmitCancel(r) \/ KillNow(r) \/ ChildExits(r)) /\ UNCHANGED rcloneVars)

Next ==
    \/ \E r \in Runs : Uploader(r) \/ Attendant(r) \/ Around(r)
    \/ Telegram(MainStep)
    \/ \E w \in Workers : Telegram(PoolStep(w))
    \/ Telegram(TelegramCancel)

\* Threads and coroutines that can go on do so, deadlines come, and a message is
\* accepted or fails, at the latest when the gateway evicts it.  Nobody need cancel,
\* a child need not exit, and the upload of one file of a directory need not end.
Fairness ==
    /\ \A r \in Runs : WF_vars(Uploader(r)) /\ WF_vars(Attendant(r))
    /\ WF_vars(Telegram(MainStep))
    /\ \A w \in Workers : WF_vars(Telegram(~InFile(w) /\ PoolStep(w)))

Spec == Init /\ [][Next]_vars /\ Fairness

-----------------------------------------------------------------------------
\* An upload that reports success, on whatever path and however it was disturbed,
\* was taken over in full: rclone has said that it copied everything, or TDLib has
\* accepted each part and each file, once.  For a directory that supposes that no
\* worker threw and that the walk came to its end.
OkMeansAccepted == OkMeansCopied /\ AllAccepted

\* An upload that is over has left nothing behind: no child, running or as a zombie,
\* and no parts on disk.  That leaves out a child whose thread threw after the fork,
\* and the parts that a split has written before it failed.
NothingLeft == ChildReaped /\ PartsRemoved

\* As long as no run() is unwound by a cancellation, which would end the process, an
\* rclone upload ends even when its child neither exits nor minds SIGTERM and keeps
\* the pipes open: the deadline, the grace and SIGKILL see to that.  As long as each
\* file that its workers upload comes to an end, a Telegram upload that waits for
\* them is woken by the last one, on whatever path that leaves, unless it left
\* before the wait began.
UploadEnds ==
    /\ [](\A r \in Runs : ~Unwinds(r)) =>
          \A r \in Runs : up[r] \notin {"idle", "over"} ~> up[r] = "over"
    /\ (\A w \in Workers : []<>~InFile(w)) =>
          (main \in {"joins", "waits"} ~> main = "over" \/ fired = "missed")
=============================================================================
