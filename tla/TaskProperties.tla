---------------------------- MODULE TaskProperties ----------------------------
(***************************************************************************)
(* What the composed specification of TaskCommands is checked against.     *)
(***************************************************************************)
EXTENDS TaskCommands

-----------------------------------------------------------------------------
(***************************************************************************)
(* Properties that hold.                                                   *)
(***************************************************************************)

\* PipelineState::in_flight is exact: it is the number of spawned uploads whose
\* coroutine has not yet reported its result, through failures, cancellation,
\* exceptions and crashes.  drain_uploads and the exit of the poll loop rely
\* on it.
SlotAccounting == \A t \in Tasks : inFlight[t] = Cardinality(Uncounted(t))

\* At most upload_pool_size_ uploads of a task run at a time, although
\* can_spawn_more and spawn_upload take the lock separately and a save is
\* awaited between the two for the first file.
PoolBounded == \A t \in Tasks : Cardinality(Live(t)) <= PoolSize

\* Once the Task aggregate is terminal no detached upload of it is still
\* running: every early exit of execute has drained the pool first.
NoUploadOutlivesTask ==
    \A t \in Tasks : mem[t] \in TerminalStates => Live(t) = {}

\* No file reaches the destination twice, whichever rounds of the poll loop
\* listed it and whether or not the one-shot upload path ran.
SentAtMostOnce == \A t \in Tasks, f \in Files : sent[t][f] <= 1

\* A task that is Completed has no upload that failed or was cut short, and a
\* completed leech delivered something.
CompletedIsClean ==
    \A t \in Tasks : mem[t] = "Completed" =>
        /\ \A f \in Files : upload[t][f] \in {"none", "ok"}
        /\ kind[t] = "leech" => \E f \in Files : sent[t][f] > 0

\* CancelTask removes a download itself only when the use case that was polling
\* it is gone, however old the row it decided on: its remove(gid, true) never
\* deletes files under a live coroutine.
TeardownOwnership ==
    \A c \in Commands : cpc[c] = "remove" => pc[ctask[c]] \in Gone

\* When saves succeed, a use case that returned leaves its verdict in the row;
\* the only other thing a row can say is that a command cancelled it.
RowAgrees ==
    "save" \notin Faults =>
        \A t \in Tasks : pc[t] = "returned" /\ rowState[t] # "absent"
            => rowState[t] \in {mem[t], "Cancelled"}

\* When remove calls succeed, a Cancelled row with a downloader id means that
\* the backend no longer works on the download, whether the use case or a
\* command wrote the row; so does the return of a completed use case.
BackendReleased ==
    "remove" \notin Faults =>
        \A t \in Tasks :
            \/ rowState[t] = "Cancelled" /\ rowBound[t]
            \/ pc[t] = "returned" /\ mem[t] = "Completed"
            => dl[t] \notin Running

\* Commands stay in their chat: a task is signalled or stopped only when a cancel
\* command of its own chat was issued, also through /cancelall, whose list of
\* tasks spans every chat and is older than the rows it then loads.
ChatIsolation ==
    \A t \in Tasks : flag[t] \/ told[t] # {} =>
        \E c \in Commands : /\ cpc[c] # "idle"
                            /\ cop[c] \in {"cancel", "cancel_all"}
                            /\ cchat[c] = ChatOf[t]

\* The aggregate of a use case implements the lifecycle: execute never asks for
\* a transition in an order that skips or repeats one.
MemLifecycle == INSTANCE TaskLifecycle WITH state <- mem
InMemoryLifecycle == MemLifecycle!Spec

\* An upload of the task has ended by an exception.  It stays in in_flight for
\* ever, so neither drain_uploads nor the poll loop comes to its end after that.
UploadThrew(t) == \E f \in Files : upload[t][f] = "lost"

\* The uploads of the tasks come to an end: by a result or an error, their retries or
\* a cancellation, or by an exception.  An uploader that misses the wake-up of its
\* last worker does not, so the statements that need it say so.
UploadsEnd ==
    \A t \in Tasks :
        /\ []<>(pc[t] # "uploadAll")
        /\ \A f \in Files : []<>(f \notin Live(t))

\* A flag that is up when the poll loop looks at it ends in Cancelled: uploads
\* are drained and the download removed first, whatever fails on the way; provided
\* that the uploads end, and none of them by an exception.
CancelHonoured ==
    UploadsEnd =>
        \A t \in Tasks :
            (pc[t] = "check" /\ flag[t])
                ~> (mem[t] = "Cancelled" \/ pc[t] = "crashed" \/ UploadThrew(t))

\* A task whose chat was told "Graceful shutdown signal sent." comes to an end,
\* even if its download never makes progress again; provided that the uploads end,
\* and none of them by an exception.
SignalledTaskEnds ==
    UploadsEnd =>
        \A t \in Tasks :
            ("signalled" \in told[t]) ~> (pc[t] \in Gone \/ UploadThrew(t))

\* A download that can go on does.  The code does not guarantee it, so the
\* statements that need it say so.
DownloadsProgress ==
    \A t \in Tasks :
        WF_vars(DownloadProgress(t) /\ UNCHANGED <<commandVars, told, crashes>>)

\* Paused before the poll loop has seen it complete: by a user, or by qBittorrent
\* when the torrent reached its seeding limit between two polls, which the loop
\* takes for a paused download and polls for ever.
PausedUnseen(t) == ~dlDone[t] /\ dl[t] \in {"paused", "halted"}

\* When downloads make progress and uploads end every task comes to an end, unless its
\* download is paused before the loop has seen it complete, or an upload threw: the loop cannot
\* get stuck between a full pool, files it has skipped, uploads that fail and a
\* download that completed meanwhile, also one that is paused afterwards.
TransferEnds ==
    DownloadsProgress /\ UploadsEnd =>
        \A t \in Tasks :
            (pc[t] # "idle") ~> (pc[t] \in Gone \/ PausedUnseen(t) \/ UploadThrew(t))

-----------------------------------------------------------------------------
(***************************************************************************)
(* Statements of the repository that the code does not meet.               *)
(***************************************************************************)

\* include/cmlb/application/leech_url.hpp:35: "... then forwards every file
\* back to the requesting chat".  A Completed task has sent all of its files.
EveryFileSent ==
    \A t \in Tasks : mem[t] = "Completed" => \A f \in Files : sent[t][f] > 0

\* include/cmlb/domain/task.hpp:22: "Terminal: upload finished successfully."
\* A row that says Completed keeps saying so.
CompletedStays ==
    [][\A t \in Tasks : rowState[t] = "Completed" => rowState'[t] = "Completed"]_vars
=============================================================================
