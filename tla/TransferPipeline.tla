--------------------------- MODULE TransferPipeline ---------------------------
(***************************************************************************)
(* The use-case coroutines MirrorUrl::execute and LeechUrl::execute: one   *)
(* coroutine per task, which polls a downloader, hands finished files to a *)
(* bounded pool of detached upload coroutines, and drives the Task         *)
(* aggregate and its database row to a terminal state.                     *)
(*                                                                         *)
(* The two classes are one machine; they differ in one branch (an empty    *)
(* upload_directory result fails a leech and completes a mirror), which    *)
(* kind[t] selects.                                                        *)
(*                                                                         *)
(* pc[t] names the await at which the coroutine of t is suspended: an      *)
(* action is the code from one co_await to the next, and everything else   *)
(* in the process (uploads, commands, other tasks) may run in between,     *)
(* because the executor's thread pool runs coroutines in parallel.         *)
(***************************************************************************)
EXTENDS Integers, FiniteSets, TaskState

CONSTANTS Tasks,      \* the TaskIds of the requests that are made
          NumFiles,   \* how many files a download produces
          PoolSize,   \* upload_pool_size_
          Backends,   \* which downloaders requests may name
          Kinds,      \* which use cases run: "mirror", "leech"
          Faults      \* which collaborators may fail, see FaultKinds

\* "save": the task repository returns errors; "rpc": the downloader's calls
\* fail or time out, and downloads break; "remove": DownloaderInterface::remove
\* fails; "limit": qBittorrent pauses a torrent that reached its seeding limit
\* (max_ratio_act in push_preferences); "upload": uploads fail; "throw": an
\* upload ends with an exception instead of a Result.
FaultKinds == {"save", "rpc", "remove", "limit", "upload", "throw"}

\* "port" is a downloader that does not pipeline but fills DownloadStatus.files
\* as the interface says, like the fakes of the unit tests.
BackendKinds == {"aria2", "qbittorrent", "port"}

ASSUME ConstantsAssumption ==
    /\ NumFiles \in Nat \ {0}
    /\ PoolSize \in Nat \ {0}
    /\ Backends \subseteq BackendKinds
    /\ Kinds \subseteq {"mirror", "leech"}
    /\ Faults \subseteq FaultKinds

\* The paths of DownloadStatus.files, in the order the downloader lists them.
Files == 1..NumFiles

VARIABLES
    pc,        \* where the use-case coroutine is suspended
    kind,      \* TaskMetadata.kind
    via,       \* the downloader the request names
    mem,       \* state_ of the coroutine's own Task aggregate
    bound,     \* attach_downloader was called on that aggregate
    after,     \* what the coroutine does once drain_uploads returns
    dlDone,    \* download_complete
    trans,     \* transitioned_to_uploading
    seen,      \* final_status.files
    idx,       \* position of the pipelining loop in final_status.files
    upload,    \* what became of the upload coroutine of each file
    inFlight,  \* PipelineState::in_flight
    completed, \* PipelineState::completed
    failed,    \* PipelineState::failed
    sent,      \* how often each file reached the destination (ghost)
    rowState,  \* state column of the row of tasks, "absent" when there is none
    rowBound,  \* that row has a downloader_id
    registry,  \* keys of ActiveTaskRegistry::map_
    flag,      \* the registered cancellation flag
    dl,        \* state of the download at the backend
    listed,    \* the backend knows the files of the download
    landed     \* files that are complete on disk

coroutine == <<pc, kind, via, mem, bound, after, dlDone, trans, seen, idx>>
pool      == <<upload, inFlight, completed, failed, sent>>
table     == <<rowState, rowBound>>
active    == <<registry, flag>>
backend   == <<dl, listed, landed>>
transferVars == <<coroutine, pool, table, active, backend>>

UploadStates == {"none",        \* not queued
                 "running",     \* spawned
                 "cancelling",  \* spawned, its cancellation signal emitted
                 "lost",        \* ended without updating PipelineState
                 "ok", "failed"}

\* Uploads that PipelineState still counts in in_flight.
Uncounted(t) == {f \in Files : upload[t][f] \in {"running", "cancelling", "lost"}}

\* Uploads whose coroutine may still move bytes.
Live(t) == {f \in Files : upload[t][f] \in {"running", "cancelling"}}

\* A download that keeps the backend busy: fetching, paused before completion,
\* seeding, or paused while seeding (qBittorrent's pausedUP).
Running == {"active", "paused", "seeding", "halted"}
DownloadStates == Running \union {"none", "complete", "error", "removed"}

AfterPersist == [persistDownloading |-> "addUri",
                 persistAttach      |-> "check",
                 persistUploading   |-> "spawn",
                 persistFallback    |-> "editUploading",
                 persistCompleted   |-> "removeCompleted",
                 persistCancelled   |-> "edit",
                 persistFailed      |-> "edit"]

\* A fail_task that forgets to persist.
AfterDrainUnsaved == [cancel     |-> "removeCancelled",
                      fail       |-> "edit",
                      failUpload |-> "removeFailed"]

AfterDrain == [cancel     |-> "removeCancelled",
               fail       |-> "persistFailed",
               failUpload |-> "removeFailed"]

PersistPoints == {"persistDownloading", "persistAttach", "persistUploading",
                  "persistFallback", "persistCompleted", "persistCancelled",
                  "persistFailed"}

Locations == PersistPoints \union
             {"idle", "saveQueued", "register", "addUri", "check", "status",
              "pipeline", "spawn", "terminate", "drain", "removeCancelled",
              "removeFailed", "editUploading", "uploadAll", "removeCompleted",
              "edit", "returned", "crashed"}

\* Where no coroutine of the task exists.
Gone == {"returned", "crashed"}

TypeOK ==
    /\ pc \in [Tasks -> Locations]
    /\ kind \in [Tasks -> {"mirror", "leech"}]
    /\ via \in [Tasks -> BackendKinds]
    /\ mem \in [Tasks -> TaskStates]
    /\ bound \in [Tasks -> BOOLEAN]
    /\ after \in [Tasks -> {"cancel", "fail", "failUpload"}]
    /\ dlDone \in [Tasks -> BOOLEAN]
    /\ trans \in [Tasks -> BOOLEAN]
    /\ seen \in [Tasks -> SUBSET Files]
    /\ idx \in [Tasks -> 1..(NumFiles + 1)]
    /\ upload \in [Tasks -> [Files -> UploadStates]]
    /\ inFlight \in [Tasks -> Nat]
    /\ completed \in [Tasks -> Nat]
    /\ failed \in [Tasks -> Nat]
    /\ sent \in [Tasks -> [Files -> Nat]]
    /\ rowState \in [Tasks -> TaskStates \union {"absent"}]
    /\ rowBound \in [Tasks -> BOOLEAN]
    /\ registry \in SUBSET Tasks
    /\ flag \in [Tasks -> BOOLEAN]
    /\ dl \in [Tasks -> DownloadStates]
    /\ listed \in [Tasks -> BOOLEAN]
    /\ landed \in [Tasks -> SUBSET Files]

\* kind and via are set by the request; their initial value is never read.
TransferInit ==
    /\ pc = [t \in Tasks |-> "idle"]
    /\ kind = [t \in Tasks |-> "mirror"]
    /\ via = [t \in Tasks |-> "aria2"]
    /\ mem = [t \in Tasks |-> "Queued"]
    /\ bound = [t \in Tasks |-> FALSE]
    /\ after = [t \in Tasks |-> "fail"]
    /\ dlDone = [t \in Tasks |-> FALSE]
    /\ trans = [t \in Tasks |-> FALSE]
    /\ seen = [t \in Tasks |-> {}]
    /\ idx = [t \in Tasks |-> 1]
    /\ upload = [t \in Tasks |-> [f \in Files |-> "none"]]
    /\ inFlight = [t \in Tasks |-> 0]
    /\ completed = [t \in Tasks |-> 0]
    /\ failed = [t \in Tasks |-> 0]
    /\ sent = [t \in Tasks |-> [f \in Files |-> 0]]
    /\ rowState = [t \in Tasks |-> "absent"]
    /\ rowBound = [t \in Tasks |-> FALSE]
    /\ registry = {}
    /\ flag = [t \in Tasks |-> FALSE]
    /\ dl = [t \in Tasks |-> "none"]
    /\ listed = [t \in Tasks |-> FALSE]
    /\ landed = [t \in Tasks |-> {}]

-----------------------------------------------------------------------------
(***************************************************************************)
(* Pieces the actions below are built from.                                *)
(***************************************************************************)

Goto(t, l) == pc' = [pc EXCEPT ![t] = l]

\* fail_task up to its first await; persisting and editing follow.
Fail(t) ==
    /\ mem' = [mem EXCEPT ![t] = MarkFailed(@)]
    /\ Goto(t, "persistFailed")

\* A transition of the aggregate yields state s: go on at l, or, when the
\* transition was refused, call fail_task.
Transition(t, s, l) ==
    /\ mem' = [mem EXCEPT ![t] = IF s = mem[t] THEN MarkFailed(s) ELSE s]
    /\ Goto(t, IF s = mem[t] THEN "persistFailed" ELSE l)

CancelAllUploads(t) ==
    upload' = [upload EXCEPT ![t] = [f \in Files |->
                  IF @[f] = "running" THEN "cancelling" ELSE @[f]]]

\* An early exit that does not wait for the uploads it cancelled.
TeardownWithoutDrain(t, next) ==
    /\ CancelAllUploads(t)
    /\ after' = [after EXCEPT ![t] = next]
    /\ mem' = [mem EXCEPT ![t] = IF next = "fail" THEN MarkFailed(@) ELSE @]
    /\ Goto(t, AfterDrain[next])

\* cancel_all_uploads(); co_await drain_uploads(); on the way to `next`
Teardown(t, next) ==
    /\ CancelAllUploads(t)
    /\ after' = [after EXCEPT ![t] = next]
    /\ Goto(t, "drain")
    /\ UNCHANGED mem

\* The file list an adapter's to_status() builds.  aria2 lists every path of
\* the download as soon as it knows them; qBittorrent never fills the field.
StatusFiles(t) ==
    IF listed[t] /\ via[t] # "qbittorrent" THEN Files ELSE {}

SupportsPipelining(t) == via[t] = "aria2"

\* DownloaderInterface::remove at the backend.  A stopped entry may be refused;
\* files stay when aria2 cannot name them any more or unlinking fails.
BackendRemove(t, deleteFiles) ==
    \/ /\ dl[t] \in Running \union {"complete"}
       /\ dl' = [dl EXCEPT ![t] = "removed"]
       /\ \/ deleteFiles /\ landed' = [landed EXCEPT ![t] = {}]
          \/ UNCHANGED landed
       /\ UNCHANGED listed
    \/ /\ dl[t] \notin Running \/ "remove" \in Faults
       /\ UNCHANGED backend

-----------------------------------------------------------------------------
(***************************************************************************)
(* From the request to the poll loop.                                      *)
(***************************************************************************)

\* Checks of the request, user settings, the "Queued" status message; any of
\* them may end the use case before the task exists.
Begin(t) ==
    /\ pc[t] = "idle"
    /\ \E k \in Kinds, b \in Backends :
          /\ kind' = [kind EXCEPT ![t] = k]
          /\ via' = [via EXCEPT ![t] = b]
    /\ \E l \in {"saveQueued", "returned"} : Goto(t, l)
    /\ UNCHANGED <<mem, bound, after, dlDone, trans, seen, idx>>
    /\ UNCHANGED <<pool, table, active, backend>>

\* SqliteTaskRepository::save: INSERT OR REPLACE of every column.
SaveTask(t) ==
    /\ rowState' = [rowState EXCEPT ![t] = mem[t]]
    /\ rowBound' = [rowBound EXCEPT ![t] = bound[t]]

\* The first save, the only one whose failure ends the use case.
SaveQueued(t) ==
    /\ pc[t] = "saveQueued"
    /\ SaveTask(t)
    /\ Goto(t, "register")
    /\ UNCHANGED <<kind, via, mem, bound, after, dlDone, trans, seen, idx>>
    /\ UNCHANGED <<pool, active, backend>>

SaveQueuedFails(t) ==
    /\ pc[t] = "saveQueued"
    /\ "save" \in Faults
    /\ Goto(t, "returned")
    /\ UNCHANGED <<kind, via, mem, bound, after, dlDone, trans, seen, idx>>
    /\ UNCHANGED <<pool, table, active, backend>>

\* ActiveTaskGuard's constructor, then start_download.  The row is already
\* visible to commands when this runs.
Register(t) ==
    /\ pc[t] = "register"
    /\ registry' = registry \union {t}
    /\ Transition(t, StartDownload(mem[t]), "persistDownloading")
    /\ UNCHANGED <<kind, via, bound, after, dlDone, trans, seen, idx>>
    /\ UNCHANGED <<pool, table, flag, backend>>

\* persist_best_effort: a save whose error is only logged.
Persist(t) ==
    /\ pc[t] \in PersistPoints
    /\ SaveTask(t) \/ ("save" \in Faults /\ UNCHANGED table)
    /\ Goto(t, AfterPersist[pc[t]])
    /\ UNCHANGED <<kind, via, mem, bound, after, dlDone, trans, seen, idx>>
    /\ UNCHANGED <<pool, active, backend>>

AddUriAccepted(t) ==
    /\ pc[t] = "addUri"
    /\ dl' = [dl EXCEPT ![t] = "active"]
    /\ bound' = [bound EXCEPT ![t] = TRUE]
    /\ Goto(t, "persistAttach")
    /\ UNCHANGED <<kind, via, mem, after, dlDone, trans, seen, idx>>
    /\ UNCHANGED <<pool, table, active, listed, landed>>

\* add_uri returns an error: refused, or accepted and the answer was lost.
AddUriFails(t) ==
    /\ pc[t] = "addUri"
    /\ "rpc" \in Faults
    /\ \E s \in {"none", "active"} : dl' = [dl EXCEPT ![t] = s]
    /\ Fail(t)
    /\ UNCHANGED <<kind, via, bound, after, dlDone, trans, seen, idx>>
    /\ UNCHANGED <<pool, table, active, listed, landed>>

-----------------------------------------------------------------------------
(***************************************************************************)
(* The poll loop.                                                          *)
(***************************************************************************)

\* Top of the loop, the only place where the cancellation flag is read.
ObserveCancel(t) ==
    /\ pc[t] = "check"
    /\ flag[t]
    /\ Teardown(t, "cancel")
    /\ UNCHANGED <<kind, via, bound, dlDone, trans, seen, idx>>
    /\ UNCHANGED <<inFlight, completed, failed, sent, table, active, backend>>

\* A loop that stops looking at the flag once the download is complete.
PollAgainDeaf(t) ==
    /\ pc[t] = "check"
    /\ ~flag[t] \/ dlDone[t]
    /\ Goto(t, IF dlDone[t] THEN "terminate" ELSE "status")
    /\ UNCHANGED <<kind, via, mem, bound, after, dlDone, trans, seen, idx>>
    /\ UNCHANGED <<pool, table, active, backend>>

PollAgain(t) ==
    /\ pc[t] = "check"
    /\ ~flag[t]
    /\ Goto(t, IF dlDone[t] THEN "terminate" ELSE "status")
    /\ UNCHANGED <<kind, via, mem, bound, after, dlDone, trans, seen, idx>>
    /\ UNCHANGED <<pool, table, active, backend>>

\* A loop that waits for Complete, which a torrent never reports.
StatusReplyNoSeeding(t) ==
    /\ pc[t] = "status"
    /\ dl[t] \in Running \union {"complete"}
    /\ dlDone' = [dlDone EXCEPT ![t] = dl[t] = "complete"]
    /\ seen' = [seen EXCEPT ![t] = StatusFiles(t)]
    /\ idx' = [idx EXCEPT ![t] = 1]
    /\ Goto(t, IF SupportsPipelining(t) THEN "pipeline" ELSE "terminate")
    /\ UNCHANGED <<kind, via, mem, bound, after, trans>>
    /\ UNCHANGED <<pool, table, active, backend>>

\* A status answer with the download alive or finished.  parse_state maps a
\* seeding torrent to Seeding and one that is paused while seeding to Paused.
StatusReply(t) ==
    /\ pc[t] = "status"
    /\ dl[t] \in Running \union {"complete"}
    /\ dlDone' = [dlDone EXCEPT ![t] = dl[t] \in {"complete", "seeding"}]
    /\ seen' = [seen EXCEPT ![t] = StatusFiles(t)]
    /\ idx' = [idx EXCEPT ![t] = 1]
    /\ Goto(t, IF SupportsPipelining(t) THEN "pipeline" ELSE "terminate")
    /\ UNCHANGED <<kind, via, mem, bound, after, trans>>
    /\ UNCHANGED <<pool, table, active, backend>>

\* The status call fails or times out, or reports Error or Removed.
StatusBad(t) ==
    /\ pc[t] = "status"
    /\ dl[t] \in {"error", "removed"} \/ "rpc" \in Faults
    /\ Teardown(t, "fail")
    /\ UNCHANGED <<kind, via, bound, dlDone, trans, seen, idx>>
    /\ UNCHANGED <<inFlight, completed, failed, sent, table, active, backend>>

\* A queued set that forgets a file when its upload ends.
QueuedWhileRunning(t, f) == upload[t][f] \in {"running", "cancelling"}

Queued(t, f) == upload[t][f] # "none"

CanSpawnMore(t) == inFlight[t] < PoolSize

\* spawn_upload: nothing happens when the path was queued before.
SpawnUpload(t, f) ==
    IF Queued(t, f)
      THEN UNCHANGED <<upload, inFlight>>
      ELSE /\ upload' = [upload EXCEPT ![t][f] = "running"]
           /\ inFlight' = [inFlight EXCEPT ![t] = @ + 1]

AtEnd(t) == idx[t] > NumFiles

\* The loop over final_status.files ends: at the end of the list or because
\* the pool is full.  Rendering progress changes nothing here.
PipelineEnd(t) ==
    /\ pc[t] = "pipeline"
    /\ AtEnd(t) \/ (idx[t] \in seen[t] /\ ~CanSpawnMore(t))
    /\ Goto(t, "terminate")
    /\ UNCHANGED <<kind, via, mem, bound, after, dlDone, trans, seen, idx>>
    /\ UNCHANGED <<pool, table, active, backend>>

\* A file that is not in the list or was queued in an earlier round.
PipelineSkip(t) ==
    /\ pc[t] = "pipeline"
    /\ ~AtEnd(t)
    /\ idx[t] \notin seen[t] \/ (CanSpawnMore(t) /\ Queued(t, idx[t]))
    /\ idx' = [idx EXCEPT ![t] = @ + 1]
    /\ UNCHANGED <<pc, kind, via, mem, bound, after, dlDone, trans, seen>>
    /\ UNCHANGED <<pool, table, active, backend>>

NewFile(t) ==
    /\ pc[t] = "pipeline"
    /\ ~AtEnd(t)
    /\ idx[t] \in seen[t] /\ CanSpawnMore(t) /\ ~Queued(t, idx[t])

\* The first file moves the task to Uploading, which is saved before the
\* upload is spawned.
PipelineFirst(t) ==
    /\ NewFile(t)
    /\ ~trans[t] /\ BeginUpload(mem[t]) # mem[t]
    /\ mem' = [mem EXCEPT ![t] = BeginUpload(@)]
    /\ trans' = [trans EXCEPT ![t] = TRUE]
    /\ Goto(t, "persistUploading")
    /\ UNCHANGED <<kind, via, bound, after, dlDone, seen, idx>>
    /\ UNCHANGED <<pool, table, active, backend>>

\* Any other file is spawned at once.
PipelineNext(t) ==
    /\ NewFile(t)
    /\ trans[t] \/ BeginUpload(mem[t]) = mem[t]
    /\ Goto(t, "spawn")
    /\ UNCHANGED <<kind, via, mem, bound, after, dlDone, trans, seen, idx>>
    /\ UNCHANGED <<pool, table, active, backend>>

PipelineSpawn(t) ==
    /\ pc[t] = "spawn"
    /\ SpawnUpload(t, idx[t])
    /\ idx' = [idx EXCEPT ![t] = @ + 1]
    /\ Goto(t, "pipeline")
    /\ UNCHANGED <<kind, via, mem, bound, after, dlDone, trans, seen>>
    /\ UNCHANGED <<completed, failed, sent, table, active, backend>>

\* The last part of execute: mark_completed, after a begin_upload that is
\* refused, and ignored, on the paths that made that transition already.
Finish(t) ==
    LET s == IF trans[t] THEN mem[t] ELSE BeginUpload(mem[t])
        refused == MarkCompleted(s) = s
    IN  /\ mem' = [mem EXCEPT ![t] =
                      IF refused THEN MarkFailed(s) ELSE MarkCompleted(s)]
        /\ Goto(t, IF refused THEN "persistFailed" ELSE "persistCompleted")

\* Under the lock: a failed upload ends the task.
TerminateFailed(t) ==
    /\ pc[t] = "terminate"
    /\ failed[t] > 0
    /\ Teardown(t, "failUpload")
    /\ UNCHANGED <<kind, via, bound, dlDone, trans, seen, idx>>
    /\ UNCHANGED <<inFlight, completed, failed, sent, table, active, backend>>

\* A loop that is left although an upload failed.
LeaveUploadedBlind(t) ==
    /\ pc[t] = "terminate"
    /\ dlDone[t] /\ inFlight[t] = 0 /\ completed[t] > 0
    /\ Finish(t)
    /\ UNCHANGED <<kind, via, bound, after, dlDone, trans, seen, idx>>
    /\ UNCHANGED <<pool, table, active, backend>>

\* Download complete and nothing in flight: leave the loop.
LeaveUploaded(t) ==
    /\ pc[t] = "terminate"
    /\ failed[t] = 0 /\ dlDone[t] /\ inFlight[t] = 0 /\ completed[t] > 0
    /\ Finish(t)
    /\ UNCHANGED <<kind, via, bound, after, dlDone, trans, seen, idx>>
    /\ UNCHANGED <<pool, table, active, backend>>

\* A one-shot path that starts without begin_upload.
LeaveFallbackUnmarked(t) ==
    /\ pc[t] = "terminate"
    /\ failed[t] = 0 /\ dlDone[t] /\ inFlight[t] = 0 /\ completed[t] = 0
    /\ Goto(t, "persistFallback")
    /\ UNCHANGED <<kind, via, mem, bound, after, dlDone, trans, seen, idx>>
    /\ UNCHANGED <<pool, table, active, backend>>

\* The same without a single completed upload: the one-shot path begins.
LeaveFallback(t) ==
    /\ pc[t] = "terminate"
    /\ failed[t] = 0 /\ dlDone[t] /\ inFlight[t] = 0 /\ completed[t] = 0
    /\ Transition(t, BeginUpload(mem[t]), "persistFallback")
    /\ UNCHANGED <<kind, via, bound, after, dlDone, trans, seen, idx>>
    /\ UNCHANGED <<pool, table, active, backend>>

\* A loop that reads the cancellation flag only once, before it starts.
TickUnchecked(t) ==
    /\ pc[t] = "terminate"
    /\ failed[t] = 0 /\ ~(dlDone[t] /\ inFlight[t] = 0)
    /\ IF dlDone[t] THEN UNCHANGED pc ELSE Goto(t, "status")
    /\ UNCHANGED <<kind, via, mem, bound, after, dlDone, trans, seen, idx>>
    /\ UNCHANGED <<pool, table, active, backend>>

\* Otherwise wait for the timer and go round again.
Tick(t) ==
    /\ pc[t] = "terminate"
    /\ failed[t] = 0 /\ ~(dlDone[t] /\ inFlight[t] = 0)
    /\ Goto(t, "check")
    /\ UNCHANGED <<kind, via, mem, bound, after, dlDone, trans, seen, idx>>
    /\ UNCHANGED <<pool, table, active, backend>>

\* drain_uploads returns.
Drained(t) ==
    /\ pc[t] = "drain"
    /\ inFlight[t] = 0
    /\ Goto(t, AfterDrain[after[t]])
    /\ mem' = [mem EXCEPT ![t] = IF after[t] = "fail" THEN MarkFailed(@) ELSE @]
    /\ UNCHANGED <<kind, via, bound, after, dlDone, trans, seen, idx>>
    /\ UNCHANGED <<pool, table, active, backend>>

-----------------------------------------------------------------------------
(***************************************************************************)
(* The one-shot upload and the ways out.                                   *)
(***************************************************************************)

\* The "Uploading" edit returns; the one-shot upload starts.
EditUploading(t) ==
    /\ pc[t] = "editUploading"
    /\ seen[t] # {}
    /\ Goto(t, "uploadAll")
    /\ UNCHANGED <<kind, via, mem, bound, after, dlDone, trans, seen, idx>>
    /\ UNCHANGED <<pool, table, active, backend>>

\* Without a file list there is nothing to send.
NoProducedFiles(t) ==
    /\ pc[t] = "editUploading"
    /\ seen[t] = {}
    /\ Fail(t)
    /\ UNCHANGED <<kind, via, bound, after, dlDone, trans, seen, idx>>
    /\ UNCHANGED <<pool, table, active, backend>>

\* upload_directory(save_path), or upload_file of the first file when the
\* status has no save_path.
UploadAllOk(t) ==
    /\ pc[t] = "uploadAll"
    /\ \E S \in {Files, {1}} :
          sent' = [sent EXCEPT ![t] = [f \in Files |->
                      IF f \in S THEN @[f] + 1 ELSE @[f]]]
    /\ Finish(t)
    /\ UNCHANGED <<kind, via, bound, after, dlDone, trans, seen, idx>>
    /\ UNCHANGED <<upload, inFlight, completed, failed, table, active, backend>>

\* upload_directory finds nothing to send, which MirrorUrl takes for success.
UploadAllEmpty(t) ==
    /\ pc[t] = "uploadAll"
    /\ "upload" \in Faults
    /\ kind[t] = "mirror"
    /\ Finish(t)
    /\ UNCHANGED <<kind, via, bound, after, dlDone, trans, seen, idx>>
    /\ UNCHANGED <<pool, table, active, backend>>

\* The upload fails; LeechUrl treats an empty result the same way.
UploadAllFails(t) ==
    /\ pc[t] = "uploadAll"
    /\ "upload" \in Faults
    /\ Fail(t)
    /\ UNCHANGED <<kind, via, bound, after, dlDone, trans, seen, idx>>
    /\ UNCHANGED <<pool, table, active, backend>>

\* A cancelled task that keeps its download.
RemoveCancelledSkipped(t) ==
    /\ pc[t] = "removeCancelled"
    /\ mem' = [mem EXCEPT ![t] = MarkCancelled(@)]
    /\ Goto(t, "persistCancelled")
    /\ UNCHANGED <<kind, via, bound, after, dlDone, trans, seen, idx>>
    /\ UNCHANGED <<pool, table, active, backend>>

\* downloader.remove(gid, true) on the cancelled exit, then mark_cancelled.
RemoveCancelled(t) ==
    /\ pc[t] = "removeCancelled"
    /\ BackendRemove(t, TRUE)
    /\ mem' = [mem EXCEPT ![t] = MarkCancelled(@)]
    /\ Goto(t, "persistCancelled")
    /\ UNCHANGED <<kind, via, bound, after, dlDone, trans, seen, idx>>
    /\ UNCHANGED <<pool, table, active>>

\* downloader.remove(gid, false) after a failed upload, then fail_task.
RemoveFailed(t) ==
    /\ pc[t] = "removeFailed"
    /\ BackendRemove(t, FALSE)
    /\ Fail(t)
    /\ UNCHANGED <<kind, via, bound, after, dlDone, trans, seen, idx>>
    /\ UNCHANGED <<pool, table, active>>

\* downloader.remove(gid, false) of a completed task.
RemoveCompleted(t) ==
    /\ pc[t] = "removeCompleted"
    /\ BackendRemove(t, FALSE)
    /\ Goto(t, "edit")
    /\ UNCHANGED <<kind, via, mem, bound, after, dlDone, trans, seen, idx>>
    /\ UNCHANGED <<pool, table, active>>

\* The last edit of the status message; then the frame is destroyed and the
\* guard unregisters the task.
Return(t) ==
    /\ pc[t] = "edit"
    /\ Goto(t, "returned")
    /\ registry' = registry \ {t}
    /\ UNCHANGED <<kind, via, mem, bound, after, dlDone, trans, seen, idx>>
    /\ UNCHANGED <<pool, table, flag, backend>>

CoroutineStep(t) ==
    \/ SaveQueued(t) \/ SaveQueuedFails(t) \/ Register(t) \/ Persist(t)
    \/ AddUriAccepted(t) \/ AddUriFails(t)
    \/ ObserveCancel(t) \/ PollAgain(t) \/ StatusReply(t) \/ StatusBad(t)
    \/ PipelineEnd(t) \/ PipelineSkip(t) \/ PipelineFirst(t)
    \/ PipelineNext(t) \/ PipelineSpawn(t)
    \/ TerminateFailed(t) \/ LeaveUploaded(t) \/ LeaveFallback(t) \/ Tick(t)
    \/ Drained(t) \/ EditUploading(t) \/ NoProducedFiles(t)
    \/ UploadAllOk(t) \/ UploadAllEmpty(t) \/ UploadAllFails(t)
    \/ RemoveCancelled(t) \/ RemoveFailed(t) \/ RemoveCompleted(t) \/ Return(t)

-----------------------------------------------------------------------------
(***************************************************************************)
(* The spawned upload coroutines.                                          *)
(***************************************************************************)

UploadSucceeds(t, f) ==
    /\ f \in Live(t)
    /\ upload' = [upload EXCEPT ![t][f] = "ok"]
    /\ sent' = [sent EXCEPT ![t][f] = @ + 1]
    /\ inFlight' = [inFlight EXCEPT ![t] = @ - 1]
    /\ completed' = [completed EXCEPT ![t] = @ + 1]
    /\ UNCHANGED <<failed, coroutine, table, active, backend>>

\* An upload that fails without giving its pool slot back.
UploadFailsKeepsSlot(t, f) ==
    /\ f \in Live(t)
    /\ upload[t][f] = "cancelling" \/ "upload" \in Faults
    /\ upload' = [upload EXCEPT ![t][f] = "failed"]
    /\ failed' = [failed EXCEPT ![t] = @ + 1]
    /\ UNCHANGED <<inFlight, completed, sent, coroutine, table, active, backend>>

UploadFails(t, f) ==
    /\ f \in Live(t)
    /\ upload[t][f] = "cancelling" \/ "upload" \in Faults
    /\ upload' = [upload EXCEPT ![t][f] = "failed"]
    /\ inFlight' = [inFlight EXCEPT ![t] = @ - 1]
    /\ failed' = [failed EXCEPT ![t] = @ + 1]
    /\ UNCHANGED <<completed, sent, coroutine, table, active, backend>>

\* upload_file leaves by an exception, as the next co_await of a cancelled
\* coroutine does: the code that would have updated PipelineState is never reached.
UploadThrows(t, f) ==
    /\ f \in Live(t)
    /\ "throw" \in Faults
    /\ upload' = [upload EXCEPT ![t][f] = "lost"]
    /\ UNCHANGED <<inFlight, completed, failed, sent>>
    /\ UNCHANGED <<coroutine, table, active, backend>>

UploadStep(t, f) ==
    UploadSucceeds(t, f) \/ UploadFails(t, f) \/ UploadThrows(t, f)

-----------------------------------------------------------------------------
(***************************************************************************)
(* The download at the backend.                                            *)
(***************************************************************************)

DownloadListed(t) ==
    /\ dl[t] = "active" /\ ~listed[t]
    /\ listed' = [listed EXCEPT ![t] = TRUE]
    /\ UNCHANGED <<dl, landed, coroutine, pool, table, active>>

DownloadLands(t, f) ==
    /\ dl[t] = "active" /\ listed[t]
    /\ f \notin landed[t]
    /\ landed' = [landed EXCEPT ![t] = @ \union {f}]
    /\ UNCHANGED <<dl, listed, coroutine, pool, table, active>>

DownloadFinishes(t) ==
    /\ dl[t] = "active" /\ landed[t] = Files
    /\ dl' = [dl EXCEPT ![t] =
                 IF via[t] = "qbittorrent" THEN "seeding" ELSE "complete"]
    /\ UNCHANGED <<listed, landed, coroutine, pool, table, active>>

\* The backend gives up, or someone removes the download behind the bot.
DownloadBreaks(t) ==
    /\ dl[t] \in {"active", "paused"}
    /\ "rpc" \in Faults
    /\ \E s \in {"error", "removed"} : dl' = [dl EXCEPT ![t] = s]
    /\ UNCHANGED <<listed, landed, coroutine, pool, table, active>>

\* max_ratio_act = 0: a torrent that has seeded enough is paused.
DownloadHalts(t) ==
    /\ dl[t] = "seeding"
    /\ "limit" \in Faults
    /\ dl' = [dl EXCEPT ![t] = "halted"]
    /\ UNCHANGED <<listed, landed, coroutine, pool, table, active>>

DownloadProgress(t) ==
    \/ DownloadListed(t)
    \/ \E f \in Files : DownloadLands(t, f)
    \/ DownloadFinishes(t)

TransferStep(t) ==
    \/ Begin(t)
    \/ CoroutineStep(t)
    \/ \E f \in Files : UploadStep(t, f)
    \/ DownloadProgress(t)
    \/ DownloadBreaks(t)
    \/ DownloadHalts(t)
=============================================================================
