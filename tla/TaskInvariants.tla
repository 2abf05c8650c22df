---------------------------- MODULE TaskInvariants ----------------------------
(***************************************************************************)
(* The inductive invariants behind the safety properties of                *)
(* TaskProperties.  TLC checks them on small instances, the proof modules  *)
(* show that every step keeps them.                                        *)
(***************************************************************************)
EXTENDS TaskProperties

\* Where detached uploads may be running: from the first spawn_upload to the
\* end of drain_uploads.
Busy == {"check", "status", "pipeline", "persistUploading", "spawn",
         "terminate", "drain"}

\* The two awaits between can_spawn_more() and spawn_upload.
Spawning == {"persistUploading", "spawn"}

\* The one-shot upload, from begin_upload to its result.
OneShot == {"persistFallback", "editUploading", "uploadAll"}

\* Where execute has returned from a one-shot upload, or may have.
Delivered == {"persistCompleted", "removeCompleted", "edit"} \union Gone

\* The aggregate agrees with the place where the coroutine is suspended.
MemoryInv(t) ==
    /\ pc[t] \in {"idle", "saveQueued", "register"} => mem[t] = "Queued" /\ ~trans[t]
    /\ pc[t] \in {"persistDownloading", "addUri", "persistAttach"}
          => mem[t] = "Downloading" /\ ~trans[t]
    /\ pc[t] \in (Busy \ Spawning) \union {"removeCancelled", "removeFailed"}
          => mem[t] = IF trans[t] THEN "Uploading" ELSE "Downloading"
    /\ pc[t] \in Spawning => mem[t] = "Uploading" /\ trans[t]
    /\ pc[t] \in OneShot => mem[t] = "Uploading" /\ ~trans[t]
    /\ pc[t] \in {"persistCompleted", "removeCompleted"} => mem[t] = "Completed"
    /\ pc[t] = "persistCancelled" => mem[t] = "Cancelled"
    /\ pc[t] = "persistFailed" => mem[t] = "Failed"
    /\ pc[t] = "edit" => mem[t] \in TerminalStates

\* The pool: in_flight is exact and bounded, the slot seen by can_spawn_more is
\* still free when spawn_upload takes it, and no upload runs outside Busy.
PoolInv(t) ==
    /\ inFlight[t] = Cardinality(Uncounted(t))
    /\ inFlight[t] <= PoolSize
    /\ pc[t] \in Spawning => /\ idx[t] \in Files
                             /\ inFlight[t] < PoolSize
                             /\ upload[t][idx[t]] = "none"
    /\ pc[t] \notin Busy => Live(t) = {}

\* What was sent: by a pooled upload that ended well, or by the one-shot path.
\* Uploads are only spawned once transitioned_to_uploading is set, and the
\* one-shot path, which needs begin_upload to succeed, never runs after that.
SendInv(t) ==
    /\ failed[t] = 0 => \A f \in Files : upload[t][f] # "failed"
    /\ completed[t] = 0 => \A f \in Files : upload[t][f] # "ok"
    /\ completed[t] > 0 => \E f \in Files : sent[t][f] > 0
    /\ \A f \in Files : sent[t][f] <= 1
    /\ pc[t] \notin Delivered =>
          \A f \in Files : sent[t][f] > 0 => upload[t][f] = "ok"
    /\ ~trans[t] => completed[t] = 0 /\ \A f \in Files : upload[t][f] = "none"
    /\ mem[t] = "Completed" =>
          /\ \A f \in Files : upload[t][f] \in {"none", "ok"}
          /\ kind[t] = "leech" => \E f \in Files : sent[t][f] > 0

TransferInv == \A t \in Tasks : MemoryInv(t) /\ PoolInv(t) /\ SendInv(t)

-----------------------------------------------------------------------------
\* Where the ActiveTaskGuard of the task does not exist.
Unguarded == {"idle", "saveQueued", "register"} \union Gone

\* Where attach_downloader has not been called yet.
Detached == {"idle", "saveQueued", "register", "persistDownloading", "addUri"}

\* Where a command works on a copy of a row.
Holding == {"signal", "remove", "save", "call"}

\* The registry is exactly the set of guarded coroutines, and a downloader id,
\* in memory, in a row or in the copy a command holds, is only seen once the
\* use case has passed attach_downloader.  A command that finds no guard for a
\* task it knows to be bound is therefore late, never early.
OwnershipInv ==
    /\ \A t \in Tasks : t \in registry <=> pc[t] \notin Unguarded
    /\ \A t \in Tasks : bound[t] \/ rowBound[t] => pc[t] \notin Detached
    /\ \A c \in Commands : cbound[c] => pc[ctask[c]] \notin Detached
    /\ \A c \in Commands : cpc[c] = "remove" => cbound[c] /\ pc[ctask[c]] \in Gone

\* Commands only hold rows that exist and were not terminal when loaded; the
\* verdict of a use case that is about to return is in its row already, unless
\* a command cancelled the row.
RowInv ==
    /\ \A t \in Tasks : pc[t] = "idle" => rowState[t] = "absent"
    /\ \A c \in Commands : cpc[c] \in Holding => rowState[ctask[c]] # "absent"
    /\ \A c \in Commands : cstate[c] \notin TerminalStates
    /\ "save" \notin Faults =>
          \A t \in Tasks : pc[t] \in {"removeCompleted", "edit", "returned"}
              => rowState[t] \in {"absent", mem[t], "Cancelled"}

\* Whoever is about to write a bound Cancelled row has removed the download.
ReleaseInv ==
    "remove" \notin Faults =>
        /\ \A t \in Tasks :
              \/ rowState[t] = "Cancelled" /\ rowBound[t]
              \/ mem[t] = "Cancelled"
              \/ pc[t] \in {"edit", "returned"} /\ mem[t] = "Completed"
              => dl[t] \notin Running
        /\ \A c \in Commands :
              cpc[c] = "save" /\ cbound[c] => dl[ctask[c]] \notin Running

\* A command past its checks is a cancel of the chat that owns the task.
ChatInv ==
    /\ \A c \in Commands : cpc[c] \in {"signal", "remove", "save"} =>
          /\ cop[c] \in {"cancel", "cancel_all"}
          /\ cchat[c] = ChatOf[ctask[c]]
    /\ ChatIsolation

CommandInv == OwnershipInv /\ RowInv /\ ReleaseInv /\ ChatInv
=============================================================================
