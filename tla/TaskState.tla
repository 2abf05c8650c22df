------------------------------ MODULE TaskState ------------------------------
(***************************************************************************)
(* The state machine of the Task aggregate (domain/task.cpp).  Each        *)
(* transition of the class is an operator from the current state to the    *)
(* next one.  A transition the class rejects (ErrorCode::InvalidState)     *)
(* leaves the state alone, so Op(s) = s is exactly "the call failed": no   *)
(* successful transition is a self-loop.                                   *)
(***************************************************************************)

TaskStates == {"Queued", "Downloading", "Processing", "Uploading",
               "Completed", "Failed", "Cancelled"}

\* Task::is_terminal
TerminalStates == {"Completed", "Failed", "Cancelled"}

StartDownload(s) == IF s = "Queued" THEN "Downloading" ELSE s

BeginProcessing(s) == IF s = "Downloading" THEN "Processing" ELSE s

BeginUpload(s) == IF s \in {"Downloading", "Processing"} THEN "Uploading" ELSE s

MarkCompleted(s) == IF s = "Uploading" THEN "Completed" ELSE s

MarkFailed(s) == IF s \in TerminalStates THEN s ELSE "Failed"

MarkCancelled(s) == IF s \in TerminalStates THEN s ELSE "Cancelled"

\* The states one transition away from s.
Successors(s) == {StartDownload(s), BeginProcessing(s), BeginUpload(s),
                  MarkCompleted(s), MarkFailed(s), MarkCancelled(s)} \ {s}
=============================================================================
