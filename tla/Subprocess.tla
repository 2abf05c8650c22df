------------------------------ MODULE Subprocess ------------------------------
(***************************************************************************)
(* Subprocess::run() on POSIX: a coroutine that polls, a thread of its own *)
(* for each child that spawns, drains and reaps it, the child, and the     *)
(* thread that cancels the coroutine.  What a child writes is left out.    *)
(* So is SIGTERM, which makes a child exit or is ignored by it.            *)
(*                                                                         *)
(* Once a coroutine has been cancelled its next co_await of an operation   *)
(* throws.  run() holds a std::thread then that nobody has joined, so      *)
(* unwinding it ends in std::terminate.                                    *)
(***************************************************************************)
EXTENDS Naturals, FiniteSets

CONSTANTS Runs  \* coroutines that run a child, one at a time each

VARIABLES
    cancelled,  \* those whose cancellation was asked for
    rp,         \* where run() is
    wp,         \* where its worker thread is
    child,      \* the child process,
    code,       \* and how it exited
    pid,        \* CancelHandle: whether the pid is published,
    flag,       \* and `cancelled'
    aim,        \* a canceller that has read the pid and not sent the signal yet
    timedOut,   \* SubprocessResult::timed_out
    down        \* std::terminate

runVars == <<rp, wp, child, code, pid, flag, aim, timedOut>>
subprocessVars == <<runVars, cancelled, down>>

Codes == {"none", "zero", "failure", "not found"}

SubprocessTypes ==
    /\ cancelled \subseteq Runs
    /\ rp \in [Runs -> {"none", "spawned", "polls"}]
    /\ wp \in [Runs -> {"none", "starts", "forked", "drains", "waits", "grace", "reaped",
                        "finished", "failed", "threw"}]
    /\ child \in [Runs -> {"none", "runs", "zombie", "reaped"}]
    /\ code \in [Runs -> Codes]
    /\ pid \subseteq Runs
    /\ flag \subseteq Runs
    /\ aim \subseteq Runs
    /\ timedOut \subseteq Runs
    /\ down \in BOOLEAN

SubprocessInit ==
    /\ cancelled = {}
    /\ rp = [r \in Runs |-> "none"]
    /\ wp = [r \in Runs |-> "none"]
    /\ child = [r \in Runs |-> "none"]
    /\ code = [r \in Runs |-> "none"]
    /\ pid = {} /\ flag = {} /\ aim = {} /\ timedOut = {}
    /\ down = FALSE

Worker(r, place) == wp' = [wp EXCEPT ![r] = place]

-----------------------------------------------------------------------------
(***************************************************************************)
(* The coroutine.                                                          *)
(***************************************************************************)

\* run(): a CancelHandle is made and the thread started.
RunSpawns(r) ==
    /\ rp[r] = "none"
    /\ rp' = [rp EXCEPT ![r] = "spawned"]
    /\ Worker(r, "starts")
    /\ child' = [child EXCEPT ![r] = "none"]
    /\ code' = [code EXCEPT ![r] = "none"]
    /\ pid' = pid \ {r} /\ flag' = flag \ {r}
    /\ aim' = aim \ {r} /\ timedOut' = timedOut \ {r}
    /\ UNCHANGED <<cancelled, down>>

\* The handler is put into the slot, and the coroutine polls for the thread.
RunAssigns(r) ==
    /\ rp[r] = "spawned"
    /\ rp' = [rp EXCEPT ![r] = "polls"]
    /\ UNCHANGED <<wp, child, code, pid, flag, aim, timedOut, cancelled, down>>

\* worker_done: the thread is at its end, with a result, an error or an exception
\* that it has caught.
Done == {"finished", "failed", "threw"}

\* run() is cancelled while its thread is not done.
Unwinds(r) == rp[r] = "polls" /\ r \in cancelled /\ wp[r] \notin Done

RunTerminates(r) ==
    /\ Unwinds(r)
    /\ down' = TRUE
    /\ UNCHANGED <<runVars, cancelled>>

\* The thread has finished: the slot is cleared and the thread joined.
RunReturns(r) ==
    /\ rp[r] = "polls"
    /\ wp[r] \in Done
    /\ rp' = [rp EXCEPT ![r] = "none"]
    /\ UNCHANGED <<wp, child, code, pid, flag, aim, timedOut, cancelled, down>>

\* The signal of the coroutine is emitted by another thread.  With the handler
\* in the slot this is kill_now(): the flag, the pid read, the signal sent.
EmitCancel(r) ==
    /\ r \notin cancelled
    /\ cancelled' = cancelled \union {r}
    /\ flag' = IF rp[r] = "polls" THEN flag \union {r} ELSE flag
    /\ aim' = IF rp[r] = "polls" /\ r \in pid THEN aim \union {r} ELSE aim
    /\ UNCHANGED <<rp, wp, child, code, pid, timedOut, down>>

\* Between the reaping of the child and here the pid may have become another's.
KillNow(r) ==
    /\ r \in aim
    /\ aim' = aim \ {r}
    /\ UNCHANGED <<rp, wp, child, code, pid, flag, timedOut, cancelled, down>>

-----------------------------------------------------------------------------
(***************************************************************************)
(* spawn_sync(), on the worker thread.                                     *)
(***************************************************************************)
Fork(r) ==
    /\ wp[r] = "starts"
    /\ \/ /\ child' = [child EXCEPT ![r] = "runs"]
          /\ Worker(r, "forked")
       \/ /\ Worker(r, "failed")
          /\ UNCHANGED child
    /\ UNCHANGED <<rp, code, pid, flag, aim, timedOut, cancelled, down>>

\* The pid is published; a cancellation that came before is looked for then, and
\* SIGTERM sent, but the two threads may also miss each other's store.
Publish(r) ==
    /\ wp[r] = "forked"
    /\ pid' = pid \union {r}
    /\ Worker(r, "drains")
    /\ UNCHANGED <<rp, child, code, flag, aim, timedOut, cancelled, down>>

\* Both pipes have come to their end, or poll() failed.
Drained(r) ==
    /\ wp[r] = "drains"
    /\ Worker(r, "waits")
    /\ UNCHANGED <<rp, child, code, pid, flag, aim, timedOut, cancelled, down>>

\* The deadline, while draining or waiting.
Deadline(r) ==
    /\ wp[r] \in {"drains", "waits"}
    /\ timedOut' = timedOut \union {r}
    /\ Worker(r, "grace")
    /\ UNCHANGED <<rp, child, code, pid, flag, aim, cancelled, down>>

\* The flag is seen, while draining or waiting.
SeesFlag(r) ==
    /\ wp[r] \in {"drains", "waits"}
    /\ r \in flag
    /\ Worker(r, "grace")
    /\ UNCHANGED <<rp, child, code, pid, flag, aim, timedOut, cancelled, down>>

\* waitpid(WNOHANG), which cannot fail for a child of its own.
Reap(r) ==
    /\ wp[r] \in {"waits", "grace"}
    /\ child[r] = "zombie"
    /\ child' = [child EXCEPT ![r] = "reaped"]
    /\ Worker(r, "reaped")
    /\ UNCHANGED <<rp, code, pid, flag, aim, timedOut, cancelled, down>>

\* A worker that gives up on a child that ignores SIGTERM.
GiveUp(r) ==
    /\ wp[r] = "grace"
    /\ Worker(r, "reaped")
    /\ UNCHANGED <<rp, child, code, pid, flag, aim, timedOut, cancelled, down>>

\* A worker that goes on waiting for the child.
WaitsOn(r) ==
    /\ wp[r] = "grace"
    /\ child[r] = "zombie"
    /\ child' = [child EXCEPT ![r] = "reaped"]
    /\ Worker(r, "reaped")
    /\ UNCHANGED <<rp, code, pid, flag, aim, timedOut, cancelled, down>>

\* A line handler or an allocation throws while the pipes are drained: what catches
\* it makes an error of it, and leaves the child to itself and its pid published.
DrainThrows(r) ==
    /\ wp[r] = "drains"
    /\ Worker(r, "threw")
    /\ UNCHANGED <<rp, child, code, pid, flag, aim, timedOut, cancelled, down>>

\* Five seconds are over: SIGKILL, and waitpid() until the child is reaped.
GraceOver(r) ==
    /\ wp[r] = "grace"
    /\ code' = [code EXCEPT ![r] = IF child[r] = "runs" THEN "failure" ELSE @]
    /\ child' = [child EXCEPT ![r] = "reaped"]
    /\ Worker(r, "reaped")
    /\ UNCHANGED <<rp, pid, flag, aim, timedOut, cancelled, down>>

\* A pid that is never withdrawn.
DetachKeepsPid(r) ==
    /\ wp[r] = "reaped"
    /\ Worker(r, IF code[r] = "not found" /\ r \notin timedOut THEN "failed" ELSE "finished")
    /\ UNCHANGED <<rp, child, code, pid, flag, aim, timedOut, cancelled, down>>

\* The pid is withdrawn and the exit code read; 127 is taken for a program that
\* was not found.
Detach(r) ==
    /\ wp[r] = "reaped"
    /\ pid' = pid \ {r}
    /\ Worker(r, IF code[r] = "not found" /\ r \notin timedOut THEN "failed" ELSE "finished")
    /\ UNCHANGED <<rp, child, code, flag, aim, timedOut, cancelled, down>>

WorkerStep(r) ==
    \/ Fork(r) \/ Publish(r) \/ Drained(r) \/ Deadline(r) \/ SeesFlag(r)
    \/ DrainThrows(r) \/ Reap(r) \/ GraceOver(r) \/ Detach(r)

\* The child exits by itself or because of SIGTERM, which it may ignore.
ChildExits(r) ==
    /\ child[r] = "runs"
    /\ child' = [child EXCEPT ![r] = "zombie"]
    /\ \E c \in {"zero", "failure", "not found"} : code' = [code EXCEPT ![r] = c]
    /\ UNCHANGED <<rp, wp, pid, flag, aim, timedOut, cancelled, down>>

-----------------------------------------------------------------------------
\* Whatever the child does, and whenever the run is cancelled or times out, a
\* run that is over leaves no child behind, running or as a zombie; except for one
\* whose thread threw after the fork, which nobody reaps.
ChildReaped ==
    \A r \in Runs : wp[r] \in {"finished", "failed"} => child[r] \in {"none", "reaped"}

\* A cancellation that comes when the child has been reaped and the pid withdrawn
\* signals nobody: the pid may be that of another process by then.
LateCancelHarmless ==
    [][\A r \in Runs : r \in aim' \ aim => wp[r] \notin {"finished", "failed"}]_aim
=============================================================================
