----------------------------- MODULE TaskCommands -----------------------------
(***************************************************************************)
(* The commands that act on a task another coroutine is working on         *)
(* (CancelTask, PauseTask, ResumeTask), composed with the transfers of     *)
(* TransferPipeline and with a crash of the process.                       *)
(*                                                                         *)
(* A command loads the task's row, and what it does next is decided on     *)
(* that copy: by the time it signals, calls the downloader or saves, the   *)
(* use case may have gone on or returned.                                  *)
(***************************************************************************)
EXTENDS TransferPipeline

CONSTANTS Commands,    \* command invocations, each runs once
          Operations,  \* which of CommandKinds they may be
          Chats,       \* chats that issue commands
          ChatOf,      \* the chat each task belongs to
          MaxCrashes   \* bound on the number of process crashes

CommandKinds == {"cancel", "cancel_all", "pause", "resume"}

ASSUME CommandsAssumption ==
    /\ Operations \subseteq CommandKinds
    /\ ChatOf \in [Tasks -> Chats]
    /\ MaxCrashes \in Nat

VARIABLES
    cpc,      \* where a command is: idle, find, signal, remove, save, call
    cop,      \* what it does
    cchat,    \* the chat it came from
    cwork,    \* tasks it has still to deal with
    ctask,    \* the task it deals with
    cstate,   \* state and downloader binding of the copy it loaded
    cbound,
    told,     \* what chats were told about each task
    crashes   \* process crashes so far

commandVars == <<cpc, cop, cchat, cwork, ctask, cstate, cbound>>
vars == <<transferVars, commandVars, told, crashes>>

Replies == {"signalled",  \* "Graceful shutdown signal sent."
            "stopped"}    \* "Task stopped and marked cancelled."

CommandTypeOK ==
    /\ cpc \in [Commands -> {"idle", "find", "signal", "remove", "save", "call"}]
    /\ cop \in [Commands -> CommandKinds]
    /\ cchat \in [Commands -> Chats]
    /\ cwork \in [Commands -> SUBSET Tasks]
    /\ ctask \in [Commands -> Tasks]
    /\ cstate \in [Commands -> TaskStates]
    /\ cbound \in [Commands -> BOOLEAN]
    /\ told \in [Tasks -> SUBSET Replies]
    /\ crashes \in Nat

\* The type of every variable.
SystemTypeOK == TypeOK /\ CommandTypeOK

CommandInit ==
    /\ cpc = [c \in Commands |-> "idle"]
    /\ cop \in [Commands -> {"cancel"}]
    /\ cchat \in [Commands -> Chats]
    /\ cwork = [c \in Commands |-> {}]
    /\ ctask \in [Commands -> Tasks]
    /\ cstate = [c \in Commands |-> "Queued"]
    /\ cbound = [c \in Commands |-> FALSE]
    /\ told = [t \in Tasks |-> {}]
    /\ crashes = 0

Init == TransferInit /\ CommandInit

-----------------------------------------------------------------------------
\* TaskRepository::incomplete
Incomplete == {t \in Tasks : rowState[t] \notin TerminalStates \union {"absent"}}

\* A command arrives.  /cancelall reads its list of tasks here and keeps those
\* of its own chat; the others name one task.
Request(c) ==
    /\ cpc[c] = "idle"
    /\ \E op \in Operations, chat \in Chats :
          /\ cop' = [cop EXCEPT ![c] = op]
          /\ cchat' = [cchat EXCEPT ![c] = chat]
          /\ \/ /\ op = "cancel_all"
                /\ cwork' = [cwork EXCEPT ![c] =
                                {t \in Incomplete : ChatOf[t] = chat}]
             \/ /\ op # "cancel_all"
                /\ \E t \in Tasks : cwork' = [cwork EXCEPT ![c] = {t}]
    /\ cpc' = [cpc EXCEPT ![c] = "find"]
    /\ UNCHANGED <<ctask, cstate, cbound, told, crashes, transferVars>>

\* Commands that reach into other chats.
AcceptsAnyChat(c, t) ==
    /\ rowState[t] \notin TerminalStates \union {"absent"}
    /\ cop[c] \in {"pause", "resume"} => rowBound[t]

\* What the commands accept: a row of this chat that is not terminal, and a
\* downloader binding for pause and resume.
Accepts(c, t) ==
    /\ rowState[t] \notin TerminalStates \union {"absent"}
    /\ ChatOf[t] = cchat[c]
    /\ cop[c] \in {"pause", "resume"} => rowBound[t]

\* find() succeeds on a task the command accepts.
Find(c) ==
    /\ cpc[c] = "find"
    /\ \E t \in cwork[c] :
          /\ Accepts(c, t)
          /\ cwork' = [cwork EXCEPT ![c] = @ \ {t}]
          /\ ctask' = [ctask EXCEPT ![c] = t]
          /\ cstate' = [cstate EXCEPT ![c] = rowState[t]]
          /\ cbound' = [cbound EXCEPT ![c] = rowBound[t]]
    /\ cpc' = [cpc EXCEPT ![c] =
                  IF cop[c] \in {"pause", "resume"} THEN "call" ELSE "signal"]
    /\ UNCHANGED <<cop, cchat, told, crashes, transferVars>>

\* The command refuses the task, or find() fails.
Refuse(c) ==
    /\ cpc[c] = "find"
    /\ \E t \in cwork[c] :
          /\ ~Accepts(c, t) \/ "save" \in Faults
          /\ cwork' = [cwork EXCEPT ![c] = @ \ {t}]
    /\ UNCHANGED <<cpc, cop, cchat, ctask, cstate, cbound, told, crashes, transferVars>>

\* ActiveTaskRegistry::cancel finds the task: the coroutine owns the teardown.
Signal(c) ==
    /\ cpc[c] = "signal"
    /\ ctask[c] \in registry
    /\ flag' = [flag EXCEPT ![ctask[c]] = TRUE]
    /\ told' = [told EXCEPT ![ctask[c]] = @ \union {"signalled"}]
    /\ cpc' = [cpc EXCEPT ![c] = "find"]
    /\ UNCHANGED <<cop, cchat, cwork, ctask, cstate, cbound, crashes>>
    /\ UNCHANGED <<coroutine, pool, table, registry, backend>>

\* A CancelTask that tears down without asking the registry.
TakeOverBlindly(c) ==
    /\ cpc[c] = "signal"
    /\ cpc' = [cpc EXCEPT ![c] = IF cbound[c] THEN "remove" ELSE "save"]
    /\ UNCHANGED <<cop, cchat, cwork, ctask, cstate, cbound, told, crashes>>
    /\ UNCHANGED transferVars

\* No coroutine is registered: the command tears the task down itself.
TakeOver(c) ==
    /\ cpc[c] = "signal"
    /\ ctask[c] \notin registry
    /\ cpc' = [cpc EXCEPT ![c] = IF cbound[c] THEN "remove" ELSE "save"]
    /\ UNCHANGED <<cop, cchat, cwork, ctask, cstate, cbound, told, crashes>>
    /\ UNCHANGED transferVars

RemoveDownload(c) ==
    /\ cpc[c] = "remove"
    /\ BackendRemove(ctask[c], TRUE)
    /\ cpc' = [cpc EXCEPT ![c] = "save"]
    /\ UNCHANGED <<cop, cchat, cwork, ctask, cstate, cbound, told, crashes>>
    /\ UNCHANGED <<coroutine, pool, table, active>>

\* The loaded copy, marked cancelled, replaces whatever the row holds now.
SaveCancelled(c) ==
    /\ cpc[c] = "save"
    /\ \/ /\ rowState' = [rowState EXCEPT ![ctask[c]] = MarkCancelled(cstate[c])]
          /\ rowBound' = [rowBound EXCEPT ![ctask[c]] = cbound[c]]
          /\ told' = [told EXCEPT ![ctask[c]] = @ \union {"stopped"}]
       \/ "save" \in Faults /\ UNCHANGED <<table, told>>
    /\ cpc' = [cpc EXCEPT ![c] = "find"]
    /\ UNCHANGED <<cop, cchat, cwork, ctask, cstate, cbound, crashes>>
    /\ UNCHANGED <<coroutine, pool, active, backend>>

\* What pause and resume do to a download they apply to.
Paused  == [active |-> "paused", seeding |-> "halted"]
Resumed == [paused |-> "active", halted |-> "seeding"]

\* PauseTask and ResumeTask: the backend is told, no state is written.
CallBackend(c) ==
    /\ cpc[c] = "call"
    /\ LET t == ctask[c]
           effect == IF cop[c] = "pause" THEN Paused ELSE Resumed
       IN  \/ /\ dl[t] \in DOMAIN effect
              /\ dl' = [dl EXCEPT ![t] = effect[@]]
           \/ /\ dl[t] \notin DOMAIN effect \/ "rpc" \in Faults
              /\ UNCHANGED dl
    /\ cpc' = [cpc EXCEPT ![c] = "find"]
    /\ UNCHANGED <<cop, cchat, cwork, ctask, cstate, cbound, told, crashes>>
    /\ UNCHANGED <<coroutine, pool, table, active, listed, landed>>

CommandStep(c) ==
    \/ Find(c) \/ Refuse(c) \/ Signal(c) \/ TakeOver(c)
    \/ RemoveDownload(c) \/ SaveCancelled(c) \/ CallBackend(c)

\* The process dies, or shutdown stops the executor under its coroutines: what
\* was in memory is gone, rows and downloads stay.  The next start resumes
\* nothing.
Crash ==
    /\ crashes < MaxCrashes
    /\ crashes' = crashes + 1
    /\ pc' = [t \in Tasks |->
                 IF pc[t] \in Gone \union {"idle"} THEN pc[t] ELSE "crashed"]
    /\ upload' = [t \in Tasks |-> [f \in Files |->
                     IF f \in Live(t) THEN "lost" ELSE upload[t][f]]]
    /\ registry' = {}
    /\ cpc' = [c \in Commands |-> IF cpc[c] = "idle" THEN "idle" ELSE "find"]
    /\ cwork' = [c \in Commands |-> {}]
    /\ UNCHANGED <<kind, via, mem, bound, after, dlDone, trans, seen, idx>>
    /\ UNCHANGED <<inFlight, completed, failed, sent, table, flag, backend>>
    /\ UNCHANGED <<cop, cchat, ctask, cstate, cbound, told>>

Transfer(t) == TransferStep(t) /\ UNCHANGED <<commandVars, told, crashes>>

\* Everything that can happen has happened; commands need not be issued.
Quiescent ==
    /\ \A t \in Tasks : pc[t] \in Gone
    /\ \A c \in Commands : cpc[c] = "find" /\ cwork[c] = {}
    /\ UNCHANGED vars

Next ==
    \/ \E t \in Tasks : Transfer(t)
    \/ \E c \in Commands : Request(c) \/ CommandStep(c)
    \/ Crash
    \/ Quiescent

Spec == Init /\ [][Next]_vars

(***************************************************************************)
(* Fairness.  A suspended coroutine is resumed: RPCs have timeouts, timers *)
(* expire, SQLite calls return and the executor's threads run every ready  *)
(* handler.  Nothing is assumed of downloads, uploads, users and crashes;  *)
(* an upload has waits of its own, which need not end.                     *)
(***************************************************************************)
Fairness ==
    /\ \A t \in Tasks :
          WF_vars(/\ pc[t] # "uploadAll"
                  /\ CoroutineStep(t)
                  /\ UNCHANGED <<commandVars, told, crashes>>)
    /\ \A c \in Commands : WF_vars(CommandStep(c))

FairSpec == Spec /\ Fairness
=============================================================================
