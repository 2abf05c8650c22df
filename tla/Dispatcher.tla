------------------------------ MODULE Dispatcher ------------------------------
(***************************************************************************)
(* What the bot does with an update: CommandParser, Authority,             *)
(* CommandDispatcher with its handlers, ShowStatus and ShowStats, and      *)
(* CallbackDispatcher.  Each update has a coroutine of its own.  The use   *)
(* cases that are modelled elsewhere are one step here, with their result. *)
(***************************************************************************)
EXTENDS Settings

CONSTANTS Handlers,  \* coroutines for updates
          Updates    \* the messages and taps each may get: kind, name, arg, sender, chat

ASSUME DispatcherAssumption ==
    /\ Handlers \subseteq Clients
    /\ \A h \in Handlers : \A u \in Updates[h] : u.kind \in {"message", "query"}

VARIABLES
    auth,     \* the Authority, built when the bot starts
    job,      \* the update a coroutine has
    at,       \* where it is
    answers,  \* messages it has put into the chat, or answers to the query
    ran,      \* whether its use case did what it was asked for
    result    \* the Result it ends with

dispatchVars == <<auth, job, at, answers, ran, result>>

NoUpdate == [kind |-> "none", name |-> "", arg |-> "", sender |-> "", chat |-> ""]

DispatchTypes ==
    /\ auth \in BotRecords
    /\ job \in [Handlers -> (UNION {Updates[h] : h \in Handlers}) \union {NoUpdate}]
    /\ at \in [Handlers -> {"idle", "notice", "run", "call", "found", "backends", "send",
                            "edit", "delete", "ack", "done"}]
    /\ answers \in [Handlers -> 0..2]
    /\ ran \subseteq Handlers
    /\ result \in [Handlers -> {"ok", "refused", "error"}]

NoHandlers ==
    /\ job' = [h \in Handlers |-> NoUpdate]
    /\ at' = [h \in Handlers |-> "idle"]
    /\ answers' = [h \in Handlers |-> 0]
    /\ ran' = {}
    /\ result' = [h \in Handlers |-> "ok"]

-----------------------------------------------------------------------------
(***************************************************************************)
(* Commands.                                                               *)
(***************************************************************************)
Aliases == [m |-> "mirror", qm |-> "qbmirror", l |-> "leech", ql |-> "qbleech"]

Resolved(name) == IF name \in DOMAIN Aliases THEN Aliases[name] ELSE name

AnyoneMay == {"start", "help", "ping", "settings", "version"}
UserMay == {"mirror", "qbmirror", "leech", "qbleech", "clone", "count", "cancel",
            "pause", "resume", "status", "stats", "rss"}
AdminMay == {"del", "cancelall", "botsettings"}
OwnerMay == {"log"}
Registered == AnyoneMay \union UserMay \union AdminMay \union OwnerMay

Required(name) ==
    CASE name \in AnyoneMay -> 0
      [] name \in UserMay -> 1
      [] name \in AdminMay -> 2
      [] name \in OwnerMay -> 3

\* Authority::of().
LevelOf(sender, chat) ==
    IF sender = auth.owner THEN 3
    ELSE IF sender \in auth.sudo THEN 2
    ELSE IF chat \in auth.chats THEN 1
    ELSE 0

CanRun(u) == LevelOf(u.sender, u.chat) >= Required(Resolved(u.name))

\* Commands whose handler is a use case, and those of them that want an argument.
Delegated == {"mirror", "qbmirror", "leech", "qbleech", "clone", "count", "del",
              "cancel", "cancelall", "pause", "resume"}
WantArgument == Delegated \ {"cancelall"}

\* Arguments that get a usage hint: none where one is wanted, `/rss' without a
\* subcommand it knows, or with one that lacks its own argument.
Incomplete(u) ==
    \/ Resolved(u.name) \in WantArgument /\ u.arg = "nothing"
    \/ u.name = "rss" /\ u.arg \notin {"add url", "list", "remove id"}

\* Where a handler begins.
FirstStep(name) ==
    CASE name \in Delegated -> "run"
      [] name \in {"settings", "botsettings", "status", "rss"} -> "call"
      [] name = "stats" -> "backends"
      [] name \in {"help", "start", "version", "ping", "log"} -> "send"

\* What it asks of the database.
CallOf(name) ==
    CASE name = "settings" -> "view"
      [] name = "botsettings" -> "botview"
      [] OTHER -> "query"

Free(h) == at[h] \in {"idle", "done"}

Receives(h, u) ==
    /\ Free(h)
    /\ job' = [job EXCEPT ![h] = u]
    /\ answers' = [answers EXCEPT ![h] = 0]
    /\ ran' = ran \ {h}
    /\ UNCHANGED auth

Goes(h, place) == at' = [at EXCEPT ![h] = place]
Ends(h, r) == Goes(h, "done") /\ result' = [result EXCEPT ![h] = r]

\* A message that is not a command is dropped.
Chatter(h, u) ==
    /\ u.kind = "message" /\ u.name = "chatter"
    /\ Receives(h, NoUpdate)
    /\ Ends(h, "ok")
    /\ UNCHANGED <<poolVars, settingsVars>>

\* dispatch() refuses a command nobody registered and one the sender may not
\* run; a handler refuses one without its argument, and /log without a log of
\* moderate size.
Refused(u) == Resolved(u.name) \in Registered => ~CanRun(u) \/ Incomplete(u)

Refuse(h, u) ==
    /\ u.kind = "message" /\ u.name # "chatter"
    /\ ~Refused(u) => u.name = "log"
    /\ Receives(h, u)
    /\ Goes(h, "notice")
    /\ result' = [result EXCEPT ![h] = "refused"]
    /\ UNCHANGED <<poolVars, settingsVars>>

\* A permission check that looks the name up before the alias is resolved.
AcceptAnyone(h, u) ==
    /\ u.kind = "message" /\ u.name # "chatter"
    /\ Resolved(u.name) \in Registered /\ ~Incomplete(u)
    /\ u.name \in Registered => CanRun(u)
    /\ Receives(h, u)
    /\ Goes(h, FirstStep(Resolved(u.name)))
    /\ result' = [result EXCEPT ![h] = "ok"]
    /\ IF FirstStep(Resolved(u.name)) = "call"
       THEN StartCall(h, CallOf(u.name))
       ELSE UNCHANGED call
    /\ UNCHANGED <<poolVars, user, bot, want, stale>>

\* dispatch() runs the handler.
Accept(h, u) ==
    /\ u.kind = "message" /\ u.name # "chatter"
    /\ ~Refused(u)
    /\ Receives(h, u)
    /\ Goes(h, FirstStep(Resolved(u.name)))
    /\ result' = [result EXCEPT ![h] = "ok"]
    /\ IF FirstStep(Resolved(u.name)) = "call"
       THEN StartCall(h, CallOf(u.name))
       ELSE UNCHANGED call
    /\ UNCHANGED <<poolVars, user, bot, want, stale>>

(***************************************************************************)
(* The steps of the handlers.  The messenger and the use cases may fail.   *)
(***************************************************************************)
Quiet == UNCHANGED <<poolVars, settingsVars, auth, job>>

Says(h) == answers' = [answers EXCEPT ![h] = @ + 1]

\* A notice is sent at best effort; the command is refused all the same.
Notice(h) ==
    /\ at[h] = "notice"
    /\ Says(h) \/ UNCHANGED answers
    /\ Goes(h, "done")
    /\ Quiet /\ UNCHANGED <<ran, result>>

\* A use case, which tells the chat about itself.
RunUseCase(h) ==
    /\ at[h] = "run"
    /\ \/ /\ ran' = ran \union {h}
          /\ UNCHANGED result
       \/ /\ result' = [result EXCEPT ![h] = "error"]
          /\ UNCHANGED ran
    /\ Goes(h, IF job[h].kind = "query" THEN "ack" ELSE "done")
    /\ Quiet /\ UNCHANGED answers

\* A command has what it asked of the database.
CommandHas(h) ==
    /\ at[h] = "call" /\ job[h].kind = "message"
    /\ \/ /\ call[h].at = "ok"
          /\ Goes(h, IF job[h].name = "status" THEN "found" ELSE "send")
          /\ UNCHANGED result
       \/ call[h].at = "error" /\ Ends(h, "error")
    /\ Taken(h)
    /\ UNCHANGED <<poolVars, user, bot, want, stale, auth, job, answers, ran>>

\* ShowStatus: a task that was asked for may be missing, belong to another chat
\* or user, or have no downloader; a downloader may not answer.  In the list of
\* all tasks such tasks are left out.
Found(h) ==
    /\ at[h] = "found"
    /\ \/ Goes(h, "send") /\ UNCHANGED result
       \/ /\ job[h].arg # "nothing"
          /\ \/ Goes(h, "notice") /\ result' = [result EXCEPT ![h] = "refused"]
             \/ Ends(h, "error")
    /\ Quiet /\ UNCHANGED <<answers, ran>>

\* ShowStats: a backend that does not answer is reported as unavailable.
Backends(h) ==
    /\ at[h] = "backends"
    /\ Goes(h, "send")
    /\ Quiet /\ UNCHANGED <<answers, ran, result>>

Send(h) ==
    /\ at[h] = "send"
    /\ \/ /\ Says(h)
          /\ Goes(h, IF job[h].name = "ping" THEN "edit" ELSE "done")
          /\ UNCHANGED result
       \/ Ends(h, "error") /\ UNCHANGED answers
    /\ Quiet /\ UNCHANGED ran

\* The latency is edited into the answer to /ping.
EditPing(h) ==
    /\ at[h] = "edit" /\ job[h].kind = "message"
    /\ \E r \in {"ok", "error"} : Ends(h, r)
    /\ Quiet /\ UNCHANGED <<answers, ran>>

-----------------------------------------------------------------------------
(***************************************************************************)
(* CallbackDispatcher: nobody's permission is asked for a tap on a button. *)
(***************************************************************************)
FirstTap(u) ==
    CASE u.name = "close" -> IF u.arg = "message" THEN "delete" ELSE "ack"
      [] u.name \in {"cycle", "toggle"} -> "call"
      [] u.name = "task" /\ u.arg # "nothing" -> "run"
      [] OTHER -> "ack"

Tap(h, u) ==
    /\ u.kind = "query"
    /\ Receives(h, u)
    /\ Goes(h, FirstTap(u))
    /\ result' = [result EXCEPT ![h] = "ok"]
    /\ IF FirstTap(u) = "call" THEN StartCall(h, u.name) ELSE UNCHANGED call
    /\ UNCHANGED <<poolVars, user, bot, want, stale>>

Tapped(h, failed) ==
    result' = [result EXCEPT ![h] = IF failed THEN "error" ELSE @]

\* The new settings are shown in the message with the button, if it has one.
QueryHas(h) ==
    /\ at[h] = "call" /\ job[h].kind = "query"
    /\ call[h].at \in {"ok", "error"}
    /\ Taken(h)
    /\ Tapped(h, call[h].at = "error")
    /\ ran' = IF call[h].at = "ok" THEN ran \union {h} ELSE ran
    /\ Goes(h, IF call[h].at = "ok" /\ job[h].arg = "message" THEN "edit" ELSE "ack")
    /\ UNCHANGED <<poolVars, user, bot, want, stale, auth, job, answers>>

\* An edit or a deletion that fails and ends the coroutine.
ShowReturns(h) ==
    /\ at[h] \in {"edit", "delete"} /\ job[h].kind = "query"
    /\ \/ Goes(h, "ack") /\ UNCHANGED result
       \/ Ends(h, "error")
    /\ Quiet /\ UNCHANGED <<answers, ran>>

Show(h) ==
    /\ at[h] \in {"edit", "delete"} /\ job[h].kind = "query"
    /\ Goes(h, "ack")
    /\ \E failed \in BOOLEAN : Tapped(h, failed)
    /\ Quiet /\ UNCHANGED <<answers, ran>>

\* The query is answered in the end, with what came of it.
Ack(h) ==
    /\ at[h] = "ack"
    /\ Says(h)
    /\ \E r \in {result[h], "error"} : Ends(h, r)
    /\ Quiet /\ UNCHANGED ran

HandlerStep(h) ==
    \/ Notice(h) \/ RunUseCase(h) \/ CommandHas(h) \/ Found(h) \/ Backends(h)
    \/ Send(h) \/ EditPing(h) \/ QueryHas(h) \/ Show(h) \/ Ack(h)

-----------------------------------------------------------------------------
Over(h, kind) == at[h] = "done" /\ job[h].kind = kind

\* A command that reports success was permitted and complete, and was answered
\* exactly once, by its handler or by its use case; one that was refused has run
\* nothing, and got one notice at most.
Answered ==
    \A h \in Handlers : Over(h, "message") =>
        /\ result[h] = "ok" =>
              /\ ~Refused(job[h])
              /\ (h \in ran) = (Resolved(job[h].name) \in Delegated)
              /\ answers[h] = IF h \in ran THEN 0 ELSE 1
        /\ result[h] = "refused" => h \notin ran /\ answers[h] <= 1

\* A tap is answered exactly once, whatever failed on the way, and not as done
\* when the settings were not saved or the task was not reached.
QueryAcked ==
    \A h \in Handlers : Over(h, "query") =>
        /\ answers[h] = 1
        /\ result[h] = "ok" /\ FirstTap(job[h]) \in {"call", "run"} => h \in ran
=============================================================================
