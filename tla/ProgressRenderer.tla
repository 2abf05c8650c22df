-------------------------- MODULE ProgressRenderer --------------------------
(***************************************************************************)
(* ProgressRenderer: the live status message of one chat.                  *)
(*                                                                         *)
(* render() and force_refresh() run on the strand of the chat, so that a   *)
(* step of this module is the code between two awaits; a one-slot channel  *)
(* keeps a second one from starting while the first awaits Telegram.       *)
(* Chats share nothing.  What is rendered is one of Texts, whatever the    *)
(* downloads and the metrics are by then.  There is no clock: any render   *)
(* of an existing message may fall into the throttle window, so last_edit  *)
(* is left out.                                                            *)
(***************************************************************************)
EXTENDS TelegramGateway

CONSTANTS Renders,     \* coroutines that render: the poll loops of tasks
          MaxRenders,  \* bound: how often they do
          Texts        \* what they render

VARIABLES
    rp,        \* what a render awaits
    draft,     \* html, the local variable
    left,      \* renders left of the bound
    token,     \* the semaphore holds its token
    waiters,   \* force_refresh() calls that wait for it
    cached,    \* status_message_id
    html,      \* last_rendered_html
    shown,     \* Telegram: texts of the messages, 0 once deleted
    failures,  \* requests for which an error was reported (ghost)
    unsure     \* messages an edit of which was reported failed (ghost)

chatVars == <<token, waiters, cached, html>>
renderVars == <<rp, draft, left>>
doubtVars == <<failures, unsure>>

RenderTypes ==
    /\ rp \in [Renders -> {"idle", "acquire", "granted", "edit", "send"}]
    /\ draft \in [Renders -> Texts \union {0}]
    /\ left \in 0..MaxRenders
    /\ token \in BOOLEAN
    /\ cached \in 0..Len(shown)
    /\ html \in Texts \union {0}
    /\ \A m \in DOMAIN shown : shown[m] \in Texts \union {0}

-----------------------------------------------------------------------------
At(r, place) == rp' = [rp EXCEPT ![r] = place]

\* ~SemReleaseGuard: the token goes to the first waiter, or back.
Release(r) ==
    \/ /\ waiters = <<>>
       /\ token' = TRUE
       /\ At(r, "idle")
       /\ UNCHANGED waiters
    \/ /\ waiters # <<>>
       /\ rp' = [rp EXCEPT ![r] = "idle", ![Head(waiters)] = "granted"]
       /\ waiters' = Tail(waiters)
       /\ UNCHANGED token

\* A call begins, with everything it does before its first await.
Begins(r) ==
    /\ rp[r] = "idle"
    /\ left > 0
    /\ left' = left - 1

\* render() or force_refresh(), holding the token, has something new to show:
\* the first message, or an edit of the one there is.
Show(r) ==
    \E text \in Texts :
        /\ draft' = [draft EXCEPT ![r] = text]
        /\ \/ /\ cached = 0
              /\ Call(r, Request("send", text, 0))
              /\ At(r, "send")
           \/ /\ cached # 0
              /\ text # html
              /\ Call(r, Request("edit", text, cached))
              /\ At(r, "edit")

\* render() that finds a render under way, or, with a message, is within the
\* throttle window or has nothing new to show.
RenderSkips(r) ==
    /\ Begins(r)
    /\ ~token \/ cached # 0
    /\ UNCHANGED <<rp, draft, chatVars, strand, callVars>>

\* A render() that does not take the token.
RenderUnlocked(r) ==
    /\ Begins(r)
    /\ Show(r)
    /\ UNCHANGED chatVars

RenderShows(r) ==
    /\ Begins(r)
    /\ token
    /\ token' = FALSE
    /\ Show(r)
    /\ UNCHANGED <<waiters, cached, html>>

\* force_refresh() waits for the token behind the others.
RefreshAcquires(r) ==
    /\ Begins(r)
    /\ \/ /\ token
          /\ token' = FALSE
          /\ At(r, "granted")
          /\ UNCHANGED waiters
       \/ /\ ~token
          /\ waiters' = Append(waiters, r)
          /\ At(r, "acquire")
          /\ UNCHANGED token
    /\ UNCHANGED <<draft, cached, html, strand, callVars>>

\* With the token, unless there is nothing new.
RefreshShows(r) ==
    /\ rp[r] = "granted"
    /\ \/ /\ cached # 0
          /\ Release(r)
          /\ UNCHANGED <<draft, cached, html, strand, callVars>>
       \/ /\ Show(r)
          /\ UNCHANGED chatVars
    /\ UNCHANGED left

\* The reply to an edit; after a failure a new message is sent.
Edited(r) ==
    /\ rp[r] = "edit"
    /\ pc[r] = "woken"
    /\ \/ /\ slot[r].is = "ok"
          /\ html' = draft[r]
          /\ Release(r)
          /\ Returned(r, "idle")
          /\ UNCHANGED <<cached, strand, doubtVars>>
       \/ /\ slot[r].is # "ok"
          /\ failures' = failures + 1
          /\ unsure' = unsure \union {cached}
          /\ CallAgain(r, Request("send", draft[r], 0))
          /\ At(r, "send")
          /\ UNCHANGED chatVars
    /\ UNCHANGED <<draft, left>>

\* The reply to a send; a failure is reported to the caller, which ignores it.
Sent(r) ==
    /\ rp[r] = "send"
    /\ pc[r] = "woken"
    /\ \/ /\ slot[r].is = "ok"
          /\ cached' = slot[r].msg
          /\ html' = draft[r]
          /\ UNCHANGED failures
       \/ /\ slot[r].is # "ok"
          /\ failures' = failures + 1
          /\ UNCHANGED <<cached, html>>
    /\ Release(r)
    /\ Returned(r, "idle")
    /\ UNCHANGED <<strand, unsure, draft, left>>

RenderStep(r) ==
    /\ \/ RenderSkips(r) /\ UNCHANGED doubtVars
       \/ RenderShows(r) /\ UNCHANGED doubtVars
       \/ RefreshAcquires(r) /\ UNCHANGED doubtVars
       \/ RefreshShows(r) /\ UNCHANGED doubtVars
       \/ Edited(r) \/ Sent(r)
    /\ UNCHANGED <<loopVars, tableVars, asked, shown>>

-----------------------------------------------------------------------------
\* However renders of several tasks of a chat overlap, the chat has one status
\* message: another one that is still shown is the work of a request that was
\* reported as failed, or of a send whose reply is on its way.
OneStatusMessage ==
    Cardinality({m \in DOMAIN shown : shown[m] # 0 /\ m # cached})
        <= failures + (IF token THEN 0 ELSE 1)

\* Between renders the cache tells the truth about the message, so that the
\* comparison of texts never suppresses a needed edit; unless an edit of that
\* very message was reported failed and may have happened.
CacheTruth ==
    token /\ cached # 0 /\ cached \notin unsure =>
        shown[cached] \in {0, html}

\* What render() and force_refresh() know of a chat is right: there is one status
\* message, the one they edit, and it shows what they take it to show.
StatusMessage == OneStatusMessage /\ CacheTruth
=============================================================================
