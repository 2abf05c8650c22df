----------------------------- MODULE TelegramBot -----------------------------
(***************************************************************************)
(* The Telegram side of the bot: the main thread that wires and spawns its *)
(* parts, the gateway, the login, the update router, the handlers of       *)
(* commands, the status message of a chat, and TDLib.                      *)
(***************************************************************************)
EXTENDS AuthenticationFlow, ProgressRenderer

CONSTANTS Handlers  \* coroutines that handle an update, one each

ASSUME BotAssumption ==
    /\ Handlers \subseteq Callers /\ Renders \subseteq Callers
    /\ {Params, Token, Options} \subseteq Callers
    /\ Params # Token /\ Token # Options /\ Options # Params
    /\ {Params, Token, Options} \intersect (Handlers \union Renders) = {}
    /\ Handlers \intersect Renders = {}
    /\ IsFiniteSet(Handlers)
    /\ NumOptions \in Nat /\ MaxRenders \in Nat
    /\ Texts \subseteq Nat \ {0}

VARIABLES
    updates     \* updates TDLib has still to report

vars == <<callVars, loopVars, strand, tableVars, asked, authVars, tdAuthVars,
          chatVars, renderVars, shown, doubtVars, updates>>
renderSide == <<chatVars, renderVars, shown, doubtVars>>

TypeOK ==
    /\ GatewayTypes
    /\ AuthTypes
    /\ RenderTypes
    /\ updates \in 0..Cardinality(Handlers)

\* Before the bot is up; and, to see renders and handlers without the whole login
\* before them, the state after a login, with the ones or the others to come.
Init ==
    /\ strand = <<>> /\ pending = {} /\ nextId = 1 /\ asked = {}
    /\ what = [c \in Callers |-> NoRequest]
    /\ id = [c \in Callers |-> 0]
    /\ slot = [c \in Callers |-> NoAnswer]
    /\ late = [c \in Callers |-> FALSE]
    /\ stop = FALSE
    /\ option = 0
    /\ authOut = <<>>
    /\ listener = FALSE
    /\ rp = [r \in Renders |-> "idle"]
    /\ draft = [r \in Renders |-> 0]
    /\ token = TRUE /\ waiters = <<>> /\ cached = 0 /\ html = 0
    /\ shown = <<>> /\ failures = 0 /\ unsure = {}
    /\ \/ /\ run = "new" /\ recv = "new" /\ sweeping = FALSE
          /\ pc = [c \in Callers |-> "idle"]
          /\ auth = "new" /\ completed = "none" /\ lastAuth = "none"
          /\ acted = [s \in AuthStates |-> 0]
          /\ tdAuth = "none"
          /\ left = 0 /\ updates = 0
       \/ /\ run = "parked" /\ recv = "receiving" /\ sweeping = TRUE
          /\ pc = [c \in Callers |->
                      IF c \in {Params, Token, Options} THEN "done" ELSE "idle"]
          /\ auth = "ready" /\ completed = "ready" /\ lastAuth = "ready"
          /\ acted = [s \in AuthStates |-> IF s = "closed" THEN 0 ELSE 1]
          /\ tdAuth = "ready"
          /\ \/ left = MaxRenders /\ updates = 0
             \/ left = 0 /\ updates = Cardinality(Handlers)

-----------------------------------------------------------------------------
(***************************************************************************)
(* main().                                                                 *)
(***************************************************************************)

\* The handlers of UpdateRouter are posted to the strand, each by a
\* rewire_gateway(); then run() and authenticate() are spawned.  run() creates
\* the client, so that no update comes before the handlers.
SpawnLoops ==
    /\ run = "new"
    /\ run' = "spawned"
    /\ auth' = "starting"
    /\ UNCHANGED <<callVars, recv, stop, sweeping, strand, tableVars, asked,
                   completed, listener, lastAuth, acted, option, tdAuthVars,
                   renderSide, updates>>

\* run() dispatches to the strand.
RunStarts ==
    /\ run = "spawned"
    /\ \A i \in DOMAIN strand : strand[i] # <<"bringup">>
    /\ strand' = Append(strand, <<"bringup">>)
    /\ UNCHANGED <<updates, callVars, loopVars, tableVars, asked, authVars,
                   tdAuthVars, renderSide>>

\* A signal.  The shutdown signal is emitted too, but each co_spawn bound its
\* slot anew: only the RSS poller, the last, hears it.  Some time later, by
\* results or by deadlines, the waits of main() end and the executor stops.
Signal ==
    /\ run # "new"
    /\ ~stop
    /\ RequestStop
    /\ UNCHANGED <<updates, authVars, tdAuthVars, renderSide>>

-----------------------------------------------------------------------------
(***************************************************************************)
(* The strand runs what was posted to it, in order.                        *)
(***************************************************************************)

\* dispatch_update(): the router's lambda spawns the handler.
UpdateJob == \E c \in Handlers : pc[c] = "idle" /\ Spawn(c)

StrandStep ==
    /\ strand # <<>>
    /\ strand' = Tail(strand)
    /\ LET job == Head(strand)
           is(k) == job[1] = k
       IN  \/ /\ is("send") /\ SendJob(job[2])
              /\ UNCHANGED <<loopVars, authVars, tdAuthVars>>
           \/ /\ is("answer") /\ AnswerJob(job[2])
              /\ UNCHANGED <<loopVars, authVars, tdAuthVars>>
           \/ /\ is("auth") /\ AuthJob(job[2])
              /\ UNCHANGED <<what, id, slot, late, loopVars, tableVars, asked,
                             tdAuthVars>>
           \/ /\ is("listen") /\ ListenJob(job[2])
              /\ UNCHANGED <<what, id, slot, late, loopVars, tableVars, asked,
                             tdAuthVars>>
           \/ /\ is("update") /\ UpdateJob
              /\ UNCHANGED <<what, id, slot, late, loopVars, tableVars, asked,
                             authVars, tdAuthVars>>
           \/ /\ is("bringup") /\ BringUpJob
              /\ TdEnters("params")
              /\ UNCHANGED authVars
    /\ UNCHANGED <<updates, renderSide>>

\* The gateway's other steps.
GatewayStep ==
    /\ \/ EvictStale \/ ReceiveTimesOut \/ Drain \/ Clear
       \/ \E c \in Callers : OffSend(c) \/ OffWait(c)
    /\ UNCHANGED <<updates, authVars, tdAuthVars, renderSide>>

ReceiveAuth ==
    /\ authOut # <<>>
    /\ Post(<<"auth", Head(authOut)>>)
    /\ authOut' = Tail(authOut)
    /\ UNCHANGED <<updates, callVars, run, stop, sweeping, tableVars, asked,
                   authVars, tdAuth, renderSide>>

ReceiveUpdate ==
    /\ updates > 0
    /\ tdAuth = "ready"
    /\ updates' = updates - 1
    /\ Post(<<"update">>)
    /\ UNCHANGED <<callVars, run, stop, sweeping, tableVars, asked,
                   authVars, tdAuthVars, renderSide>>

-----------------------------------------------------------------------------
(***************************************************************************)
(* Coroutines.                                                             *)
(***************************************************************************)

\* The handler of an update sends a reply through Messenger.
HandlerStep(c) ==
    /\ \/ /\ pc[c] = "spawned"
          /\ Call(c, Request("reply", 0, 0))
       \/ /\ pc[c] = "woken"
          /\ Returned(c, "done")
          /\ UNCHANGED strand
    /\ UNCHANGED <<updates, loopVars, tableVars, asked, authVars, tdAuthVars,
                   renderSide>>

LoginStep ==
    /\ AuthStep \/ \E c \in {Params, Token, Options} : LoginRequest(c) \/ LoginReply(c)
    /\ UNCHANGED <<updates, renderSide>>

StatusStep(r) ==
    /\ RenderStep(r)
    /\ UNCHANGED <<updates, authVars, tdAuthVars>>

Cancelled ==
    /\ \E c \in Cancellable : Abort(c)
    /\ UNCHANGED <<updates, authVars, tdAuthVars, renderSide>>

-----------------------------------------------------------------------------
(***************************************************************************)
(* TDLib and the users.                                                    *)
(***************************************************************************)

\* A request is refused, or done; after a logout every one is refused.
TdProcesses ==
    /\ \E q \in asked :
          \/ /\ ReceiveAnswer(q, "error", 0)
             /\ UNCHANGED <<shown, tdAuthVars>>
          \/ /\ q.what.op = tdAuth
             /\ ReceiveAnswer(q, "ok", 0)
             /\ TdEnters(IF tdAuth = "params" THEN "token" ELSE "ready")
             /\ UNCHANGED shown
          \/ /\ q.what.op \in {"option", "reply"}
             /\ tdAuth = "ready"
             /\ ReceiveAnswer(q, "ok", 0)
             /\ UNCHANGED <<shown, tdAuthVars>>
          \/ /\ q.what.op = "send"
             /\ tdAuth = "ready"
             /\ shown' = Append(shown, q.what.html)
             /\ ReceiveAnswer(q, "ok", Len(shown'))
             /\ UNCHANGED tdAuthVars
          \/ /\ q.what.op = "edit"
             /\ tdAuth = "ready"
             /\ shown[q.what.msg] # 0
             /\ shown' = [shown EXCEPT ![q.what.msg] = q.what.html]
             /\ ReceiveAnswer(q, "ok", 0)
             /\ UNCHANGED tdAuthVars
    /\ UNCHANGED <<updates, authVars, chatVars, renderVars, doubtVars>>

\* TDLib logs out.
TdCloses ==
    /\ tdAuth \in {"token", "ready"}
    /\ TdEnters("closed")
    /\ UNCHANGED <<updates, callVars, loopVars, strand, tableVars, asked,
                   authVars, renderSide>>

\* A user deletes the status message, or presses Close.
UserDeletes ==
    /\ cached # 0
    /\ shown[cached] # 0
    /\ shown' = [shown EXCEPT ![cached] = 0]
    /\ UNCHANGED <<updates, callVars, loopVars, strand, tableVars, asked,
                   authVars, tdAuthVars, chatVars, renderVars, doubtVars>>

-----------------------------------------------------------------------------
Next ==
    \/ SpawnLoops \/ RunStarts \/ Signal
    \/ StrandStep \/ GatewayStep \/ ReceiveAuth \/ ReceiveUpdate
    \/ LoginStep \/ Cancelled
    \/ \E c \in Handlers : HandlerStep(c)
    \/ \E r \in Renders : StatusStep(r)
    \/ TdProcesses \/ TdCloses \/ UserDeletes

Spec == Init /\ [][Next]_vars

Sweep == EvictStale /\ UNCHANGED <<updates, authVars, tdAuthVars, renderSide>>

\* The executor, the strand, the receive thread and the sweep go on until the
\* bot is stopped; nothing is assumed of TDLib and of users.
FairSpec ==
    /\ Spec
    /\ WF_vars(SpawnLoops \/ RunStarts)
    /\ WF_vars(~stop /\ StrandStep)
    /\ WF_vars(~stop /\ Sweep)
    /\ WF_vars(~stop /\ ReceiveAuth)
    /\ WF_vars(~stop /\ LoginStep)
=============================================================================
