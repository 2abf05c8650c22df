------------------------- MODULE AuthenticationFlow -------------------------
(***************************************************************************)
(* AuthenticationFlow: the login with a bot token, driven by the           *)
(* authorisation states that TDLib reports through the gateway.            *)
(*                                                                         *)
(* The listener runs on the gateway's strand and answers each state by a   *)
(* detached coroutine that sends one request; authenticate() waits on a    *)
(* timer that the listener cancels.  Configuration::load refuses an empty  *)
(* token, so the check for one is left out.                                *)
(***************************************************************************)
EXTENDS TelegramGateway

CONSTANTS Params,     \* the coroutine that sends setTdlibParameters,
          Token,      \* checkAuthenticationBotToken,
          Options,    \* and apply_runtime_options()
          NumOptions  \* how many requests the latter sends

VARIABLES
    auth,       \* where authenticate() is
    completed,  \* State::completed and State::ready
    listener,   \* auth_handler is set
    lastAuth,   \* last_auth_state
    acted,      \* how often the listener saw a state (ghost)
    option,     \* the option being set
    tdAuth,     \* TDLib: the authorisation state,
    authOut     \* and the updates that nobody has received

authVars == <<auth, completed, listener, lastAuth, acted, option>>
tdAuthVars == <<tdAuth, authOut>>

AuthStates == {"params", "token", "ready", "closed"}

AuthTypes ==
    /\ auth \in {"new", "starting", "installed", "waiting", "woken", "ready", "failed"}
    /\ completed \in {"none", "ready", "closed"}
    /\ listener \in BOOLEAN
    /\ lastAuth \in AuthStates \union {"none"}
    /\ acted \in [AuthStates -> Nat]
    /\ option \in 0..NumOptions
    /\ tdAuth \in AuthStates \union {"none"}

-----------------------------------------------------------------------------
\* The listener, called with state s.  LoggingOut, Closing and Closed are one.
Act(s) ==
    /\ acted' = [acted EXCEPT ![s] = @ + 1]
    /\ completed' = IF s \in {"ready", "closed"} THEN s ELSE completed
    /\ auth' = IF s \in {"ready", "closed"} /\ auth = "waiting" THEN "woken" ELSE auth
    /\ \/ s = "params" /\ Spawn(Params)
       \/ s = "token" /\ Spawn(Token)
       \/ s = "ready" /\ Spawn(Options)
       \/ s = "closed" /\ UNCHANGED pc

NoListener == UNCHANGED <<acted, completed, auth, pc>>

\* dispatch_auth_state(): remembered, and passed on if there is a listener.
AuthJob(s) ==
    /\ lastAuth' = s
    /\ IF listener THEN Act(s) ELSE NoListener
    /\ UNCHANGED <<listener, option>>

\* A replay that does not look whether there is a listener.
ListenJobAlways(on) ==
    /\ listener' = on
    /\ IF lastAuth # "none" THEN Act(lastAuth) ELSE NoListener
    /\ UNCHANGED <<lastAuth, option>>

\* The post of set_auth_state_handler(): a new listener sees the last state.
ListenJob(on) ==
    /\ listener' = on
    /\ IF on /\ lastAuth # "none" THEN Act(lastAuth) ELSE NoListener
    /\ UNCHANGED <<lastAuth, option>>

\* authenticate(), to the post of the listener and then to its wait.
Authenticate ==
    /\ auth = "starting"
    /\ strand' = Append(strand, <<"listen", TRUE>>)
    /\ auth' = "installed"
    /\ UNCHANGED <<completed, listener, lastAuth, acted, option, pc>>

AuthWaits ==
    /\ auth = "installed"
    /\ auth' = "waiting"
    /\ UNCHANGED <<strand, completed, listener, lastAuth, acted, option, pc>>

\* The timer was cancelled: the listener is detached.
AuthReturns ==
    /\ auth = "woken"
    /\ strand' = Append(strand, <<"listen", FALSE>>)
    /\ auth' = IF completed = "ready" THEN "ready" ELSE "failed"
    /\ UNCHANGED <<completed, listener, lastAuth, acted, option, pc>>

AuthStep ==
    /\ Authenticate \/ AuthWaits \/ AuthReturns
    /\ UNCHANGED <<loopVars, tableVars, what, id, slot, late, asked, tdAuthVars>>

-----------------------------------------------------------------------------
\* The coroutines of the listener send their requests; failures are only logged.
LoginRequest(c) ==
    /\ c \in {Params, Token, Options}
    /\ pc[c] = "spawned"
    /\ Call(c, Request(CASE c = Params -> "params"
                         [] c = Token -> "token"
                         [] c = Options -> "option", 0, 0))
    /\ UNCHANGED <<loopVars, tableVars, asked, authVars, tdAuthVars>>

\* Failures are logged; the next option follows whatever became of the last.
LoginReply(c) ==
    /\ pc[c] = "woken"
    /\ \/ /\ c \in {Params, Token}
          /\ Returned(c, "done")
          /\ UNCHANGED <<strand, option>>
       \/ /\ c = Options
          /\ option < NumOptions
          /\ option' = option + 1
          /\ CallAgain(c, Request("option", 0, 0))
       \/ /\ c = Options
          /\ option = NumOptions
          /\ Returned(c, "done")
          /\ UNCHANGED <<strand, option>>
    /\ UNCHANGED <<loopVars, tableVars, asked, auth, completed, listener,
                   lastAuth, acted, tdAuthVars>>

\* TDLib enters state s.
TdEnters(s) ==
    /\ tdAuth' = s
    /\ authOut' = Append(authOut, s)

-----------------------------------------------------------------------------
\* Whether TDLib's first state comes before or after the listener is
\* installed, each state is acted on at most once: parameters and token are not
\* sent again.
LoginStepOnce == \A s \in AuthStates : acted[s] <= 1
=============================================================================
